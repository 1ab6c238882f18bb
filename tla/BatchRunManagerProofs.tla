------------------------ MODULE BatchRunManagerProofs ------------------------
(***************************************************************************)
(* Proofs about BatchRunManager for every set of batches, any number of    *)
(* devices and every bound: nothing is assumed of the constants but what   *)
(* BatchAssumption says.                                                   *)
(***************************************************************************)
EXTENDS BatchRefinement, FiniteSetTheorems, TLAPS

USE BatchAssumption

LEMMA InitOK == Init => IInv
<1> SUFFICES ASSUME Init PROVE IInv
  OBVIOUS
<1>1. dev \in [Batch -> [Device -> DevState]] /\ pc \in [Batch -> PC]
  BY DEF Init, AllPending, DevState, PC
<1>2. made \in [Batch -> 0..N] /\ child \in [Batch -> {"none", "alive"} \cup Ended]
  BY DEF Init
<1>3. /\ info \in [Batch -> (Batch \X Device) \cup {None}]
      /\ ended \in [Batch -> EndedBatch \cup {None}]
      /\ review \in [Batch -> Batch \cup {None}]
      /\ summary \in [Batch -> Summary \cup {None}]
  BY DEF Init
<1>4. /\ batch = None /\ list = None /\ state = "idle" /\ stopReq = FALSE /\ index = 0
      /\ exec = None /\ stops = {} /\ cand = {} /\ faults = 0
      /\ overlaps = 0 /\ unwritten = {} /\ twice = {} /\ lost = {}
  BY DEF Init
<1>5. TypeOK
  BY <1>1, <1>2, <1>3, <1>4 DEF TypeOK
<1>6. PlacesOK /\ FlagOK /\ SummaryIsCurrent /\ RunningHasWorker
  BY DEF Init, PlacesOK, FlagOK, SummaryIsCurrent, RunningHasWorker, Holding, Busy
<1>7. BusyOK
  <2>1. Busy = {}
    BY DEF Init, Busy
  <2> QED BY <1>4, <2>1, FS_EmptySet DEF BusyOK
<1> QED BY <1>5, <1>6, <1>7 DEF IInv

\* A device that is set keeps the types.
LEMMA SetDeviceType ==
  ASSUME TypeOK, NEW d \in Batch \X Device, NEW s \in DevState, SetDevice(d, s)
  PROVE  dev' \in [Batch -> [Device -> DevState]]
BY DEF TypeOK, SetDevice

\* The summary that is written is the current one, and one that is not is known.
LEMMA WriteSummaryOK ==
  ASSUME TypeOK, batch' \in Batch, list' \in Batch \cup {None}, WriteSummary,
         dev' \in [Batch -> [Device -> DevState]], state' \in {"running", "stopped", "finished"}
  PROVE  /\ summary' \in [Batch -> Summary \cup {None}]
         /\ unwritten' \subseteq Batch
         /\ SummaryIsCurrent'
<1>1. Saying(state', list', dev') \in Summary
  BY DEF Saying, Summary, AllPending, DevState
<1>2. summary' \in [Batch -> Summary \cup {None}]
  <2>1. CASE summary' = [summary EXCEPT ![batch'] = Saying(state', list', dev')]
    BY <1>1, <2>1, Zenon DEF TypeOK
  <2>2. CASE summary' = summary
    BY <2>2 DEF TypeOK
  <2> QED BY <2>1, <2>2 DEF WriteSummary
<1>4. unwritten' \subseteq Batch
  BY DEF TypeOK, WriteSummary
<1>3. batch' \notin unwritten' => summary'[batch'] = Saying(state', list', dev')
  BY DEF TypeOK, WriteSummary
<1> QED BY <1>2, <1>3, <1>4 DEF SummaryIsCurrent, Saying

\* Where no batch starts, no more workers are busy than before.
LEMMA BusyShrinks ==
  ASSUME TypeOK, BusyOK, overlaps' = overlaps,
         \A w \in Batch : pc'[w] \notin {"idle", "done"} => pc[w] \notin {"idle", "done"}
  PROVE  BusyOK'
<1>1. Busy' \subseteq Busy
  BY DEF Busy
<1>2. IsFiniteSet(Busy') /\ Cardinality(Busy') <= Cardinality(Busy)
  BY <1>1, FS_Subset DEF BusyOK
<1>3. Cardinality(Busy) \in Nat /\ Cardinality(Busy') \in Nat /\ overlaps \in Nat
  BY <1>2, FS_CardinalityType DEF BusyOK, TypeOK
<1> QED BY <1>2, <1>3 DEF BusyOK

\* The batch that starts has one more worker, beside those that are counted.
LEMMA BusyGrows ==
  ASSUME TypeOK, BusyOK, NEW b \in Batch, MayStart(b),
         \A w \in Batch \ {b} : pc'[w] = pc[w]
  PROVE  BusyOK' /\ overlaps' \in Nat
<1>1. Busy' \subseteq Busy \cup {b} /\ b \notin Busy
  BY DEF Busy, MayStart
<1>2. IsFiniteSet(Busy \cup {b}) /\ Cardinality(Busy \cup {b}) = Cardinality(Busy) + 1
  BY <1>1, FS_AddElement DEF BusyOK
<1>3. IsFiniteSet(Busy') /\ Cardinality(Busy') <= Cardinality(Busy) + 1
  BY <1>1, <1>2, FS_Subset
<1>4. Cardinality(Busy) \in Nat /\ Cardinality(Busy') \in Nat /\ overlaps \in Nat
  BY <1>3, FS_CardinalityType DEF BusyOK, TypeOK
<1>5. CASE Working
  BY <1>3, <1>4, <1>5 DEF BusyOK, MayStart
<1>6. CASE ~Working
  <2>1. Busy = {}
    BY <1>6 DEF Working, Busy
  <2>2. Cardinality(Busy) = 0
    BY <2>1, FS_EmptySet
  <2> QED BY <1>3, <1>4, <1>6, <2>2 DEF BusyOK, MayStart
<1> QED BY <1>5, <1>6

-----------------------------------------------------------------------------
(* The steps.                                                              *)

\* A start, whether its worker starts too or not.
LEMMA BeginKeeps ==
  ASSUME IInv, NEW b \in Batch, StartBatch(b) \/ NoWorker(b)
  PROVE  IInv'
<1> USE DEF IInv
<1>1. PICK there \in {"top", "done"} :
        /\ Begin(b, there) /\ faults' \in Nat /\ lost' \subseteq Batch
        /\ there = "done" => b \in lost'
  BY DEF StartBatch, NoWorker, Fault, TypeOK
<1> USE <1>1
<1>2. /\ pc[b] = "idle" /\ pc'[b] = there /\ \A w \in Batch \ {b} : pc'[w] = pc[w]
      /\ pc' \in [Batch -> PC]
  BY DEF Begin, MayStart, TypeOK, PC
<1>3. BusyOK' /\ overlaps' \in Nat
  BY <1>2, BusyGrows DEF Begin
<1>4. dev' \in [Batch -> [Device -> DevState]]
  BY DEF Begin, TypeOK, AllPending, DevState
<1>5. SummaryIsCurrent' /\ summary' \in [Batch -> Summary \cup {None}] /\ unwritten' \subseteq Batch
  BY <1>4, WriteSummaryOK DEF Begin
<1>6. TypeOK'
  BY <1>2, <1>3, <1>4, <1>5 DEF Begin, TypeOK, candidates
<1>7. PlacesOK' /\ FlagOK' /\ RunningHasWorker'
  BY <1>2 DEF Begin, TypeOK, PlacesOK, FlagOK, RunningHasWorker, Holding, Busy, candidates
<1> QED BY <1>3, <1>5, <1>6, <1>7

\* A start that raises half-way.
LEMMA BeginFailsKeeps ==
  ASSUME IInv, NEW b \in Batch, BeginFails(b)
  PROVE  IInv'
<1> USE DEF IInv, BeginFails, Fault
<1>2. /\ pc[b] = "idle" /\ pc'[b] = "done" /\ \A w \in Batch \ {b} : pc'[w] = pc[w]
      /\ pc' \in [Batch -> PC]
  BY DEF MayStart, TypeOK, PC
<1>3. BusyOK' /\ overlaps' \in Nat
  BY <1>2, BusyGrows
<1>4. faults' \in Nat /\ unwritten' \subseteq Batch /\ lost' \subseteq Batch
  BY DEF TypeOK
<1>5. batch' \in Batch /\ state' = "running" /\ stopReq' = FALSE /\ exec' = None
  OBVIOUS
<1>6. TypeOK'
  <2>1. UNCHANGED <<list, index, dev, info, child, stops, candidates, summary, twice>>
    OBVIOUS
  <2> HIDE DEF BeginFails
  <2> QED BY <1>2, <1>3, <1>4, <1>5, <2>1 DEF TypeOK, candidates
<1>7. PlacesOK' /\ FlagOK' /\ RunningHasWorker' /\ SummaryIsCurrent'
  BY <1>2 DEF TypeOK, PlacesOK, FlagOK, RunningHasWorker, SummaryIsCurrent, Holding, Busy, candidates
<1> QED BY <1>3, <1>6, <1>7

LEMMA TakeDeviceKeeps ==
  ASSUME IInv, NEW w \in Batch, TakeDevice(w)
  PROVE  IInv'
<1> USE DEF IInv, TakeDevice, Goto, candidates, history
<1>0. w \in Busy
  BY DEF Busy
<1>1. list \in Batch /\ batch \in Batch /\ <<list, index>> \in Batch \X Device
  <2>1. list # None /\ batch # None /\ index >= 1
    BY <1>0 DEF PlacesOK
  <2> QED BY <2>1 DEF TypeOK, Device
<1>2. dev' \in [Batch -> [Device -> DevState]]
  BY <1>1, SetDeviceType DEF DevState
<1>3. state' \in {"running", "stopped", "finished"}
  BY <1>1 DEF TypeOK, PlacesOK
<1>4. SummaryIsCurrent' /\ summary' \in [Batch -> Summary \cup {None}] /\ unwritten' \subseteq Batch
  BY <1>1, <1>2, <1>3, WriteSummaryOK
<1>5. TypeOK'
  BY <1>1, <1>2, <1>4 DEF TypeOK, PC
<1>6. info'[w] # None
  BY <1>1 DEF TypeOK
<1>7. PlacesOK' /\ FlagOK' /\ RunningHasWorker'
  BY <1>6 DEF TypeOK, PlacesOK, FlagOK, RunningHasWorker, Holding, Busy
<1>8. BusyOK'
  BY BusyShrinks DEF TypeOK
<1> QED BY <1>4, <1>5, <1>7, <1>8

LEMMA SetupDoneKeeps ==
  ASSUME IInv, NEW w \in Batch, SetupDone(w)
  PROVE  IInv'
<1> USE DEF IInv, SetupDone, Goto, candidates, file, history
<1>1. TypeOK'
  BY DEF TypeOK, PlacesOK, Holding, PC, Device, Execution, Ended
<1>2. PlacesOK' /\ FlagOK' /\ RunningHasWorker'
  BY DEF TypeOK, PlacesOK, FlagOK, RunningHasWorker, Holding, Busy
<1>3. BusyOK'
  BY BusyShrinks DEF TypeOK
<1>4. SummaryIsCurrent'
  BY DEF SummaryIsCurrent
<1> QED BY <1>1, <1>2, <1>3, <1>4

LEMMA CheckStopKeeps ==
  ASSUME IInv, NEW w \in Batch, CheckStop(w)
  PROVE  IInv'
<1> USE DEF IInv, CheckStop, Goto, candidates, file, history
<1>1. TypeOK'
  BY DEF TypeOK, PlacesOK, Holding, PC, Device, Execution, Ended
<1>2. PlacesOK' /\ FlagOK' /\ RunningHasWorker'
  BY DEF TypeOK, PlacesOK, FlagOK, RunningHasWorker, Holding, Busy
<1>3. BusyOK'
  BY BusyShrinks DEF TypeOK
<1>4. SummaryIsCurrent'
  BY DEF SummaryIsCurrent
<1> QED BY <1>1, <1>2, <1>3, <1>4

LEMMA LeaveKeeps ==
  ASSUME IInv, NEW w \in Batch, Leave(w)
  PROVE  IInv'
<1> USE DEF IInv, Leave, Goto, candidates, file, history
<1>1. TypeOK'
  BY DEF TypeOK, PlacesOK, Holding, PC, Device, Execution, Ended
<1>2. PlacesOK' /\ FlagOK' /\ RunningHasWorker'
  BY DEF TypeOK, PlacesOK, FlagOK, RunningHasWorker, Holding, Busy
<1>3. BusyOK'
  BY BusyShrinks DEF TypeOK
<1>4. SummaryIsCurrent'
  BY DEF SummaryIsCurrent
<1> QED BY <1>1, <1>2, <1>3, <1>4

LEMMA LaunchKeeps ==
  ASSUME IInv, NEW w \in Batch, Launch(w)
  PROVE  IInv'
<1> USE DEF IInv, Launch, Goto, candidates, file, history
<1>1. TypeOK'
  BY DEF TypeOK, PlacesOK, Holding, PC, Device, Execution, Ended
<1>2. PlacesOK' /\ FlagOK' /\ RunningHasWorker'
  BY DEF TypeOK, PlacesOK, FlagOK, RunningHasWorker, Holding, Busy
<1>3. BusyOK'
  BY BusyShrinks DEF TypeOK
<1>4. SummaryIsCurrent'
  BY DEF SummaryIsCurrent
<1> QED BY <1>1, <1>2, <1>3, <1>4

LEMMA RegisterKeeps ==
  ASSUME IInv, NEW w \in Batch, Register(w)
  PROVE  IInv'
<1> USE DEF IInv, Register, Goto, candidates, file, history
<1>1. TypeOK'
  BY DEF TypeOK, PlacesOK, Holding, PC, Device, Execution, Ended
<1>2. PlacesOK' /\ FlagOK' /\ RunningHasWorker'
  BY DEF TypeOK, PlacesOK, FlagOK, RunningHasWorker, Holding, Busy
<1>3. BusyOK'
  BY BusyShrinks DEF TypeOK
<1>4. SummaryIsCurrent'
  BY DEF SummaryIsCurrent
<1> QED BY <1>1, <1>2, <1>3, <1>4

LEMMA ChildSeenKeeps ==
  ASSUME IInv, NEW w \in Batch, ChildSeen(w)
  PROVE  IInv'
<1> USE DEF IInv, ChildSeen, Goto, candidates, file, history, OwnExecution, Ended
<1>1. TypeOK'
  BY DEF TypeOK, PlacesOK, Holding, PC, Device, Execution, Ended
<1>2. PlacesOK' /\ FlagOK' /\ RunningHasWorker'
  BY DEF TypeOK, PlacesOK, FlagOK, RunningHasWorker, Holding, Busy
<1>3. BusyOK'
  BY BusyShrinks DEF TypeOK
<1>4. SummaryIsCurrent'
  BY DEF SummaryIsCurrent
<1> QED BY <1>1, <1>2, <1>3, <1>4

LEMMA CloseDeviceKeeps ==
  ASSUME IInv, NEW w \in Batch, CloseDevice(w)
  PROVE  IInv'
<1> USE DEF IInv, CloseDevice, Goto, candidates, file, history
<1>1. TypeOK'
  BY DEF TypeOK, PlacesOK, Holding, PC, Device, Execution, Ended
<1>2. PlacesOK' /\ FlagOK' /\ RunningHasWorker'
  BY DEF TypeOK, PlacesOK, FlagOK, RunningHasWorker, Holding, Busy
<1>3. BusyOK'
  BY BusyShrinks DEF TypeOK
<1>4. SummaryIsCurrent'
  BY DEF SummaryIsCurrent
<1> QED BY <1>1, <1>2, <1>3, <1>4

LEMMA NextDeviceKeeps ==
  ASSUME IInv, NEW w \in Batch, NextDevice(w)
  PROVE  IInv'
<1> USE DEF IInv, NextDevice, Goto, candidates, file, history
<1>1. TypeOK'
  BY DEF TypeOK, PlacesOK, Holding, PC, Device, Execution, Ended
<1>2. PlacesOK' /\ FlagOK' /\ RunningHasWorker'
  BY DEF TypeOK, PlacesOK, FlagOK, RunningHasWorker, Holding, Busy
<1>3. BusyOK'
  BY BusyShrinks DEF TypeOK
<1>4. SummaryIsCurrent'
  BY DEF SummaryIsCurrent
<1> QED BY <1>1, <1>2, <1>3, <1>4

LEMMA ReviewKeeps ==
  ASSUME IInv, NEW w \in Batch, Review(w)
  PROVE  IInv'
<1> USE DEF IInv, Review, Goto, candidates, file, history
<1>1. TypeOK'
  BY DEF TypeOK, PlacesOK, Holding, PC, Device, Execution, Ended
<1>2. PlacesOK' /\ FlagOK' /\ RunningHasWorker'
  BY DEF TypeOK, PlacesOK, FlagOK, RunningHasWorker, Holding, Busy
<1>3. BusyOK'
  BY BusyShrinks DEF TypeOK
<1>4. SummaryIsCurrent'
  BY DEF SummaryIsCurrent
<1> QED BY <1>1, <1>2, <1>3, <1>4

LEMMA GenerateKeeps ==
  ASSUME IInv, NEW w \in Batch, Generate(w)
  PROVE  IInv'
<1> USE DEF IInv, Generate, Goto, candidates, file, history
<1>1. TypeOK'
  <2>1. CASE made[w] + 1 > N
    BY <2>1 DEF TypeOK, PC
  <2>2. CASE made[w] + 1 <= N
    <3>1. made[w] + 1 \in Device /\ made[w] + 1 \in 0..N
      BY <2>2 DEF TypeOK, Device
    <3>2. ended[w].batch \in Batch
      BY DEF PlacesOK, EndedBatch
    <3>3. cand' \subseteq Batch \X Device
      BY <2>2, <3>1, <3>2 DEF TypeOK
    <3> QED BY <2>2, <3>1, <3>3 DEF TypeOK
  <2> QED BY <2>1, <2>2 DEF TypeOK
<1>2. PlacesOK' /\ FlagOK' /\ RunningHasWorker'
  BY DEF TypeOK, PlacesOK, FlagOK, RunningHasWorker, Holding, Busy
<1>3. BusyOK'
  BY BusyShrinks DEF TypeOK
<1>4. SummaryIsCurrent'
  BY DEF SummaryIsCurrent
<1> QED BY <1>1, <1>2, <1>3, <1>4

LEMMA WorkerDiesKeeps ==
  ASSUME IInv, NEW w \in Batch, WorkerDies(w)
  PROVE  IInv'
<1> USE DEF IInv, WorkerDies, Goto, candidates, file, Fault
<1>0. /\ pc' = [pc EXCEPT ![w] = "done"] /\ pc[w] \notin {"idle", "done"} /\ child[w] # "alive"
      /\ faults' \in Nat /\ exec' \in Execution \cup {None}
  BY DEF TypeOK, PlacesOK, Holding, Ended
<1>1. TypeOK'
  BY <1>0 DEF TypeOK, PC
<1>2. PlacesOK' /\ FlagOK' /\ RunningHasWorker'
  BY <1>0 DEF TypeOK, PlacesOK, FlagOK, RunningHasWorker, Holding, Busy
<1>3. BusyOK'
  BY <1>0, BusyShrinks DEF TypeOK
<1>4. SummaryIsCurrent'
  BY DEF SummaryIsCurrent
<1> QED BY <1>1, <1>2, <1>3, <1>4

LEMMA ChildExitsKeeps ==
  ASSUME IInv, NEW w \in Batch, ChildExits(w)
  PROVE  IInv'
<1> USE DEF IInv, ChildExits, candidates, file, history
<1>1. TypeOK'
  BY DEF TypeOK, Ended
<1>2. PlacesOK' /\ FlagOK' /\ RunningHasWorker'
  BY DEF TypeOK, PlacesOK, FlagOK, RunningHasWorker, Holding, Busy
<1>3. BusyOK'
  BY BusyShrinks DEF TypeOK
<1>4. SummaryIsCurrent'
  BY DEF SummaryIsCurrent
<1> QED BY <1>1, <1>2, <1>3, <1>4

LEMMA TerminateKeeps ==
  ASSUME IInv, NEW x \in stops, Terminate(x)
  PROVE  IInv'
<1> USE DEF IInv, Terminate, candidates, file, history
<1>1. TypeOK'
  BY DEF TypeOK, Execution, Ended
<1>2. PlacesOK' /\ FlagOK' /\ RunningHasWorker'
  BY DEF TypeOK, PlacesOK, FlagOK, RunningHasWorker, Holding, Busy
<1>3. BusyOK'
  BY BusyShrinks DEF TypeOK
<1>4. SummaryIsCurrent'
  BY DEF SummaryIsCurrent
<1> QED BY <1>1, <1>2, <1>3, <1>4

\* A device that ends, in whichever way its worker recorded it.
Records(w) ==
  MarkStopped(w) \/ \E s \in {"passed", "failed"} : RecordEnd(w, s)

LEMMA RecordsOK ==
  ASSUME IInv, NEW w \in Batch, Records(w), pc[w] \in Holding, UNCHANGED <<batch, list>>
  PROVE  /\ batch \in Batch /\ list \in Batch /\ info[w] \in Batch \X Device
         /\ dev' \in [Batch -> [Device -> DevState]] /\ index' \in Nat /\ index' >= 1
         /\ state' \in {state, "stopped"} /\ state # "idle"
         /\ summary' \in [Batch -> Summary \cup {None}] /\ unwritten' \subseteq Batch
         /\ SummaryIsCurrent'
<1> USE DEF IInv
<1>1. batch \in Batch /\ list \in Batch /\ info[w] \in Batch \X Device /\ state # "idle"
  BY DEF TypeOK, PlacesOK, Holding, Busy
<1>2. dev' \in [Batch -> [Device -> DevState]]
  BY <1>1, SetDeviceType DEF Records, MarkStopped, RecordEnd, DevState
<1>3. state' \in {state, "stopped"} /\ index' \in Nat /\ index' >= 1
  BY <1>1 DEF Records, MarkStopped, RecordEnd, TypeOK, PlacesOK
<1>4. WriteSummary /\ state' \in {"running", "stopped", "finished"}
  BY <1>1, <1>3 DEF Records, MarkStopped, RecordEnd, TypeOK
<1> QED BY <1>1, <1>2, <1>3, <1>4, WriteSummaryOK

LEMMA MarkAndLeaveKeeps ==
  ASSUME IInv, NEW w \in Batch, MarkAndLeave(w)
  PROVE  IInv'
<1> USE DEF IInv, candidates, history
<1>1. /\ Records(w) /\ pc[w] = "mark" /\ pc' = [pc EXCEPT ![w] = "leave"]
      /\ UNCHANGED <<batch, list, stopReq, exec, info, child, stops, candidates, faults, history>>
      /\ stopReq \/ "mark" = "mark" => state' = "stopped"
  BY DEF MarkAndLeave, Records, MarkStopped, Goto
<1>2. /\ batch \in Batch /\ list \in Batch /\ info[w] \in Batch \X Device
      /\ dev' \in [Batch -> [Device -> DevState]] /\ index' \in Nat /\ index' >= 1
      /\ state' \in {state, "stopped"} /\ state # "idle"
      /\ summary' \in [Batch -> Summary \cup {None}] /\ unwritten' \subseteq Batch
      /\ SummaryIsCurrent'
  BY <1>1, RecordsOK DEF Holding
<1>3. TypeOK'
  BY <1>1, <1>2 DEF TypeOK, PC
<1>4. PlacesOK' /\ FlagOK' /\ RunningHasWorker'
  BY <1>1, <1>2 DEF TypeOK, PlacesOK, FlagOK, RunningHasWorker, Holding, Busy
<1>5. BusyOK'
  BY <1>1, BusyShrinks DEF TypeOK
<1> QED BY <1>2, <1>3, <1>4, <1>5

LEMMA RecordDeviceKeeps ==
  ASSUME IInv, NEW w \in Batch, RecordDevice(w)
  PROVE  IInv'
<1> USE DEF IInv, candidates, history
<1>1. /\ Records(w) /\ pc[w] = "record" /\ pc' = [pc EXCEPT ![w] = "close"]
      /\ UNCHANGED <<batch, list, stopReq, exec, info, child, stops, candidates, faults, history>>
      /\ stopReq \/ "record" = "mark" => state' = "stopped"
  BY DEF RecordDevice, Records, MarkStopped, Goto
<1>2. /\ batch \in Batch /\ list \in Batch /\ info[w] \in Batch \X Device
      /\ dev' \in [Batch -> [Device -> DevState]] /\ index' \in Nat /\ index' >= 1
      /\ state' \in {state, "stopped"} /\ state # "idle"
      /\ summary' \in [Batch -> Summary \cup {None}] /\ unwritten' \subseteq Batch
      /\ SummaryIsCurrent'
  BY <1>1, RecordsOK DEF Holding
<1>3. TypeOK'
  BY <1>1, <1>2 DEF TypeOK, PC
<1>4. PlacesOK' /\ FlagOK' /\ RunningHasWorker'
  BY <1>1, <1>2 DEF TypeOK, PlacesOK, FlagOK, RunningHasWorker, Holding, Busy
<1>5. BusyOK'
  BY <1>1, BusyShrinks DEF TypeOK
<1> QED BY <1>2, <1>3, <1>4, <1>5

LEMMA DeviceRaisesKeeps ==
  ASSUME IInv, NEW w \in Batch, DeviceRaises(w)
  PROVE  IInv'
<1> USE DEF IInv, candidates, history
<1>1. /\ Records(w) /\ pc[w] \in Holding /\ child[w] # "alive"
      /\ pc' = [pc EXCEPT ![w] = "next"]
      /\ UNCHANGED <<batch, list, stopReq, info, child, stops, candidates, overlaps, lost>>
      /\ stopReq => state' = "stopped"
      /\ twice' \in {twice, twice \cup {info[w]}}
      /\ faults' \in Nat /\ exec' \in {exec, None}
  BY DEF DeviceRaises, Records, MarkStopped, Goto, Fault, TypeOK, PlacesOK, Holding, Ended
<1>2. /\ batch \in Batch /\ list \in Batch /\ info[w] \in Batch \X Device
      /\ dev' \in [Batch -> [Device -> DevState]] /\ index' \in Nat /\ index' >= 1
      /\ state' \in {state, "stopped"} /\ state # "idle"
      /\ summary' \in [Batch -> Summary \cup {None}] /\ unwritten' \subseteq Batch
      /\ SummaryIsCurrent'
  BY <1>1, RecordsOK
<1>3. TypeOK'
  BY <1>1, <1>2 DEF TypeOK, PC
<1>4. PlacesOK' /\ FlagOK' /\ RunningHasWorker'
  BY <1>1, <1>2 DEF TypeOK, PlacesOK, FlagOK, RunningHasWorker, Holding, Busy
<1>5. BusyOK'
  BY <1>1, BusyShrinks DEF TypeOK, Holding
<1> QED BY <1>2, <1>3, <1>4, <1>5

LEMMA StopAtTopKeeps ==
  ASSUME IInv, NEW w \in Batch, StopAtTop(w)
  PROVE  IInv'
<1> USE DEF IInv, StopAtTop, Goto, candidates, history
<1>1. batch \in Batch /\ list \in Batch
  BY DEF TypeOK, PlacesOK, Busy
<1>2. SummaryIsCurrent' /\ summary' \in [Batch -> Summary \cup {None}] /\ unwritten' \subseteq Batch
  BY <1>1, WriteSummaryOK DEF TypeOK
<1>3. TypeOK'
  BY <1>2 DEF TypeOK, PC
<1>4. PlacesOK' /\ FlagOK' /\ RunningHasWorker'
  BY <1>1 DEF TypeOK, PlacesOK, FlagOK, RunningHasWorker, Holding, Busy
<1>5. BusyOK'
  BY BusyShrinks DEF TypeOK
<1> QED BY <1>2, <1>3, <1>4, <1>5

LEMMA EndBatchKeeps ==
  ASSUME IInv, NEW w \in Batch, EndBatch(w)
  PROVE  IInv'
<1> USE DEF IInv, EndBatch, Goto, candidates, history
<1>1. batch \in Batch /\ list \in Batch
  BY DEF TypeOK, PlacesOK, Busy
<1>2. SummaryIsCurrent' /\ summary' \in [Batch -> Summary \cup {None}] /\ unwritten' \subseteq Batch
  BY <1>1, WriteSummaryOK DEF TypeOK
<1>3. [batch |-> list, dev |-> dev[list]] \in EndedBatch
  BY <1>1 DEF TypeOK, EndedBatch
<1>4. pc' \in [Batch -> PC] /\ ended' \in [Batch -> EndedBatch \cup {None}] /\ ended'[w] \in EndedBatch
  BY <1>3 DEF TypeOK, PC
<1>5. TypeOK'
  BY <1>2, <1>4 DEF TypeOK
<1>6. PlacesOK' /\ FlagOK' /\ RunningHasWorker'
  BY <1>1, <1>4 DEF TypeOK, PlacesOK, FlagOK, RunningHasWorker, Holding, Busy
<1>7. BusyOK'
  BY BusyShrinks DEF TypeOK
<1> QED BY <1>2, <1>5, <1>6, <1>7

LEMMA StopBatchKeeps ==
  ASSUME IInv, StopBatch
  PROVE  IInv'
<1> USE DEF IInv, StopBatch, candidates, history
<1>1. batch \in Batch /\ SummaryIsCurrent'
      /\ summary' \in [Batch -> Summary \cup {None}] /\ unwritten' \subseteq Batch
  BY WriteSummaryOK DEF TypeOK, PlacesOK
<1>2. TypeOK'
  BY <1>1 DEF TypeOK
<1>3. PlacesOK' /\ FlagOK' /\ RunningHasWorker'
  BY DEF TypeOK, PlacesOK, FlagOK, RunningHasWorker, Holding, Busy
<1>4. BusyOK'
  BY BusyShrinks DEF TypeOK
<1> QED BY <1>1, <1>2, <1>3, <1>4

LEMMA StutterKeeps ==
  ASSUME IInv, UNCHANGED vars
  PROVE  IInv'
BY DEF IInv, vars, candidates, file, history, TypeOK, PlacesOK, FlagOK, BusyOK, Busy,
   RunningHasWorker, SummaryIsCurrent, Saying

LEMMA StepKeeps ==
  ASSUME IInv, [Next]_vars
  PROVE  IInv'
<1>1. ASSUME NEW b \in Batch, StartBatch(b) \/ NoWorker(b) \/ BeginFails(b)
      PROVE  IInv'
  BY <1>1, BeginKeeps, BeginFailsKeeps
<1>2. ASSUME NEW w \in Batch, Worker(w)
      PROVE  IInv'
  BY <1>2, TakeDeviceKeeps, SetupDoneKeeps, CheckStopKeeps, MarkAndLeaveKeeps, LeaveKeeps,
     LaunchKeeps, RegisterKeeps, ChildSeenKeeps, RecordDeviceKeeps, CloseDeviceKeeps,
     NextDeviceKeeps, StopAtTopKeeps, EndBatchKeeps, GenerateKeeps, ReviewKeeps, Zenon DEF Worker
<1>3. ASSUME NEW w \in Batch, DeviceRaises(w) \/ WorkerDies(w) \/ ChildExits(w)
      PROVE  IInv'
  BY <1>3, DeviceRaisesKeeps, WorkerDiesKeeps, ChildExitsKeeps
<1> QED BY <1>1, <1>2, <1>3, TerminateKeeps, StopBatchKeeps, StutterKeeps, Zenon DEF Next

-----------------------------------------------------------------------------
(* The theorems for any overlap of batches.                                *)

\* The invariant of start_batch, stop_batch and _run_loop as they interleave,
\* with workers that outlive their batch, or die, starts that raise half-way and
\* summaries that cannot be written.
THEOREM BatchInvariant == Spec => []IInv
<1>1. Init => IInv
  BY InitOK
<1>2. IInv /\ [Next]_vars => IInv'
  BY StepKeeps
<1> QED BY <1>1, <1>2, PTL DEF Spec

\* The manager's variables keep their types.
THEOREM BatchTypes == Spec => []TypeOK
BY BatchInvariant, PTL DEF IInv

\* Only a write that fails, or a start that raises, leaves batch_summary.json
\* behind the fields (_write_summary_locked, start_batch).
THEOREM SummaryIsCurrentHolds == Spec => []SummaryIsCurrent
BY BatchInvariant, PTL DEF IInv

\* Only a start that raises, or a worker that dies, leaves a status of "running"
\* without the batch's own worker (start_batch, _run_loop).
THEOREM RunningHasWorkerHolds == Spec => []RunningHasWorker
BY BatchInvariant, PTL DEF IInv

\* Beyond one, each child that is waited for is paid for by a start that came
\* while a worker was busy (start_batch, _run_loop).
THEOREM ChildrenBoundedHolds == Spec => []ChildrenBounded
<1>1. IInv => ChildrenBounded
  <2> SUFFICES ASSUME IInv PROVE ChildrenBounded
    OBVIOUS
  <2> DEFINE Alive == {w \in Batch : child[w] = "alive"}
  <2>1. Alive \subseteq Busy
    BY DEF IInv, PlacesOK, Busy
  <2>2. IsFiniteSet(Alive) /\ Cardinality(Alive) <= Cardinality(Busy)
    BY <2>1, FS_Subset DEF IInv, BusyOK
  <2>3. Cardinality(Alive) \in Nat /\ Cardinality(Busy) \in Nat /\ overlaps \in Nat
    BY <2>2, FS_CardinalityType DEF IInv, BusyOK, TypeOK
  <2> QED BY <2>2, <2>3 DEF IInv, BusyOK, ChildrenBounded
<1> QED BY <1>1, BatchInvariant, PTL

\* Until the next start, a stop is final, whatever the workers still record
\* (stop_batch, _run_loop).
THEOREM StopIsFinalHolds == Spec => StopIsFinal
<1>1. ASSUME IInv, [Next]_vars
      PROVE  [state = "stopped" /\ batch' = batch => state' = "stopped"]_vars
  <2> SUFFICES ASSUME Next, state = "stopped", batch' = batch
               PROVE  state' = "stopped"
    BY <1>1
  <2> USE <1>1 DEF IInv
  <2>1. ASSUME NEW b \in Batch, StartBatch(b) \/ NoWorker(b) \/ BeginFails(b)
        PROVE  FALSE
    BY <2>1 DEF StartBatch, NoWorker, Begin, BeginFails, MayStart, PlacesOK
  <2>2. ASSUME NEW w \in Batch, Worker(w)
        PROVE  state' = "stopped"
    BY <2>2 DEF Worker, TakeDevice, SetupDone, CheckStop, MarkAndLeave, Leave, Launch, Register,
       ChildSeen, RecordDevice, CloseDevice, NextDevice, StopAtTop, EndBatch, Generate, Review,
       MarkStopped, RecordEnd
  <2>3. ASSUME NEW w \in Batch, DeviceRaises(w) \/ WorkerDies(w) \/ ChildExits(w)
        PROVE  state' = "stopped"
    BY <2>3 DEF DeviceRaises, WorkerDies, ChildExits, MarkStopped, RecordEnd
  <2>4. ASSUME NEW x \in stops, Terminate(x)
        PROVE  state' = "stopped"
    BY <2>4 DEF Terminate
  <2>5. CASE StopBatch
    BY <2>5 DEF StopBatch
  <2> QED BY <2>1, <2>2, <2>3, <2>4, <2>5 DEF Next
<1> QED BY <1>1, BatchInvariant, PTL DEF Spec, StopIsFinal

-----------------------------------------------------------------------------
(* What the steps do until batches overlap, one lemma per group of steps.  *)

\* A start, also one that raises half-way, finds no worker busy.
LEMMA StartFacts ==
  ASSUME IInv, Serial, overlaps' = 0, NEW b \in Batch,
         StartBatch(b) \/ NoWorker(b) \/ BeginFails(b)
  PROVE  /\ \A v \in Batch : pc[v] \in {"idle", "done"}
         /\ pc[b] = "idle" /\ pc'[b] \in {"top", "done"}
         /\ \A v \in Batch : v # b => pc'[v] = pc[v]
         /\ batch' = b /\ state # "running" /\ state' = "running" /\ stopReq' = FALSE
         /\ dev[b] = AllPending /\ UNCHANGED <<dev, info, candidates, twice>>
         /\ \/ list' = b /\ index' = 1
            \/ list' = list /\ list # b /\ index' = index /\ pc'[b] = "done"
<1> USE DEF IInv
<1>1. /\ MayStart(b) /\ pc'[b] \in {"top", "done"}
      /\ \A v \in Batch : v # b => pc'[v] = pc[v]
      /\ batch' = b /\ state' = "running" /\ stopReq' = FALSE
      /\ UNCHANGED <<info, candidates, twice>>
  BY DEF StartBatch, NoWorker, Begin, BeginFails, TypeOK
<1>2. \A v \in Batch : pc[v] \in {"idle", "done"}
  BY <1>1 DEF MayStart, Working, TypeOK
<1>3. pc[b] = "idle" /\ state # "running" /\ dev[b] = AllPending
  BY <1>1 DEF MayStart, Serial, AheadOK
<1>4. dev' = dev
  BY <1>3 DEF StartBatch, NoWorker, Begin, BeginFails, TypeOK
<1>5. list # b
  BY <1>3 DEF PlacesOK
<1>6. \/ list' = b /\ index' = 1
      \/ list' = list /\ list # b /\ index' = index /\ pc'[b] = "done"
  BY <1>5 DEF StartBatch, NoWorker, Begin, BeginFails, TypeOK
<1> QED BY <1>1, <1>2, <1>3, <1>4, <1>6

\* A device is recorded by the worker of the batch, which is the only one busy.
LEMMA RecordFacts ==
  ASSUME IInv, Serial, NEW w \in Batch,
         MarkAndLeave(w) \/ RecordDevice(w) \/ DeviceRaises(w)
  PROVE  \E i \in Device :
           /\ w = batch /\ w = list /\ info[w] = <<list, i>> /\ pc[w] \in Holding
           /\ \A v \in Batch : v # w => pc'[v] = pc[v] /\ pc[v] \in {"idle", "done"}
           /\ UNCHANGED <<batch, list, stopReq, info, candidates>>
           /\ pc[w] \in AtWork => i = index
           /\ \/ /\ stopReq /\ state' = "stopped" /\ index' = N + 1 /\ twice' = twice
                 /\ dev' = [dev EXCEPT ![list][i] = "stopped"]
                 /\ pc'[w] \in {"leave", "close", "next"}
                 /\ pc[w] \notin AtWork => dev[list][i] \in {"passed", "failed", "stopped"}
              \/ /\ ~stopReq /\ state = "running" /\ state' = state /\ index' = index + 1
                 /\ pc'[w] \in {"close", "next"} /\ pc[w] # "leave"
                 /\ \/ /\ pc[w] \in AtWork /\ twice' = twice
                       /\ \E s \in {"passed", "failed"} : dev' = [dev EXCEPT ![list][i] = s]
                    \/ /\ pc[w] = "close" /\ pc'[w] = "next" /\ index = i + 1
                       /\ dev[list][i] \in {"passed", "failed"}
                       /\ twice' = twice \cup {<<list, i>>}
                       /\ dev' = [dev EXCEPT ![list][i] = "failed"]
<1> USE DEF IInv, Serial
<1>1. /\ pc[w] \in Holding /\ pc'[w] \in {"leave", "close", "next"}
      /\ \A v \in Batch : v # w => pc'[v] = pc[v]
      /\ UNCHANGED <<batch, list, stopReq, info, candidates>>
      /\ pc'[w] = "leave" => pc[w] = "mark"
      /\ pc'[w] = "close" => pc[w] = "record"
      /\ twice' = IF pc[w] = "close" /\ ~stopReq THEN twice \cup {info[w]} ELSE twice
  BY DEF MarkAndLeave, RecordDevice, DeviceRaises, Goto, TypeOK, Holding, history
<1>2. /\ stopReq \/ pc'[w] = "leave" => MarkStopped(w)
      /\ ~(stopReq \/ pc'[w] = "leave") => \E s \in {"passed", "failed"} : RecordEnd(w, s)
      /\ ~stopReq /\ pc[w] = "close" => RecordEnd(w, "failed")
  BY DEF MarkAndLeave, RecordDevice, DeviceRaises, Goto, TypeOK
<1>3. w = batch /\ w = list /\ info[w] \in Batch \X Device /\ info[w][1] = list
  BY <1>1 DEF AloneOK, TypeOK, PlacesOK, Holding
<1>4. PICK i \in Device : info[w] = <<list, i>>
  BY <1>3
<1>5. \A v \in Batch : v # w => pc[v] \in {"idle", "done"}
  BY <1>3 DEF AloneOK
<1>6. pc[w] \in AtWork => i = index
  BY <1>4 DEF TurnOK
<1>7. pc[w] \notin AtWork => pc[w] \in {"close", "leave"}
  BY <1>1 DEF AtWork, Holding
<1>8. pc[w] = "leave" \/ pc'[w] = "leave" => stopReq
  BY <1>1 DEF StopOK
<1>9. ~stopReq => state = "running"
  BY <1>1, <1>3 DEF StopOK, TurnOK, TypeOK, PlacesOK, Holding
<1>10. pc[w] = "close" => \/ dev[list][i] = "stopped" /\ state = "stopped"
                          \/ dev[list][i] \in {"passed", "failed"} /\ index = i + 1
  BY <1>4 DEF TurnOK
<1>11. pc[w] = "leave" => dev[list][i] = "stopped"
  BY <1>4 DEF TurnOK
<1>12. CASE stopReq
  <2>1. /\ state' = "stopped" /\ index' = N + 1 /\ dev' = [dev EXCEPT ![list][i] = "stopped"]
        /\ twice' = twice
    BY <1>1, <1>2, <1>4, <1>12 DEF MarkStopped, SetDevice
  <2> QED BY <1>1, <1>3, <1>4, <1>5, <1>6, <1>7, <1>10, <1>11, <1>12, <2>1
<1>13. CASE ~stopReq /\ pc[w] \in AtWork
  <2>1. PICK s \in {"passed", "failed"} : RecordEnd(w, s)
    BY <1>2, <1>8, <1>13
  <2>2. state' = state /\ index' = index + 1 /\ dev' = [dev EXCEPT ![list][i] = s]
    BY <1>4, <2>1 DEF RecordEnd, SetDevice
  <2>3. twice' = twice /\ pc[w] # "leave"
    BY <1>1, <1>13 DEF AtWork
  <2> QED BY <1>1, <1>3, <1>4, <1>5, <1>6, <1>8, <1>9, <1>13, <2>2, <2>3
<1>14. CASE ~stopReq /\ pc[w] \notin AtWork
  <2>1. pc[w] = "close" /\ pc'[w] = "next" /\ RecordEnd(w, "failed")
    BY <1>1, <1>2, <1>7, <1>8, <1>14
  <2>2. state' = state /\ index' = index + 1 /\ dev' = [dev EXCEPT ![list][i] = "failed"]
    BY <1>4, <2>1 DEF RecordEnd, SetDevice
  <2>3. dev[list][i] \in {"passed", "failed"} /\ index = i + 1
    BY <1>9, <1>10, <1>14, <2>1
  <2>4. twice' = twice \cup {<<list, i>>}
    BY <1>1, <1>4, <1>14, <2>1
  <2> QED BY <1>1, <1>3, <1>4, <1>5, <1>6, <1>9, <1>14, <2>1, <2>2, <2>3, <2>4
<1> QED BY <1>12, <1>13, <1>14

\* The next device is taken by the worker of the batch, which is still running.
LEMMA TakeFacts ==
  ASSUME IInv, Serial, NEW w \in Batch, TakeDevice(w)
  PROVE  /\ w = batch /\ w = list /\ pc[w] = "top" /\ pc'[w] = "setup" /\ index \in Device
         /\ \A v \in Batch : v # w => pc'[v] = pc[v] /\ pc[v] \in {"idle", "done"}
         /\ info' = [info EXCEPT ![w] = <<list, index>>]
         /\ dev' = [dev EXCEPT ![list][index] = "running"]
         /\ state = "running" /\ UNCHANGED <<batch, list, state, stopReq, index, candidates, twice>>
<1> USE DEF IInv, Serial
<1>1. /\ pc[w] = "top" /\ pc'[w] = "setup" /\ \A v \in Batch : v # w => pc'[v] = pc[v]
      /\ info' = [info EXCEPT ![w] = <<list, index>>]
      /\ dev' = [dev EXCEPT ![list][index] = "running"]
      /\ UNCHANGED <<batch, list, state, stopReq, index, candidates, twice>>
      /\ ~stopReq /\ index <= N
  BY DEF TakeDevice, Goto, SetDevice, TypeOK, history
<1>2. w = batch /\ w = list /\ \A v \in Batch : v # w => pc[v] \in {"idle", "done"}
  BY <1>1 DEF AloneOK
<1>3. index \in Device
  BY <1>1, <1>2 DEF TypeOK, PlacesOK, Device
<1>4. state = "running"
  BY <1>1, <1>2 DEF StopOK, TurnOK, TypeOK, PlacesOK
<1> QED BY <1>1, <1>2, <1>3, <1>4

\* What is left of a worker's steps changes neither the devices nor the batch.
Quietly(w) ==
  \/ SetupDone(w) \/ CheckStop(w) \/ Leave(w) \/ Launch(w) \/ Register(w) \/ ChildSeen(w)
  \/ CloseDevice(w) \/ NextDevice(w) \/ StopAtTop(w) \/ EndBatch(w) \/ Generate(w) \/ Review(w)
  \/ WorkerDies(w) \/ ChildExits(w)

LEMMA QuietlyFacts ==
  ASSUME IInv, Serial, NEW w \in Batch, Quietly(w)
  PROVE  /\ UNCHANGED <<batch, list, dev, info, index, stopReq, twice, overlaps>>
         /\ \A v \in Batch : v # w => pc'[v] = pc[v]
         /\ pc'[w] = "idle" => pc[w] = "idle"
         /\ pc'[w] \notin {"idle", "done"} => pc[w] \notin {"idle", "done"}
         /\ pc'[w] \in AtWork => pc[w] \in AtWork
         /\ pc[w] \in AtWork => pc'[w] \in AtWork \/ pc'[w] = "done"
         /\ pc'[w] \in {"close", "leave"} => pc[w] = pc'[w]
         /\ pc'[w] = "mark" => pc[w] = "mark" \/ stopReq
         /\ pc[w] \in {"generate", "review", "done"} => pc'[w] \in {"generate", "review", "done"}
         /\ ~EndBatch(w) /\ ~Generate(w) => /\ pc'[w] \in {"generate", "review"} => pc[w] = pc'[w]
                                            /\ UNCHANGED <<cand, made, ended>>
         /\ ~EndBatch(w) => state' = state
<1> USE DEF IInv, Goto
<1>1. /\ UNCHANGED <<batch, list, dev, info, index, stopReq, twice, overlaps>>
      /\ \A v \in Batch : v # w => pc'[v] = pc[v]
  BY DEF Quietly, SetupDone, CheckStop, Leave, Launch, Register, ChildSeen, CloseDevice,
     NextDevice, StopAtTop, EndBatch, Generate, Review, WorkerDies, ChildExits, TypeOK, history
<1>2. /\ pc'[w] = "idle" => pc[w] = "idle"
      /\ pc'[w] \notin {"idle", "done"} => pc[w] \notin {"idle", "done"}
      /\ pc'[w] \in AtWork => pc[w] \in AtWork
      /\ pc[w] \in AtWork => pc'[w] \in AtWork \/ pc'[w] = "done"
      /\ pc'[w] \in {"close", "leave"} => pc[w] = pc'[w]
      /\ pc'[w] = "mark" => pc[w] = "mark" \/ stopReq
      /\ pc[w] \in {"generate", "review", "done"} => pc'[w] \in {"generate", "review", "done"}
  BY DEF Quietly, SetupDone, CheckStop, Leave, Launch, Register, ChildSeen, CloseDevice,
     NextDevice, StopAtTop, EndBatch, Generate, Review, WorkerDies, ChildExits, AtWork, Holding,
     TypeOK
<1>3. ~EndBatch(w) /\ ~Generate(w) => /\ pc'[w] \in {"generate", "review"} => pc[w] = pc'[w]
                                      /\ UNCHANGED <<cand, made, ended>>
  BY DEF Quietly, SetupDone, CheckStop, Leave, Launch, Register, ChildSeen, CloseDevice,
     NextDevice, StopAtTop, Review, WorkerDies, ChildExits, candidates, TypeOK
<1>4. ~EndBatch(w) => state' = state
  BY DEF Quietly, SetupDone, CheckStop, Leave, Launch, Register, ChildSeen, CloseDevice,
     NextDevice, StopAtTop, Generate, Review, WorkerDies, ChildExits, FlagOK
<1> QED BY <1>1, <1>2, <1>3, <1>4

\* The end of the list, the candidates and the reviews.
LEMMA EndFacts ==
  ASSUME IInv, Serial, NEW w \in Batch, EndBatch(w)
  PROVE  /\ w = batch /\ w = list /\ pc[w] = "top" /\ made[w] = 0
         /\ state = "running" /\ state' = "finished" /\ index > N
         /\ pc'[w] = IF batch \in Full THEN "generate" ELSE "done"
         /\ ended' = [ended EXCEPT ![w] = [batch |-> list, dev |-> dev[list]]]
         /\ UNCHANGED <<made, cand, review>>
<1> USE DEF IInv, Serial
<1>1. pc[w] = "top" /\ index > N /\ ~stopReq /\ UNCHANGED <<made, cand, review>>
      /\ ended' = [ended EXCEPT ![w] = [batch |-> list, dev |-> dev[list]]]
  BY DEF EndBatch, Goto
<1>2. w = batch /\ w = list /\ made[w] = 0
  BY <1>1 DEF AloneOK, AwardedOK
<1>3. state = "running"
  BY <1>1, <1>2 DEF StopOK, TurnOK, TypeOK, PlacesOK
<1>4. state' = "finished" /\ pc'[w] = IF batch \in Full THEN "generate" ELSE "done"
  BY <1>3 DEF EndBatch, Goto, TypeOK
<1> QED BY <1>1, <1>2, <1>3, <1>4

LEMMA AwardFacts ==
  ASSUME IInv, Serial, NEW w \in Batch, Generate(w) \/ Review(w)
  PROVE  /\ w = batch /\ w = list /\ pc[w] \in {"generate", "review"}
         /\ ended[w] = [batch |-> list, dev |-> dev[list]]
         /\ state' = state /\ state = "finished" /\ batch \in Full /\ made[w] \in 0..N
         /\ pc'[w] \notin AtWork
BY DEF IInv, Serial, Generate, Review, Goto, AloneOK, AwardedOK, TypeOK, AtWork, Holding

\* A stop, the threads that terminate, and no step at all.
LEMMA ElseFacts ==
  ASSUME StopBatch \/ (\E x \in stops : Terminate(x)) \/ UNCHANGED vars
  PROVE  /\ UNCHANGED <<batch, list, dev, info, index, pc, candidates, twice, overlaps>>
         /\ \/ state = "running" /\ state' = "stopped" /\ stopReq'
            \/ state' = state /\ stopReq' = stopReq
BY DEF StopBatch, Terminate, vars, candidates, history

\* Which steps there are, in the groups of these lemmas.
LEMMA StepGroups ==
  ASSUME [Next]_vars
  PROVE  \/ \E b \in Batch : StartBatch(b) \/ NoWorker(b) \/ BeginFails(b)
         \/ \E w \in Batch : MarkAndLeave(w) \/ RecordDevice(w) \/ DeviceRaises(w)
         \/ \E w \in Batch : TakeDevice(w)
         \/ \E w \in Batch : Quietly(w)
         \/ StopBatch \/ (\E x \in stops : Terminate(x)) \/ UNCHANGED vars
BY Zenon DEF Next, Worker, Quietly

-----------------------------------------------------------------------------
(* What holds until batches overlap is kept, one lemma per group of steps. *)

LEMMA SerialInit == Init => Serial
BY DEF Init, Serial, AloneOK, TurnOK, StopOK, AheadOK, AwardedOK, Holding, AtWork

LEMMA SerialStart ==
  ASSUME IInv, Serial, overlaps' = 0, NEW b \in Batch,
         StartBatch(b) \/ NoWorker(b) \/ BeginFails(b)
  PROVE  Serial'
<1>1. /\ \A v \in Batch : pc[v] \in {"idle", "done"}
      /\ pc[b] = "idle" /\ pc'[b] \in {"top", "done"}
      /\ \A v \in Batch : v # b => pc'[v] = pc[v]
      /\ batch' = b /\ state # "running" /\ state' = "running" /\ stopReq' = FALSE
      /\ dev[b] = AllPending /\ UNCHANGED <<dev, info, candidates, twice>>
      /\ \/ list' = b /\ index' = 1
         \/ list' = list /\ list # b /\ index' = index /\ pc'[b] = "done"
  BY StartFacts
<1> USE DEF Serial
<1>2. \A v \in Batch : /\ pc'[v] \in {"idle", "done"} \/ (v = b /\ pc'[v] = "top" /\ list' = b)
                       /\ pc'[v] = "idle" => pc[v] = "idle"
  BY <1>1
<1>3. AloneOK'
  BY <1>1, <1>2 DEF AloneOK, Holding
<1>4. TurnOK'
  <2>1. \A v \in Batch : pc'[v] \notin Holding
    BY <1>2 DEF Holding
  <2>2. \A c \in Batch, j \in Device : <<c, j>> \in twice => pc[c] # "idle" /\ c # b
    BY <1>1 DEF TurnOK
  <2>3. ~(\E i \in Device : i < 1)
    BY DEF Device
  <2> QED BY <1>1, <1>2, <2>1, <2>2, <2>3 DEF TurnOK, AtWork, Holding
<1>5. StopOK' /\ AwardedOK'
  BY <1>1, <1>2 DEF StopOK, AwardedOK, candidates
<1>6. AheadOK'
  BY <1>1, <1>2 DEF AheadOK, AllPending
<1> QED BY <1>3, <1>4, <1>5, <1>6

LEMMA SerialTake ==
  ASSUME IInv, Serial, NEW w \in Batch, TakeDevice(w)
  PROVE  Serial'
<1>1. /\ w = batch /\ w = list /\ pc[w] = "top" /\ pc'[w] = "setup" /\ index \in Device
      /\ \A v \in Batch : v # w => pc'[v] = pc[v] /\ pc[v] \in {"idle", "done"}
      /\ info' = [info EXCEPT ![w] = <<list, index>>]
      /\ dev' = [dev EXCEPT ![list][index] = "running"]
      /\ state = "running" /\ UNCHANGED <<batch, list, state, stopReq, index, candidates, twice>>
  BY TakeFacts
<1> USE DEF Serial
<1>2. info'[w] = <<list, index>>
  BY <1>1 DEF IInv, TypeOK
<1>3. /\ \A v \in Batch : v # w => dev'[v] = dev[v]
      /\ \A i \in Device : i # index => dev'[list][i] = dev[list][i]
  BY <1>1 DEF IInv, TypeOK
<1>4. index \in 1..N /\ \A i \in Device : i < index \/ i > index => i # index
  BY <1>1 DEF Device
<1>5. AloneOK' /\ StopOK'
  <2>1. \A v \in Batch : v = w \/ pc'[v] \in {"idle", "done"}
    BY <1>1
  <2>2. AloneOK'
    <3>1. batch' = batch /\ list' = list
      BY <1>1
    <3>2. info'[w][1] = list
      BY <1>2
    <3>3. w = batch /\ w = list /\ pc'[w] = "setup"
      BY <1>1
    <3> HIDE DEF Serial
    <3> QED BY <2>1, <3>1, <3>2, <3>3 DEF AloneOK, Holding
  <2>3. StopOK'
    BY <1>1, <2>1 DEF StopOK
  <2> QED BY <2>2, <2>3
<1>8. AwardedOK'
  <2>1. made' = made /\ cand' = cand
    BY <1>1 DEF candidates
  <2>2. \A v \in Batch : v = w \/ pc'[v] \in {"idle", "done"}
    BY <1>1
  <2> QED BY <1>1, <2>1, <2>2 DEF AwardedOK
<1>6. TurnOK'
  BY <1>1, <1>2, <1>3, <1>4 DEF TurnOK, AtWork, Holding, PassedOver
<1>7. AheadOK'
  BY <1>1, <1>3, <1>4 DEF AheadOK, AtWork, Holding
<1> QED BY <1>5, <1>6, <1>7, <1>8

LEMMA SerialRecord ==
  ASSUME IInv, Serial, NEW w \in Batch,
         MarkAndLeave(w) \/ RecordDevice(w) \/ DeviceRaises(w)
  PROVE  Serial'
<1> USE DEF Serial
<1>1. PICK i \in Device :
        /\ w = batch /\ w = list /\ info[w] = <<list, i>> /\ pc[w] \in Holding
        /\ \A v \in Batch : v # w => pc'[v] = pc[v] /\ pc[v] \in {"idle", "done"}
        /\ UNCHANGED <<batch, list, stopReq, info, candidates>>
        /\ pc[w] \in AtWork => i = index
        /\ \/ /\ stopReq /\ state' = "stopped" /\ index' = N + 1 /\ twice' = twice
              /\ dev' = [dev EXCEPT ![list][i] = "stopped"]
              /\ pc'[w] \in {"leave", "close", "next"}
              /\ pc[w] \notin AtWork => dev[list][i] \in {"passed", "failed", "stopped"}
           \/ /\ ~stopReq /\ state = "running" /\ state' = state /\ index' = index + 1
              /\ pc'[w] \in {"close", "next"} /\ pc[w] # "leave"
              /\ \/ /\ pc[w] \in AtWork /\ twice' = twice
                    /\ \E s \in {"passed", "failed"} : dev' = [dev EXCEPT ![list][i] = s]
                 \/ /\ pc[w] = "close" /\ pc'[w] = "next" /\ index = i + 1
                    /\ dev[list][i] \in {"passed", "failed"}
                    /\ twice' = twice \cup {<<list, i>>}
                    /\ dev' = [dev EXCEPT ![list][i] = "failed"]
  BY RecordFacts
<1>2. i \in Nat /\ i <= N /\ index \in Nat
  BY DEF IInv, TypeOK, Device
<1>3. /\ \A v \in Batch : v # w => dev'[v] = dev[v]
      /\ \A j \in Device : j # i => dev'[list][j] = dev[list][j]
  BY <1>1 DEF IInv, TypeOK
<1>4. dev \in [Batch -> [Device -> DevState]] /\ list \in Batch
  BY <1>1 DEF IInv, TypeOK
<1>5. pc'[w] \in {"leave", "close", "next"} /\ pc[w] \notin {"idle", "done"}
  BY <1>1 DEF Holding
<1>6. AloneOK'
  BY <1>1, <1>5 DEF AloneOK, Holding
<1>7. StopOK' /\ AwardedOK'
  BY <1>1, <1>5 DEF StopOK, AwardedOK, Holding, candidates
<1>8. AheadOK'
  <2>1. \A j \in Device : j >= index' => j > index /\ j # i
    BY <1>1, <1>2 DEF Device
  <2>2. \A j \in Device : j >= index' => dev'[list][j] = "pending"
    BY <1>1, <1>3, <1>5, <2>1 DEF AheadOK
  <2>3. \A j \in Device : j > index' \/ j = index' => j >= index'
    BY <1>1, <1>2 DEF Device
  <2> QED BY <1>1, <1>3, <1>5, <2>2, <2>3 DEF AheadOK
<1>9. TurnOK'
  <2>1. CASE stopReq
    <3>1. dev'[list][i] = "stopped"
      BY <1>1, <1>4, <2>1
    <3> QED BY <1>1, <1>5, <2>1, <3>1 DEF TurnOK, AtWork, Holding
  <2>2. CASE ~stopReq
    <3>1. /\ \A j \in Device : j < index => dev[list][j] \in {"passed", "failed"} \/ PassedOver(j)
          /\ \A j \in Device : <<list, j>> \in twice => j + 2 <= index
          /\ \A c \in Batch, j \in Device : <<c, j>> \in twice => pc[c] # "idle"
      BY <1>1, <1>4, <2>2 DEF TurnOK, IInv, PlacesOK
    <3>2. state' = state /\ state = "running" /\ index' = index + 1 /\ pc'[w] \in {"close", "next"}
      BY <1>1, <2>2
    <3>3. dev'[list][i] \in {"passed", "failed"}
      BY <1>1, <1>4, <2>2
    <3>4. CASE pc[w] \in AtWork
      <4>1. i = index /\ twice' = twice
        BY <1>1, <2>2, <3>4 DEF AtWork
      <4>2. \A j \in Device : j < index' => j = i \/ j < index
        BY <1>2, <3>2, <4>1 DEF Device
      <4> QED BY <1>1, <1>2, <1>3, <3>1, <3>2, <3>3, <4>1, <4>2
              DEF TurnOK, AtWork, Holding, PassedOver, Device
    <3>5. CASE pc[w] \notin AtWork
      <4>1. index = i + 1 /\ twice' = twice \cup {<<list, i>>} /\ pc'[w] = "next"
        BY <1>1, <2>2, <3>5
      <4>2. \A j \in Device : j < index' => j < index \/ (j > 1 /\ j - 1 = i)
        BY <1>2, <3>2, <4>1 DEF Device
      <4>3. \A j \in Device : j < index' => dev'[list][j] \in {"passed", "failed"} \/ PassedOver(j)'
        BY <1>1, <1>3, <3>1, <3>3, <4>1, <4>2 DEF PassedOver
      <4>4. \A j \in Device : <<list, j>> \in twice' => j + 2 <= index'
        BY <1>2, <3>1, <3>2, <4>1 DEF Device
      <4>5. \A c \in Batch, j \in Device : <<c, j>> \in twice' => pc'[c] # "idle"
        BY <1>1, <1>5, <3>1, <4>1
      <4> QED BY <1>1, <3>2, <4>1, <4>3, <4>4, <4>5 DEF TurnOK, AtWork, Holding
    <3> QED BY <3>4, <3>5
  <2> QED BY <2>1, <2>2
<1> QED BY <1>6, <1>7, <1>8, <1>9

LEMMA SerialQuietly ==
  ASSUME IInv, Serial, NEW w \in Batch, Quietly(w)
  PROVE  Serial'
<1> USE DEF Serial
<1>1. /\ UNCHANGED <<batch, list, dev, info, index, stopReq, twice, overlaps>>
      /\ \A v \in Batch : v # w => pc'[v] = pc[v]
      /\ pc'[w] = "idle" => pc[w] = "idle"
      /\ pc'[w] \notin {"idle", "done"} => pc[w] \notin {"idle", "done"}
      /\ pc'[w] \in AtWork => pc[w] \in AtWork
      /\ pc[w] \in AtWork => pc'[w] \in AtWork \/ pc'[w] = "done"
      /\ pc'[w] \in {"close", "leave"} => pc[w] = pc'[w]
      /\ pc'[w] = "mark" => pc[w] = "mark" \/ stopReq
      /\ pc[w] \in {"generate", "review", "done"} => pc'[w] \in {"generate", "review", "done"}
      /\ ~EndBatch(w) /\ ~Generate(w) => /\ pc'[w] \in {"generate", "review"} => pc[w] = pc'[w]
                                         /\ UNCHANGED <<cand, made, ended>>
      /\ ~EndBatch(w) => state' = state
  BY QuietlyFacts
<1>2. /\ \A v \in Batch : pc'[v] = "idle" => pc[v] = "idle"
      /\ \A v \in Batch : pc'[v] \notin {"idle", "done"} => pc[v] \notin {"idle", "done"}
      /\ \A v \in Batch : pc'[v] \in AtWork => pc[v] \in AtWork
      /\ \A v \in Batch : pc'[v] \in {"close", "leave"} => pc[v] = pc'[v]
      /\ \A v \in Batch : pc'[v] = "mark" => pc[v] = "mark" \/ stopReq
      /\ \A v \in Batch : pc[v] \in {"generate", "review", "done"} =>
                            pc'[v] \in {"generate", "review", "done"}
      /\ \A v \in Batch : pc'[v] \notin {"generate", "review", "done"} =>
                            pc[v] \notin {"generate", "review", "done"}
  BY <1>1
<1>3. \A v \in Batch : pc'[v] \in Holding => pc[v] \in Holding
  BY <1>2 DEF AtWork, Holding
<1>4. AheadOK'
  <2>1. \A v \in Batch : pc[v] \in AtWork => pc'[v] \in AtWork \/ pc'[v] = "done"
    BY <1>1
  <2> QED BY <1>1, <1>2, <2>1 DEF AheadOK
<1>5. CASE EndBatch(w)
  <2>1. /\ w = batch /\ w = list /\ pc[w] = "top" /\ made[w] = 0
        /\ state = "running" /\ state' = "finished" /\ index > N
        /\ pc'[w] = IF batch \in Full THEN "generate" ELSE "done"
        /\ ended' = [ended EXCEPT ![w] = [batch |-> list, dev |-> dev[list]]]
        /\ UNCHANGED <<made, cand, review>>
    BY <1>5, EndFacts
  <2>2. ended'[w] = [batch |-> list, dev |-> dev[list]]
    BY <2>1 DEF IInv, TypeOK
  <2>3. \A v \in Batch : v # w => pc[v] \in {"idle", "done"}
    BY <2>1 DEF AloneOK
  <2>4. AloneOK'
    BY <1>1, <1>2, <1>3, <2>1, <2>2, <2>3 DEF AloneOK
  <2>5. TurnOK'
    BY <1>1, <1>2, <2>1, <2>3 DEF TurnOK, AtWork, Holding, PassedOver
  <2>6. StopOK'
    BY <1>1, <1>2, <2>1, <2>3 DEF StopOK
  <2>8. AwardedOK'
    <3>1. ~(\E i \in Device : i <= 0)
      BY DEF Device
    <3> QED BY <1>1, <2>1, <2>3, <3>1 DEF AwardedOK
  <2> QED BY <1>4, <2>4, <2>5, <2>6, <2>8
<1>6. CASE ~EndBatch(w)
  <2>1. state' = state
    BY <1>1, <1>6
  <2>2. TurnOK'
    <3>1. state = "finished" => list \in Batch
      BY DEF TurnOK, IInv, TypeOK, PlacesOK
    <3> QED BY <1>1, <1>2, <2>1, <3>1 DEF TurnOK, PassedOver
  <2>3. StopOK'
    BY <1>1, <1>2, <2>1 DEF StopOK
  <2>5. CASE ~Generate(w)
    <3>1. \A v \in Batch : pc'[v] \in {"generate", "review"} => pc[v] = pc'[v]
      BY <1>1, <1>6, <2>5
    <3>2. UNCHANGED <<cand, made, ended>>
      BY <1>1, <1>6, <2>5
    <3>3. AloneOK'
      BY <1>1, <1>2, <1>3, <3>1, <3>2 DEF AloneOK
    <3>4. AwardedOK'
      BY <1>1, <1>2, <2>1, <3>1, <3>2 DEF AwardedOK
    <3> QED BY <1>4, <2>2, <2>3, <3>3, <3>4
  <2>6. CASE Generate(w)
    <3>1. /\ w = batch /\ w = list /\ pc[w] = "generate"
          /\ ended[w] = [batch |-> list, dev |-> dev[list]] /\ ended' = ended
          /\ state = "finished" /\ batch \in Full /\ made[w] \in 0..N
      BY <2>6, AwardFacts DEF Generate
    <3>2. \A v \in Batch : pc[v] \in {"generate", "review"} => v = w
      BY <3>1 DEF AloneOK
    <3>3. pc'[w] \in {"generate", "review"}
      BY <2>6, <3>1 DEF Generate, Goto, IInv, TypeOK
    <3>4. AloneOK'
      BY <1>1, <1>2, <1>3, <3>1, <3>2, <3>3 DEF AloneOK
    <3>5. CASE made[w] + 1 > N
      <4>1. made[w] = N /\ made' = made /\ cand' = cand
        BY <2>6, <3>1, <3>5 DEF Generate
      <4>2. AwardedOK'
        BY <1>1, <1>2, <2>1, <3>1, <3>2, <3>3, <4>1 DEF AwardedOK
      <4> QED BY <1>4, <2>2, <2>3, <3>4, <4>2
    <3>6. CASE ~(made[w] + 1 > N)
      <4> DEFINE k == made[w] + 1
      <4>1. /\ made' = [made EXCEPT ![w] = k] /\ pc' = pc
            /\ cand' = IF Earns(w, k) THEN cand \cup {<<batch, k>>} ELSE cand
        BY <2>6, <3>1, <3>6 DEF Generate
      <4>2. \A i \in Device : i <= k => i <= made[w] \/ i = k
        BY <3>1 DEF Device
      <4>3. k \in Qualified /\ dev[list][k] = "passed" => <<batch, k>> \in cand'
        <5>1. ended[w].dev = dev[list]
          BY <3>1
        <5>2. k \in Qualified /\ dev[list][k] = "passed" => Earns(w, k)
          BY <3>1, <5>1 DEF Earns
        <5> QED BY <4>1, <5>2
      <4>4. made'[w] = k /\ \A v \in Batch : v # w => made'[v] = made[v]
        BY <4>1 DEF IInv, TypeOK
      <4>5. cand \subseteq cand'
        BY <4>1
      <4> HIDE DEF k
      <4>6. AwardedOK'
        BY <1>1, <2>1, <3>1, <3>2, <4>1, <4>2, <4>3, <4>4, <4>5 DEF AwardedOK
      <4> QED BY <1>4, <2>2, <2>3, <3>4, <4>6
    <3> QED BY <3>5, <3>6
  <2> QED BY <2>5, <2>6
<1> QED BY <1>5, <1>6

LEMMA SerialElse ==
  ASSUME IInv, Serial, StopBatch \/ (\E x \in stops : Terminate(x)) \/ UNCHANGED vars
  PROVE  Serial'
<1>1. /\ UNCHANGED <<batch, list, dev, info, index, pc, candidates, twice, overlaps>>
      /\ \/ state = "running" /\ state' = "stopped" /\ stopReq'
         \/ state' = state /\ stopReq' = stopReq
  BY ElseFacts
<1> USE <1>1 DEF Serial, candidates
<1>2. AloneOK'
  BY DEF AloneOK
<1>3. TurnOK'
  BY DEF TurnOK, PassedOver
<1>4. StopOK' /\ AheadOK' /\ AwardedOK'
  BY DEF StopOK, AheadOK, AwardedOK
<1> QED BY <1>2, <1>3, <1>4

\* The number of early starts never falls.
LEMMA OverlapsGrow ==
  ASSUME IInv, [Next]_vars
  PROVE  overlaps \in Nat /\ overlaps' \in {overlaps, overlaps + 1}
<1>1. overlaps \in Nat
  BY DEF IInv, TypeOK
<1>2. ASSUME NEW b \in Batch, StartBatch(b) \/ NoWorker(b) \/ BeginFails(b)
      PROVE  overlaps' \in {overlaps, overlaps + 1}
  BY <1>2 DEF StartBatch, NoWorker, Begin, BeginFails, MayStart
<1>3. ASSUME NEW w \in Batch, TakeDevice(w) \/ MarkAndLeave(w) \/ RecordDevice(w) \/ DeviceRaises(w)
      PROVE  overlaps' = overlaps
  BY <1>3 DEF TakeDevice, MarkAndLeave, RecordDevice, DeviceRaises, history
<1>4. ASSUME NEW w \in Batch, Quietly(w)
      PROVE  overlaps' = overlaps
  BY <1>4 DEF Quietly, SetupDone, CheckStop, Leave, Launch, Register, ChildSeen, CloseDevice,
     NextDevice, StopAtTop, EndBatch, Generate, Review, WorkerDies, ChildExits, history
<1> QED BY <1>1, <1>2, <1>3, <1>4, StepGroups, ElseFacts

\* What the fields, the worker and the candidates have to do with each other
\* until batches overlap.
LEMMA SerialInvariant == Spec => []SerialInv
<1>1. Init => SerialInv
  BY SerialInit DEF SerialInv
<1>2. ASSUME IInv, SerialInv, [Next]_vars
      PROVE  SerialInv'
  <2> SUFFICES ASSUME overlaps' = 0 PROVE Serial'
    BY DEF SerialInv
  <2>1. overlaps = 0 /\ Serial
    BY <1>2, OverlapsGrow DEF SerialInv
  <2> QED BY <1>2, <2>1, StepGroups, SerialStart, SerialTake, SerialRecord, SerialQuietly,
          SerialElse
<1> QED BY <1>1, <1>2, BatchInvariant, PTL DEF Spec

\* A batch that is finished has passed over no device of its list but those
\* behind one that was counted again (_run_loop), until batches overlap.
THEOREM FinishedRanAllHolds == Spec => []FinishedRanAll
<1>1. IInv /\ SerialInv => FinishedRanAll
  <2> SUFFICES ASSUME IInv, SerialInv, overlaps = 0, state = "finished", NEW i \in Device
               PROVE  dev[list][i] \in {"passed", "failed"} \/ PassedOver(i)
    BY DEF FinishedRanAll
  <2>1. batch = list /\ index > N /\ list # None
    BY DEF IInv, TypeOK, PlacesOK, SerialInv, Serial, TurnOK
  <2>2. i < index
    BY <2>1 DEF IInv, TypeOK, Device
  <2> QED BY <2>1, <2>2 DEF SerialInv, Serial, TurnOK
<1> QED BY <1>1, BatchInvariant, SerialInvariant, PTL

-----------------------------------------------------------------------------
(* The manager implements the batch service until batches overlap: each    *)
(* step is one of the service or leaves it alone.                          *)

\* The one device being run is that of the index.
LEMMA ActiveOne ==
  ASSUME IInv, Serial, NEW w \in Batch, pc[w] \in AtWork
  PROVE  w = batch /\ w = list /\ Active = {<<batch, index>>} /\ index \in Device
<1>1. w = batch /\ w = list /\ info[w] = <<list, index>> /\ index \in Device
  BY DEF Serial, AloneOK, TurnOK, AtWork, Holding, IInv, TypeOK, PlacesOK, Device
<1>2. \A v \in Batch : pc[v] \in AtWork => v = w
  BY <1>1 DEF Serial, AloneOK, AtWork, Holding
<1> QED BY <1>1, <1>2 DEF Active

\* The service's words for what is here.
LEMMA ServiceWords ==
  /\ Service!Device = Device
  /\ \A i : Service!HasEnded(i) <=> dev[batch][i] \in {"passed", "failed"}
  /\ \A i : Service!Skipped(i) <=> i > 1 /\ <<batch, i - 1>> \in twice
  /\ \A i : Service!Deserves(i) <=> i \in Qualified /\ dev[batch][i] = "passed"
BY DEF Service!Device, Service!HasEnded, Service!Skipped, Service!Deserves, Device

LEMMA ServiceInit == Init => Service!Init
<1>1. Init => Active = {}
  BY DEF Init, Active, AtWork, Holding
<1> QED BY <1>1 DEF Init, Service!Init, AllPending, Service!Device, Device, Phase

\* A start takes the devices over, or raises before it has.
LEMMA ServiceStart ==
  ASSUME IInv, Serial, overlaps' = 0, NEW b \in Batch,
         StartBatch(b) \/ NoWorker(b) \/ BeginFails(b)
  PROVE  Service!Start(b) \/ Service!Void(b)
<1>1. /\ \A v \in Batch : pc[v] \in {"idle", "done"}
      /\ pc[b] = "idle" /\ pc'[b] \in {"top", "done"}
      /\ \A v \in Batch : v # b => pc'[v] = pc[v]
      /\ batch' = b /\ state # "running" /\ state' = "running"
      /\ dev[b] = AllPending /\ UNCHANGED <<dev, candidates, twice>>
      /\ list' = b \/ (list' = list /\ list # b)
  BY StartFacts
<1>2. Active = {} /\ Active' = {}
  <2>1. \A v \in Batch : pc[v] \notin AtWork /\ pc'[v] \notin AtWork
    BY <1>1 DEF AtWork, Holding
  <2> QED BY <2>1 DEF Active
<1>3. \A i \in Device : dev[b][i] = "pending" /\ <<b, i>> \notin twice
  BY <1>1 DEF Serial, TurnOK, AllPending
<1>4. Phase \notin {"running", "void"} /\ UNCHANGED <<cand, review>>
  <2>1. state # "void"
    BY DEF IInv, TypeOK
  <2> QED BY <1>1, <2>1 DEF Phase, candidates
<1>5. CASE list' = b
  <2>1. Phase' = "running"
    BY <1>1, <1>5 DEF Phase
  <2> QED BY <1>1, <1>2, <1>3, <1>4, <2>1, ServiceWords DEF Service!Start
<1>6. CASE list' = list /\ list # b
  <2>1. Phase' = "void"
    BY <1>1, <1>6 DEF Phase
  <2> QED BY <1>1, <1>2, <1>4, <2>1 DEF Service!Void
<1> QED BY <1>1, <1>5, <1>6

LEMMA ServiceTake ==
  ASSUME IInv, Serial, NEW w \in Batch, TakeDevice(w)
  PROVE  index \in Device /\ Service!Take(index)
<1>1. /\ w = batch /\ w = list /\ pc[w] = "top" /\ pc'[w] = "setup" /\ index \in Device
      /\ \A v \in Batch : v # w => pc'[v] = pc[v] /\ pc[v] \in {"idle", "done"}
      /\ info' = [info EXCEPT ![w] = <<list, index>>]
      /\ dev' = [dev EXCEPT ![list][index] = "running"]
      /\ state = "running" /\ UNCHANGED <<batch, list, state, candidates, twice>>
  BY TakeFacts
<1>2. info'[w] = <<batch, index>>
  BY <1>1 DEF IInv, TypeOK
<1>3. Active = {} /\ Active' = {<<batch, index>>}
  <2>1. \A v \in Batch : pc[v] \notin AtWork /\ (pc'[v] \in AtWork <=> v = w)
    BY <1>1 DEF AtWork, Holding
  <2> QED BY <1>2, <2>1 DEF Active
<1>4. Phase = "running" /\ Phase' = Phase /\ UNCHANGED <<cand, review>>
  BY <1>1 DEF Phase, candidates
<1>5. /\ index \in 1..N
      /\ \A i \in Device : i < index \/ i = index \/ i > index
      /\ index > 1 => index - 1 \in Device /\ ~(index - 1 + 2 <= index)
  BY <1>1 DEF Device
<1>6. ~(index > 1 /\ <<batch, index - 1>> \in twice)
  BY <1>1, <1>5 DEF Serial, TurnOK, IInv, PlacesOK
<1>7. \A i \in Device : i < index => dev[batch][i] \in {"passed", "failed"} \/ PassedOver(i)
  BY <1>1 DEF Serial, TurnOK
<1>8. \A i \in Device : ~(i < index) => dev[batch][i] = "pending"
  BY <1>1, <1>5 DEF Serial, AheadOK, AtWork, Holding
<1>9. \A i \in Device : IF i < index THEN Service!HasEnded(i) \/ Service!Skipped(i)
                                     ELSE dev[batch][i] = "pending"
  BY <1>1, <1>7, <1>8, ServiceWords DEF PassedOver
<1> QED BY <1>1, <1>3, <1>4, <1>6, <1>9, ServiceWords DEF Service!Take

\* A device that is recorded ends; one that is recorded again is overruled.
LEMMA ServiceRecord ==
  ASSUME IInv, Serial, NEW w \in Batch,
         MarkAndLeave(w) \/ RecordDevice(w) \/ DeviceRaises(w)
  PROVE  [Service!Next]_(Service!service)
<1>1. PICK i \in Device :
        /\ w = batch /\ w = list /\ info[w] = <<list, i>> /\ pc[w] \in Holding
        /\ \A v \in Batch : v # w => pc'[v] = pc[v] /\ pc[v] \in {"idle", "done"}
        /\ UNCHANGED <<batch, list, stopReq, info, candidates>>
        /\ pc[w] \in AtWork => i = index
        /\ \/ /\ stopReq /\ state' = "stopped" /\ index' = N + 1 /\ twice' = twice
              /\ dev' = [dev EXCEPT ![list][i] = "stopped"]
              /\ pc'[w] \in {"leave", "close", "next"}
              /\ pc[w] \notin AtWork => dev[list][i] \in {"passed", "failed", "stopped"}
           \/ /\ ~stopReq /\ state = "running" /\ state' = state /\ index' = index + 1
              /\ pc'[w] \in {"close", "next"} /\ pc[w] # "leave"
              /\ \/ /\ pc[w] \in AtWork /\ twice' = twice
                    /\ \E s \in {"passed", "failed"} : dev' = [dev EXCEPT ![list][i] = s]
                 \/ /\ pc[w] = "close" /\ pc'[w] = "next" /\ index = i + 1
                    /\ dev[list][i] \in {"passed", "failed"}
                    /\ twice' = twice \cup {<<list, i>>}
                    /\ dev' = [dev EXCEPT ![list][i] = "failed"]
  BY RecordFacts
<1>2. UNCHANGED <<batch, cand, review>> /\ batch = list
  BY <1>1 DEF candidates
<1>3. Active' = {}
  <2>1. \A v \in Batch : pc'[v] \notin AtWork
    BY <1>1 DEF AtWork, Holding
  <2> QED BY <2>1 DEF Active
<1>4. /\ stopReq => state = "stopped" /\ Phase = "stopped" /\ Phase' = Phase
      /\ ~stopReq => Phase = "running" /\ Phase' = Phase
  BY <1>1 DEF Phase, IInv, FlagOK
<1>5. CASE pc[w] \in AtWork
  <2>1. i = index /\ Active = {<<batch, i>>}
    BY <1>1, <1>5, ActiveOne
  <2>2. CASE stopReq
    <3>1. twice' = twice /\ dev' = [dev EXCEPT ![batch][i] = "stopped"]
      BY <1>1, <1>2, <2>2
    <3>2. Service!End(i, "stopped")
      BY <1>2, <1>3, <1>4, <2>1, <2>2, <3>1 DEF Service!End
    <3> QED BY <3>2, ServiceWords DEF Service!Next
  <2>3. CASE ~stopReq
    <3>1. twice' = twice /\ \E s \in {"passed", "failed"} : dev' = [dev EXCEPT ![batch][i] = s]
      BY <1>1, <1>2, <1>5, <2>3 DEF AtWork
    <3>2. \E s \in {"passed", "failed"} : Service!End(i, s)
      BY <1>2, <1>3, <1>4, <2>1, <2>3, <3>1 DEF Service!End
    <3> QED BY <3>2, ServiceWords DEF Service!Next
  <2> QED BY <2>2, <2>3
<1>6. CASE pc[w] \notin AtWork
  <2>1. Active = {}
    <3>1. \A v \in Batch : pc[v] \notin AtWork
      BY <1>1, <1>6 DEF AtWork, Holding
    <3> QED BY <3>1 DEF Active
  <2>2. ASSUME dev[list][i] \in {"passed", "failed"}
        PROVE  \A j \in Device : j > i => dev[batch][j] = "pending"
    <3>1. pc[w] \in {"close", "leave"}
      BY <1>1, <1>6 DEF AtWork, Holding
    <3>2. index = i + 1
      BY <1>1, <2>2, <3>1 DEF Serial, TurnOK
    <3>3. \A j \in Device : j > i => j > index \/ j = index
      BY <3>2 DEF Device
    <3> QED BY <1>1, <1>6, <3>1, <3>3 DEF Serial, AheadOK
  <2>3. CASE stopReq /\ dev[list][i] = "stopped"
    <3>1. dev' = dev /\ twice' = twice
      BY <1>1, <2>3 DEF IInv, TypeOK
    <3> QED BY <1>2, <1>3, <1>4, <2>1, <2>3, <3>1 DEF Service!service
  <2>4. CASE stopReq /\ dev[list][i] # "stopped"
    <3>1. /\ twice' = twice /\ dev' = [dev EXCEPT ![batch][i] = "stopped"]
          /\ dev[batch][i] \in {"passed", "failed"}
      BY <1>1, <1>2, <1>6, <2>4
    <3>2. \A j \in Device : j > i => dev[batch][j] = "pending"
      BY <1>2, <2>2, <3>1
    <3>3. Service!Overrule(i)
      BY <1>2, <1>3, <1>4, <2>1, <2>4, <3>1, <3>2, ServiceWords DEF Service!Overrule
    <3> QED BY <3>3, ServiceWords DEF Service!Next
  <2>5. CASE ~stopReq
    <3>1. /\ twice' = twice \cup {<<batch, i>>} /\ dev' = [dev EXCEPT ![batch][i] = "failed"]
          /\ dev[batch][i] \in {"passed", "failed"}
      BY <1>1, <1>2, <1>6, <2>5
    <3>2. \A j \in Device : j > i => dev[batch][j] = "pending"
      BY <1>2, <2>2, <3>1
    <3>3. Service!Overrule(i)
      BY <1>2, <1>3, <1>4, <2>1, <2>5, <3>1, <3>2, ServiceWords DEF Service!Overrule
    <3> QED BY <3>3, ServiceWords DEF Service!Next
  <2> QED BY <2>3, <2>4, <2>5
<1> QED BY <1>5, <1>6

\* A worker's other steps: it gives up its device, ends the batch, awards a
\* candidate or writes the reviews; the rest is not the service's business.
LEMMA ServiceQuietly ==
  ASSUME IInv, Serial, NEW w \in Batch, Quietly(w)
  PROVE  [Service!Next]_(Service!service)
<1>1. /\ UNCHANGED <<batch, list, dev, info, twice>>
      /\ \A v \in Batch : v # w => pc'[v] = pc[v]
      /\ pc'[w] \in AtWork => pc[w] \in AtWork
      /\ pc[w] \in AtWork => pc'[w] \in AtWork \/ pc'[w] = "done"
      /\ ~EndBatch(w) /\ ~Generate(w) => cand' = cand
      /\ ~EndBatch(w) => state' = state
  BY QuietlyFacts
<1>2. CASE EndBatch(w)
  <2>1. /\ w = batch /\ w = list /\ pc[w] = "top"
        /\ state = "running" /\ state' = "finished" /\ index > N
        /\ UNCHANGED <<cand, review>>
    BY <1>2, EndFacts
  <2>2. \A v \in Batch : v # w => pc[v] \in {"idle", "done"}
    BY <2>1 DEF Serial, AloneOK
  <2>3. Active = {} /\ Active' = {}
    <3>1. \A v \in Batch : pc[v] \notin AtWork /\ pc'[v] \notin AtWork
      BY <1>1, <2>1, <2>2 DEF AtWork, Holding
    <3> QED BY <3>1 DEF Active
  <2>4. Phase = "running" /\ Phase' = "finished"
    BY <1>1, <2>1 DEF Phase
  <2>5. \A i \in Device : dev[batch][i] \in {"passed", "failed"} \/ PassedOver(i)
    <3>1. \A i \in Device : i < index
      BY <2>1 DEF IInv, TypeOK, Device
    <3> QED BY <2>1, <3>1 DEF Serial, TurnOK, IInv, PlacesOK
  <2>6. \A i \in Device : Service!HasEnded(i) \/ Service!Skipped(i)
    BY <2>1, <2>5, ServiceWords DEF PassedOver
  <2>7. Service!Finish
    BY <1>1, <2>1, <2>3, <2>4, <2>6, ServiceWords DEF Service!Finish
  <2> QED BY <2>7 DEF Service!Next
<1>3. CASE Generate(w) \/ Review(w)
  <2>1. /\ w = batch /\ w = list /\ pc[w] \in {"generate", "review"}
        /\ ended[w] = [batch |-> list, dev |-> dev[list]]
        /\ state' = state /\ state = "finished" /\ batch \in Full /\ made[w] \in 0..N
        /\ pc'[w] \notin AtWork
    BY <1>3, AwardFacts
  <2>2. Active = {} /\ Active' = {}
    <3>1. \A v \in Batch : pc[v] \notin AtWork /\ pc'[v] \notin AtWork
      BY <1>1, <2>1 DEF Serial, AloneOK, AtWork, Holding
    <3> QED BY <3>1 DEF Active
  <2>3. Phase = "finished" /\ Phase' = Phase
    BY <2>1 DEF Phase
  <2>4. CASE Generate(w)
    <3>1. review' = review
      BY <2>4 DEF Generate
    <3>2. CASE cand' = cand
      BY <1>1, <2>2, <2>3, <3>1, <3>2 DEF Service!service
    <3>3. CASE cand' # cand
      <4>1. PICK i \in Device : Earns(w, i) /\ cand' = cand \cup {<<batch, i>>}
        <5>1. ~(made[w] + 1 > N)
          BY <2>4, <3>3 DEF Generate
        <5>2. made[w] + 1 \in Device
          BY <2>1, <5>1 DEF Device
        <5> QED BY <2>1, <2>4, <3>3, <5>1, <5>2 DEF Generate
      <4>2. i \in Qualified /\ dev[batch][i] = "passed"
        BY <2>1, <4>1 DEF Earns
      <4>3. Service!Award(i)
        BY <1>1, <2>1, <2>2, <2>3, <3>1, <4>1, <4>2, ServiceWords DEF Service!Award
      <4> QED BY <4>3, ServiceWords DEF Service!Next
    <3> QED BY <3>2, <3>3
  <2>5. CASE Review(w)
    <3>1. pc[w] = "review" /\ review' = [review EXCEPT ![batch] = batch] /\ cand' = cand
      <4>1. ended[w].batch = batch
        BY <2>1
      <4>2. pc[w] = "review" /\ cand' = cand
        BY <2>5 DEF Review, Goto
      <4>3. review' = [review EXCEPT ![ended[w].batch] = batch]
        BY <2>1, <2>5 DEF Review
      <4> QED BY <4>1, <4>2, <4>3
    <3>2. \A i \in Device : i \in Qualified /\ dev[batch][i] = "passed" => <<batch, i>> \in cand
      BY <2>1, <3>1 DEF Serial, AwardedOK, Device
    <3>3. Service!Review
      BY <1>1, <2>1, <2>2, <2>3, <3>1, <3>2, ServiceWords DEF Service!Review
    <3> QED BY <3>3 DEF Service!Next
  <2> QED BY <1>3, <2>4, <2>5
<1>4. CASE ~EndBatch(w) /\ ~Generate(w) /\ ~Review(w)
  <2>1. UNCHANGED <<state, cand>> /\ Phase' = Phase
    BY <1>1, <1>4 DEF Phase
  <2>2. review' = review
    BY <1>4 DEF Quietly, SetupDone, CheckStop, Leave, Launch, Register, ChildSeen, CloseDevice,
       NextDevice, StopAtTop, WorkerDies, ChildExits, candidates
  <2>3. CASE pc'[w] \in AtWork <=> pc[w] \in AtWork
    <3>1. \A v \in Batch : pc'[v] \in AtWork <=> pc[v] \in AtWork
      BY <1>1, <2>3
    <3>2. Active' = Active
      BY <1>1, <3>1 DEF Active
    <3> QED BY <1>1, <2>1, <2>2, <3>2 DEF Service!service
  <2>4. CASE pc[w] \in AtWork /\ pc'[w] = "done"
    <3>1. w = batch /\ Active = {<<batch, index>>}
      BY <2>4, ActiveOne
    <3>2. Active' = {}
      <4>1. \A v \in Batch : v # w => pc[v] \notin AtWork
        BY <3>1 DEF Serial, AloneOK, AtWork, Holding
      <4>2. \A v \in Batch : pc'[v] \notin AtWork
        BY <1>1, <2>4, <4>1 DEF AtWork, Holding
      <4> QED BY <4>2 DEF Active
    <3>3. Service!Abandon
      BY <1>1, <2>1, <2>2, <3>1, <3>2 DEF Service!Abandon
    <3> QED BY <3>3 DEF Service!Next
  <2> QED BY <1>1, <2>3, <2>4
<1> QED BY <1>2, <1>3, <1>4

LEMMA ServiceElse ==
  ASSUME IInv, StopBatch \/ (\E x \in stops : Terminate(x)) \/ UNCHANGED vars
  PROVE  [Service!Next]_(Service!service)
<1>1. /\ UNCHANGED <<batch, list, dev, info, pc, cand, review, twice>>
      /\ \/ state = "running" /\ state' = "stopped"
         \/ state' = state
  BY ElseFacts DEF candidates
<1>2. Active' = Active
  BY <1>1 DEF Active
<1>3. CASE state' = state
  BY <1>1, <1>2, <1>3 DEF Service!service, Phase
<1>4. CASE state = "running" /\ state' = "stopped"
  <2>1. Phase \in {"running", "void"} /\ Phase' = "stopped"
    BY <1>4 DEF Phase
  <2>2. Service!Stop
    BY <1>1, <1>2, <2>1 DEF Service!Stop
  <2> QED BY <2>2 DEF Service!Next
<1> QED BY <1>1, <1>3, <1>4

\* Every step up to the first start beside a busy worker is one of the batch
\* service, whatever fails and whenever it is stopped (start_batch, stop_batch,
\* _run_loop, and _auto_generate_full_candidates with its reviews).
THEOREM BatchServiceImplemented == Spec => ImplementsBatchService
<1>1. Init => Service!Init
  BY ServiceInit
<1>2. ASSUME IInv, SerialInv, [Next]_vars
      PROVE  [overlaps' = 0 => Service!Next]_(Service!service)
  <2> SUFFICES ASSUME overlaps' = 0
               PROVE  [Service!Next]_(Service!service)
    OBVIOUS
  <2>1. Serial
    BY <1>2, OverlapsGrow DEF SerialInv
  <2>2. ASSUME NEW b \in Batch, StartBatch(b) \/ NoWorker(b) \/ BeginFails(b)
        PROVE  Service!Next
    BY <1>2, <2>1, <2>2, ServiceStart DEF Service!Next
  <2>3. ASSUME NEW w \in Batch, TakeDevice(w)
        PROVE  Service!Next
    BY <1>2, <2>1, <2>3, ServiceTake, ServiceWords DEF Service!Next
  <2> QED BY <1>2, <2>1, <2>2, <2>3, StepGroups, ServiceRecord, ServiceQuietly, ServiceElse
<1> QED BY <1>1, <1>2, BatchInvariant, SerialInvariant, PTL DEF Spec, ImplementsBatchService

-----------------------------------------------------------------------------
(* The manager goes forward, which is what the end of a worker rests on.   *)

Life(p) == IF p = "idle" THEN 0 ELSE IF p = "done" THEN 2 ELSE 1

\* No worker takes another device.
Closing == stopReq \/ index > N

\* The places of a worker in their order: with devices to come a round ends
\* when a device has been recorded, else the top of the loop comes last.
Rank(p) ==
  CASE p = "close"    -> IF Closing THEN 11 ELSE 0
    [] p = "next"     -> IF Closing THEN 12 ELSE 1
    [] p = "top"      -> IF Closing THEN 13 ELSE 2
    [] p = "setup"    -> 3
    [] p = "check"    -> 4
    [] p = "launch"   -> 5
    [] p = "register" -> 6
    [] p = "wait"     -> 7
    [] p = "record"   -> 8
    [] p = "mark"     -> 9
    [] p = "leave"    -> 10
    [] p = "generate" -> 14
    [] p = "review"   -> 15
    [] OTHER          -> 16

\* A worker gets further in its round, and the others stay where they are.
Further ==
  \E w \in Batch : /\ Rank(pc'[w]) > Rank(pc[w])
                   /\ \A v \in Batch \ {w} : pc'[v] = pc[v]

\* What remains when the workers stay where they are: candidates to make,
\* children to exit and children to terminate.
Fewer ==
  /\ pc' = pc
  /\ \A w \in Batch : made'[w] >= made[w]
  /\ \A w \in Batch : child'[w] = "alive" => child[w] = "alive"
  /\ stops' \subseteq stops
  /\ \/ \E w \in Batch : made'[w] > made[w]
     \/ \E w \in Batch : child[w] = "alive" /\ child'[w] # "alive"
     \/ stops' # stops

\* Workers that start and end, the stop flag, the devices, in this order.
Forward ==
  /\ \A w \in Batch : Life(pc'[w]) >= Life(pc[w])
  /\ \/ \E w \in Batch : Life(pc'[w]) > Life(pc[w])
     \/ ~stopReq /\ stopReq'
     \/ /\ stopReq' = stopReq
        /\ \/ ~Closing /\ index' > index
           \/ /\ Closing' = Closing /\ (Closing \/ index' = index)
              /\ Further \/ Fewer

LEMMA Ranks ==
  /\ Rank("close") = IF Closing THEN 11 ELSE 0
  /\ Rank("next") = IF Closing THEN 12 ELSE 1
  /\ Rank("top") = IF Closing THEN 13 ELSE 2
  /\ Rank("setup") = 3 /\ Rank("check") = 4 /\ Rank("launch") = 5 /\ Rank("register") = 6
  /\ Rank("wait") = 7 /\ Rank("record") = 8 /\ Rank("mark") = 9
  /\ Rank("leave") = 10 /\ Rank("generate") = 14 /\ Rank("review") = 15
BY DEF Rank

Places == PC \ {"idle", "done"}

\* A worker that leaves its place does not come to life again.
LEMMA Moved ==
  ASSUME TypeOK, NEW w \in Batch, NEW here \in Places, NEW there \in Places \cup {"done"},
         Goto(w, here, there)
  PROVE  /\ pc[w] = here /\ pc'[w] = there /\ \A v \in Batch \ {w} : pc'[v] = pc[v]
         /\ \A v \in Batch : Life(pc'[v]) >= Life(pc[v])
         /\ there = "done" => Life(pc'[w]) > Life(pc[w])
<1>1. pc[w] = here /\ pc'[w] = there /\ \A v \in Batch \ {w} : pc'[v] = pc[v]
  BY DEF Goto, TypeOK
<1>2. Life(here) = 1 /\ Life(there) = IF there = "done" THEN 2 ELSE 1
  BY DEF Life, Places
<1>3. \A v \in Batch : Life(pc[v]) \in Nat
  BY DEF Life
<1> QED BY <1>1, <1>2, <1>3

LEMMA LeavesForward ==
  ASSUME TypeOK, NEW w \in Batch, NEW here \in Places, Goto(w, here, "done")
  PROVE  Forward
BY Moved DEF Forward

LEMMA StepsForward ==
  ASSUME TypeOK, NEW w \in Batch, NEW here \in Places, NEW there \in Places, Goto(w, here, there),
         UNCHANGED <<stopReq, index>>, Rank(there) > Rank(here)
  PROVE  Forward
<1>1. Further
  BY Moved DEF Further
<1>2. Closing' = Closing
  BY DEF Closing
<1> QED BY <1>1, <1>2, Moved DEF Forward

\* A device is recorded: the index moves on, or no device is taken any more.
LEMMA RecordsForward ==
  ASSUME TypeOK, NEW w \in Batch, NEW here \in Places, NEW there \in Places, Goto(w, here, there),
         stopReq' = stopReq, ~stopReq => index' \in {index + 1, N + 1},
         Closing => Rank(there) > Rank(here)
  PROVE  Forward
<1>1. index \in Nat
  BY DEF TypeOK
<1>2. CASE ~Closing
  BY <1>1, <1>2, Moved DEF Forward, Closing
<1>3. CASE Closing
  <2>1. Further
    BY <1>3, Moved DEF Further
  <2>2. Closing'
    BY <1>1, <1>3 DEF Closing
  <2> QED BY <1>3, <2>1, <2>2, Moved DEF Forward
<1> QED BY <1>2, <1>3

\* The workers stay where they are, and less remains to be done.
LEMMA StaysForward ==
  ASSUME TypeOK, UNCHANGED <<stopReq, index>>, Fewer
  PROVE  Forward
<1>1. Closing' = Closing
  BY DEF Closing
<1>2. \A v \in Batch : Life(pc'[v]) >= Life(pc[v])
  BY DEF Fewer, Life
<1> QED BY <1>1, <1>2 DEF Forward

LEMMA BeginForward ==
  ASSUME TypeOK, NEW b \in Batch, StartBatch(b) \/ NoWorker(b) \/ BeginFails(b)
  PROVE  Forward
<1>1. /\ pc[b] = "idle" /\ pc'[b] \in {"top", "done"}
      /\ \A v \in Batch \ {b} : pc'[v] = pc[v]
  BY DEF StartBatch, NoWorker, Begin, BeginFails, MayStart, TypeOK
<1>2. Life(pc[b]) = 0 /\ Life(pc'[b]) \in {1, 2} /\ \A v \in Batch : Life(pc[v]) \in Nat
  BY <1>1 DEF Life
<1> QED BY <1>1, <1>2 DEF Forward

\* The steps of a worker that leave the index alone.
LEMMA WorkerForward ==
  ASSUME IInv, NEW w \in Batch, Worker(w) \/ DeviceRaises(w) \/ WorkerDies(w)
  PROVE  Forward
<1> USE DEF PC, Places
<1> TypeOK
  BY DEF IInv
<1>1. CASE TakeDevice(w)
  <2>1. Goto(w, "top", "setup") /\ UNCHANGED <<stopReq, index>> /\ ~Closing
    BY <1>1 DEF TakeDevice, TypeOK, Closing
  <2> QED BY <2>1, Ranks, StepsForward
<1>2. CASE SetupDone(w)
  <2>1. UNCHANGED <<stopReq, index>> /\ (Goto(w, "setup", "mark") \/ Goto(w, "setup", "check"))
    BY <1>2 DEF SetupDone
  <2> QED BY <2>1, Ranks, StepsForward
<1>3. CASE CheckStop(w)
  <2>1. UNCHANGED <<stopReq, index>> /\ (Goto(w, "check", "mark") \/ Goto(w, "check", "launch"))
    BY <1>3 DEF CheckStop
  <2> QED BY <2>1, Ranks, StepsForward
<1>4. CASE MarkAndLeave(w)
  <2>1. Goto(w, "mark", "leave") /\ stopReq' = stopReq /\ index' = N + 1
    BY <1>4 DEF MarkAndLeave, MarkStopped
  <2> QED BY <2>1, Ranks, RecordsForward
<1>5. CASE Launch(w)
  <2>1. Goto(w, "launch", "register") /\ UNCHANGED <<stopReq, index>>
    BY <1>5 DEF Launch
  <2> QED BY <2>1, Ranks, StepsForward
<1>6. CASE Register(w)
  <2>1. Goto(w, "register", "wait") /\ UNCHANGED <<stopReq, index>>
    BY <1>6 DEF Register
  <2> QED BY <2>1, Ranks, StepsForward
<1>7. CASE ChildSeen(w)
  <2>1. Goto(w, "wait", "record") /\ UNCHANGED <<stopReq, index>>
    BY <1>7 DEF ChildSeen
  <2> QED BY <2>1, Ranks, StepsForward
<1>8. CASE RecordDevice(w)
  <2>1. Goto(w, "record", "close") /\ stopReq' = stopReq /\ (~stopReq => index' = index + 1)
    BY <1>8 DEF RecordDevice, RecordEnd
  <2> QED BY <2>1, Ranks, RecordsForward
<1>9. CASE CloseDevice(w)
  <2>1. Goto(w, "close", "next") /\ UNCHANGED <<stopReq, index>>
    BY <1>9 DEF CloseDevice
  <2> QED BY <2>1, Ranks, StepsForward
<1>10. CASE NextDevice(w)
  <2>1. /\ UNCHANGED <<stopReq, index>>
        /\ Goto(w, "next", "done") \/ Goto(w, "next", "top")
    BY <1>10 DEF NextDevice
  <2> QED BY <2>1, Ranks, StepsForward, LeavesForward
<1>11. CASE StopAtTop(w)
  BY <1>11, LeavesForward DEF StopAtTop
<1>12. CASE EndBatch(w)
  <2>1. /\ UNCHANGED <<stopReq, index>> /\ Closing
        /\ Goto(w, "top", "done") \/ Goto(w, "top", "generate")
    BY <1>12 DEF EndBatch, Closing
  <2> QED BY <2>1, Ranks, StepsForward, LeavesForward
<1>13. CASE Generate(w)
  <2>1. UNCHANGED <<stopReq, index, child, stops>> /\ made[w] \in Nat
    BY <1>13 DEF Generate, TypeOK
  <2>2. CASE Goto(w, "generate", "review")
    BY <2>1, <2>2, Ranks, StepsForward
  <2>3. CASE made' = [made EXCEPT ![w] = made[w] + 1] /\ UNCHANGED pc
    <3>1. made'[w] = made[w] + 1 /\ \A v \in Batch : made[v] \in Nat /\ made'[v] >= made[v]
      BY <2>1, <2>3 DEF TypeOK
    <3>2. Fewer
      BY <2>1, <2>3, <3>1 DEF Fewer
    <3> QED BY <2>1, <3>2, StaysForward
  <2> QED BY <1>13, <2>2, <2>3 DEF Generate
<1>14. CASE Review(w)
  BY <1>14, LeavesForward DEF Review
<1>15. CASE DeviceRaises(w)
  <2>1. /\ stopReq' = stopReq /\ (~stopReq => index' = index + 1)
        /\ \E here \in {"setup", "launch", "wait", "record", "close", "mark", "leave"} :
             Goto(w, here, "next")
    BY <1>15 DEF DeviceRaises, RecordEnd, Holding
  <2> QED BY <2>1, Ranks, RecordsForward
<1>16. CASE WorkerDies(w)
  <2>1. \E here \in Places : Goto(w, here, "done")
    BY <1>16 DEF WorkerDies, Holding
  <2> QED BY <2>1, LeavesForward
<1>17. CASE Leave(w)
  BY <1>17, LeavesForward DEF Leave
<1> QED
  BY <1>1, <1>2, <1>3, <1>4, <1>5, <1>6, <1>7, <1>8, <1>9, <1>10, <1>11, <1>12, <1>13, <1>14,
     <1>15, <1>16, <1>17
  DEF Worker

\* A stop, the children and the threads that terminate them.
LEMMA OthersForward ==
  ASSUME IInv, \/ StopBatch \/ (\E w \in Batch : ChildExits(w)) \/ (\E x \in stops : Terminate(x))
  PROVE  Forward
<1> TypeOK /\ FlagOK
  BY DEF IInv
<1>1. CASE StopBatch
  <2>1. ~stopReq /\ stopReq' /\ pc' = pc
    BY <1>1 DEF StopBatch, FlagOK
  <2>2. \A v \in Batch : Life(pc'[v]) >= Life(pc[v])
    BY <2>1 DEF Life
  <2> QED BY <2>1, <2>2 DEF Forward
<1>2. ASSUME NEW w \in Batch, ChildExits(w) PROVE Forward
  <2>1. /\ UNCHANGED <<stopReq, index, pc, stops, made>>
        /\ child[w] = "alive" /\ child'[w] # "alive"
        /\ \A v \in Batch : child'[v] = "alive" => child[v] = "alive"
    BY <1>2 DEF ChildExits, candidates, Ended, TypeOK
  <2>2. \A v \in Batch : made'[v] >= made[v]
    BY <2>1 DEF TypeOK
  <2> QED BY <2>1, <2>2, StaysForward DEF Fewer
<1>3. ASSUME NEW x \in stops, Terminate(x) PROVE Forward
  <2>1. /\ UNCHANGED <<stopReq, index, pc, made>> /\ stops' \subseteq stops /\ stops' # stops
        /\ \A v \in Batch : child'[v] = "alive" => child[v] = "alive"
    BY <1>3 DEF Terminate, candidates, TypeOK
  <2>2. \A v \in Batch : made'[v] >= made[v]
    BY <2>1 DEF TypeOK
  <2> QED BY <2>1, <2>2, StaysForward DEF Fewer
<1> QED BY <1>1, <1>2, <1>3

\* The manager never goes in a circle, also when batches overlap, starts raise,
\* workers die and logs cannot be closed: every step starts or ends a worker, sets the stop
\* flag, leaves a device behind, brings a worker further, or leaves one
\* candidate, child or termination less (start_batch, stop_batch, _run_loop).
THEOREM BatchGoesForward == Spec => [][Forward]_vars
<1>1. IInv /\ [Next]_vars => [Forward]_vars
  <2> SUFFICES ASSUME IInv, Next PROVE Forward
    OBVIOUS
  <2>1. ASSUME NEW b \in Batch, StartBatch(b) \/ NoWorker(b) \/ BeginFails(b) PROVE Forward
    BY <2>1, BeginForward DEF IInv
  <2> QED BY <2>1, WorkerForward, OthersForward DEF Next
<1> QED BY <1>1, BatchInvariant, PTL DEF Spec

=============================================================================
