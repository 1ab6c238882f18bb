-------------------------- MODULE RunManagerProofs --------------------------
(***************************************************************************)
(* Proofs about RunManager for every finite set of runs, every set of      *)
(* settings and every bound.                                               *)
(***************************************************************************)
EXTENDS RunRefinement, FiniteSetTheorems, TLAPS

USE ManagerAssumption

\* Starters and waiters are different threads, one of each for a run.
LEMMA ThreadFacts ==
  /\ \A r \in Run : Starter(r) \in Thread /\ Waiter(r) \in Thread
  /\ \A r, s \in Run : Starter(r) # Waiter(s)
  /\ \A r, s \in Run : Starter(r) = Starter(s) => r = s
  /\ \A r, s \in Run : Waiter(r) = Waiter(s) => r = s
  /\ \A t \in Thread : \E r \in Run : t = Starter(r) \/ t = Waiter(r)
BY DEF Starter, Waiter, Thread

LEMMA ThreadsFinite == IsFiniteSet(Thread)
<1>1. IsFiniteSet({"starter", "waiter"})
  BY FS_EmptySet, FS_AddElement, {"starter", "waiter"} = ({} \cup {"starter"}) \cup {"waiter"}
<1> QED BY <1>1, FS_Product DEF Thread

Holders == {t \in Thread : HoldsRequest(t)}

LEMMA CountsFinite ==
  ASSUME TypeOK
  PROVE  /\ IsFiniteSet(Holders) /\ Cardinality(Holders) \in Nat
         /\ IsFiniteSet(leaked) /\ Cardinality(leaked) \in Nat
BY ThreadsFinite, FS_Subset, FS_CardinalityType DEF Holders, TypeOK

\* The count follows the threads that hold a request (enable_sleep_prevention,
\* disable_sleep_prevention).
LEMMA BalanceSame ==
  ASSUME SleepBalanced, UNCHANGED <<requests, keeper, leaked>>,
         \A t \in Thread : HoldsRequest(t)' <=> HoldsRequest(t)
  PROVE  SleepBalanced'
<1>1. Holders' = Holders
  BY DEF Holders
<1> QED BY <1>1 DEF SleepBalanced, Holders

LEMMA BalanceAdd ==
  ASSUME TypeOK, SleepBalanced, requests' = requests + 1, leaked' = leaked,
         keeper' = IF keeper = "none" THEN "running" ELSE keeper,
         NEW u \in Thread, ~HoldsRequest(u), HoldsRequest(u)',
         \A t \in Thread \ {u} : HoldsRequest(t)' <=> HoldsRequest(t)
  PROVE  SleepBalanced'
<1>1. Holders' = Holders \cup {u} /\ u \notin Holders
  BY DEF Holders
<1>2. Cardinality(Holders') = Cardinality(Holders) + 1
  BY <1>1, CountsFinite, FS_AddElement
<1>3. requests = Cardinality(Holders) + Cardinality(leaked) /\ keeper' # "none"
  BY DEF SleepBalanced, Holders
<1>4. requests' = Cardinality(Holders') + Cardinality(leaked') /\ requests' # 0
  BY <1>2, <1>3, CountsFinite DEF TypeOK
<1> QED BY <1>3, <1>4 DEF SleepBalanced, Holders

LEMMA BalanceRemove ==
  ASSUME TypeOK, SleepBalanced, DisableSleepPrevention, leaked' = leaked,
         NEW u \in Thread, HoldsRequest(u), ~HoldsRequest(u)',
         \A t \in Thread \ {u} : HoldsRequest(t)' <=> HoldsRequest(t)
  PROVE  SleepBalanced' /\ requests' \in Nat
<1>1. Holders' = Holders \ {u} /\ u \in Holders
  BY DEF Holders
<1>2. Cardinality(Holders') = Cardinality(Holders) - 1
  BY <1>1, CountsFinite, FS_RemoveElement
<1>3. IsFiniteSet(Holders') /\ Cardinality(Holders') \in Nat
  BY <1>1, CountsFinite, FS_RemoveElement, FS_CardinalityType
<1>4. requests = Cardinality(Holders) + Cardinality(leaked)
  BY DEF SleepBalanced, Holders
<1>5. requests # 0 /\ requests' = requests - 1
  BY <1>2, <1>3, <1>4, CountsFinite DEF TypeOK, DisableSleepPrevention
<1>6. requests' = Cardinality(Holders') + Cardinality(leaked') /\ requests' \in Nat
  BY <1>2, <1>3, <1>4, <1>5, CountsFinite DEF TypeOK
<1>7. keeper' = "none" <=> requests' = 0
  BY <1>5 DEF SleepBalanced, DisableSleepPrevention, TypeOK
<1>8. keeper' = "broken" => leaked' # {}
  BY DEF SleepBalanced, DisableSleepPrevention
<1> QED BY <1>6, <1>7, <1>8 DEF SleepBalanced, Holders

\* A request passes from a starter to its waiter.
LEMMA BalanceMove ==
  ASSUME TypeOK, SleepBalanced, UNCHANGED <<requests, keeper, leaked>>,
         NEW u \in Thread, NEW v \in Thread, u # v,
         HoldsRequest(u), ~HoldsRequest(u)', ~HoldsRequest(v), HoldsRequest(v)',
         \A t \in Thread \ {u, v} : HoldsRequest(t)' <=> HoldsRequest(t)
  PROVE  SleepBalanced'
<1>1. Holders' = (Holders \ {u}) \cup {v} /\ u \in Holders /\ v \notin Holders \ {u}
  BY DEF Holders
<1>2. Cardinality(Holders \ {u}) = Cardinality(Holders) - 1 /\ IsFiniteSet(Holders \ {u})
  BY <1>1, CountsFinite, FS_RemoveElement
<1>3. Cardinality((Holders \ {u}) \cup {v}) = Cardinality(Holders \ {u}) + 1
  BY <1>1, <1>2, FS_AddElement
<1>4. Cardinality(Holders') = Cardinality(Holders)
  BY <1>1, <1>2, <1>3, CountsFinite
<1> QED BY <1>4 DEF SleepBalanced, Holders

\* A request is counted and at once without an owner: the keep-awake thread
\* could not be started.
LEMMA BalanceBreak ==
  ASSUME TypeOK, SleepBalanced, requests' = requests + 1, keeper' = "broken",
         NEW r \in Run \ leaked, leaked' = leaked \cup {r},
         \A t \in Thread : HoldsRequest(t)' <=> HoldsRequest(t)
  PROVE  SleepBalanced'
<1>1. Holders' = Holders
  BY DEF Holders
<1>2. Cardinality(leaked') = Cardinality(leaked) + 1
  BY CountsFinite, FS_AddElement
<1>3. requests = Cardinality(Holders) + Cardinality(leaked)
  BY DEF SleepBalanced, Holders
<1>4. requests' = Cardinality(Holders') + Cardinality(leaked') /\ requests' # 0
  BY <1>1, <1>2, <1>3, CountsFinite DEF TypeOK
<1> QED BY <1>4 DEF SleepBalanced, Holders

\* A request loses its owner: the start gave its run up.
LEMMA BalanceLeak ==
  ASSUME TypeOK, SleepBalanced, UNCHANGED <<requests, keeper>>,
         NEW r \in Run \ leaked, leaked' = leaked \cup {r},
         NEW u \in Thread, HoldsRequest(u), ~HoldsRequest(u)',
         \A t \in Thread \ {u} : HoldsRequest(t)' <=> HoldsRequest(t)
  PROVE  SleepBalanced'
<1>1. Holders' = Holders \ {u} /\ u \in Holders
  BY DEF Holders
<1>2. Cardinality(Holders') = Cardinality(Holders) - 1
  BY <1>1, CountsFinite, FS_RemoveElement
<1>3. Cardinality(leaked') = Cardinality(leaked) + 1
  BY CountsFinite, FS_AddElement
<1>4. requests' = Cardinality(Holders') + Cardinality(leaked')
  BY <1>2, <1>3, CountsFinite DEF SleepBalanced, Holders
<1> QED BY <1>4 DEF SleepBalanced, Holders

-----------------------------------------------------------------------------
(* The initial states and the steps.                                       *)

\* The parts of the invariant that do not count.
Places == PlacesOK /\ LocalsOK /\ CallOK /\ RunningIsOwned /\ FinishedHasSummary

\* A summary is written or not; either way the types stay.
LEMMA SummaryTyped ==
  ASSUME TypeOK, NEW r \in Run, NEW said \in Terminal, WriteSummary(r, said)
  PROVE  /\ summary' \in [Run -> Terminal \cup {None}]
         /\ leaked' \subseteq Run /\ unwritten' \subseteq Run
         /\ faults' \in Nat /\ outside' \in Nat /\ overlap' \in BOOLEAN
<1> USE DEF TypeOK, WriteSummary, Works, Fault, environment
<1>1. summary' = [summary EXCEPT ![r] = said] \/ summary' = summary
  OBVIOUS
<1>2. unwritten' \subseteq Run /\ leaked' \subseteq Run
  OBVIOUS
<1>3. faults' \in Nat /\ outside' \in Nat /\ overlap' \in BOOLEAN
  OBVIOUS
<1> QED BY <1>1, <1>2, <1>3

LEMMA InitOK == Init => IInv
<1> SUFFICES ASSUME Init PROVE IInv
  OBVIOUS
<1>1. TypeOK
  BY DEF Init, TypeOK, PC
<1>2. PlacesOK /\ LocalsOK /\ CallOK /\ RunningIsOwned /\ FinishedHasSummary
  BY ThreadFacts DEF Init, PlacesOK, LocalsOK, CallOK, RunningIsOwned, FinishedHasSummary,
                     StarterPC, WaiterPC, PC, InCall
<1>3. SleepBalanced
  <2>1. Holders = {}
    BY DEF Init, Holders, HoldsRequest
  <2> QED BY <2>1, FS_EmptySet DEF Init, SleepBalanced, Holders
<1> QED BY <1>1, <1>2, <1>3 DEF IInv

LEMMA BeginKeeps ==
  ASSUME IInv, NEW r \in Run, Begin(r)
  PROVE  IInv'
<1> USE ThreadFacts DEF IInv, Begin, Goto, Fault, Works, environment, fields, device, sleep, records, history, WriteSummary, Busy
<1>1. SleepBalanced'
  <2>1. \A u \in Thread : HoldsRequest(u)' <=> HoldsRequest(u)
    BY DEF TypeOK, HoldsRequest, PlacesOK, StarterPC, WaiterPC
  <2> QED BY <2>1, BalanceSame
<1>2. TypeOK'
  BY <1>1 DEF TypeOK, LocalsOK, PC, Saved, Terminal, Ended
<1>3. PlacesOK' /\ LocalsOK'
  BY DEF TypeOK, PlacesOK, LocalsOK, StarterPC, WaiterPC, PC, InCall
<1>4. CallOK'
  BY DEF TypeOK, PlacesOK, CallOK, InCall, StarterPC, WaiterPC, PC
<1>5. RunningIsOwned' /\ FinishedHasSummary'
  BY DEF TypeOK, PlacesOK, CallOK, InCall, RunningIsOwned, FinishedHasSummary, PC, Terminal
<1> QED BY <1>1, <1>2, <1>3, <1>4, <1>5

LEMMA NoScenarioKeeps ==
  ASSUME IInv, NEW r \in Run, NoScenario(r)
  PROVE  IInv'
<1> USE ThreadFacts DEF IInv, NoScenario, Goto, Fault, Works, environment, fields, device, sleep, records, history, WriteSummary
<1>1. SleepBalanced'
  <2>1. \A u \in Thread : HoldsRequest(u)' <=> HoldsRequest(u)
    BY DEF TypeOK, HoldsRequest, PlacesOK, StarterPC, WaiterPC
  <2> QED BY <2>1, BalanceSame
<1>2. TypeOK'
  BY <1>1 DEF TypeOK, LocalsOK, PC, Saved, Terminal, Ended
<1>3. PlacesOK' /\ LocalsOK'
  BY DEF TypeOK, PlacesOK, LocalsOK, StarterPC, WaiterPC, PC, InCall
<1>4. CallOK'
  BY DEF TypeOK, PlacesOK, CallOK, InCall, StarterPC, WaiterPC, PC
<1>5. RunningIsOwned' /\ FinishedHasSummary'
  BY DEF TypeOK, PlacesOK, CallOK, InCall, RunningIsOwned, FinishedHasSummary, PC, Terminal
<1> QED BY <1>1, <1>2, <1>3, <1>4, <1>5

LEMMA OpenLogKeeps ==
  ASSUME IInv, NEW r \in Run, OpenLog(r)
  PROVE  IInv'
<1> USE ThreadFacts DEF IInv, OpenLog, Goto, Fault, Works, environment, fields, device, sleep, records, history, WriteSummary
<1>1. SleepBalanced'
  <2>1. \A u \in Thread : HoldsRequest(u)' <=> HoldsRequest(u)
    BY DEF TypeOK, HoldsRequest, PlacesOK, StarterPC, WaiterPC
  <2> QED BY <2>1, BalanceSame
<1>2. TypeOK'
  BY <1>1 DEF TypeOK, LocalsOK, PC, Saved, Terminal, Ended
<1>3. PlacesOK' /\ LocalsOK'
  BY DEF TypeOK, PlacesOK, LocalsOK, StarterPC, WaiterPC, PC, InCall
<1>4. CallOK'
  BY DEF TypeOK, PlacesOK, CallOK, InCall, StarterPC, WaiterPC, PC
<1>5. RunningIsOwned' /\ FinishedHasSummary'
  BY DEF TypeOK, PlacesOK, CallOK, InCall, RunningIsOwned, FinishedHasSummary, PC, Terminal
<1> QED BY <1>1, <1>2, <1>3, <1>4, <1>5

LEMMA OpenRaisesKeeps ==
  ASSUME IInv, NEW r \in Run, OpenRaises(r)
  PROVE  IInv'
<1> USE ThreadFacts DEF IInv, OpenRaises, Goto, Fault, Works, environment, fields, device, sleep, records, history, WriteSummary
<1>1. SleepBalanced'
  <2>1. \A u \in Thread : HoldsRequest(u)' <=> HoldsRequest(u)
    BY DEF TypeOK, HoldsRequest, PlacesOK, StarterPC, WaiterPC
  <2> QED BY <2>1, BalanceSame
<1>2. TypeOK'
  BY <1>1 DEF TypeOK, LocalsOK, PC, Saved, Terminal, Ended
<1>3. PlacesOK' /\ LocalsOK'
  BY DEF TypeOK, PlacesOK, LocalsOK, StarterPC, WaiterPC, PC, InCall
<1>4. CallOK'
  BY DEF TypeOK, PlacesOK, CallOK, InCall, StarterPC, WaiterPC, PC
<1>5. RunningIsOwned' /\ FinishedHasSummary'
  BY DEF TypeOK, PlacesOK, CallOK, InCall, RunningIsOwned, FinishedHasSummary, PC, Terminal
<1> QED BY <1>1, <1>2, <1>3, <1>4, <1>5

LEMMA EnableSleepPreventionKeeps ==
  ASSUME IInv, NEW r \in Run, EnableSleepPrevention(r)
  PROVE  IInv'
<1> USE ThreadFacts DEF IInv, EnableSleepPrevention, Goto, Fault, Works, environment, fields, device, sleep, records, history, WriteSummary
<1>1. SleepBalanced'
  <2>1. ~HoldsRequest(Starter(r)) /\ HoldsRequest(Starter(r))'
    BY DEF TypeOK, HoldsRequest
  <2>2. \A u \in Thread \ {Starter(r)} : HoldsRequest(u)' <=> HoldsRequest(u)
    BY DEF TypeOK, HoldsRequest
  <2> QED BY <2>1, <2>2, BalanceAdd
<1>2. TypeOK'
  BY <1>1 DEF TypeOK, LocalsOK, PC, Saved, Terminal, Ended
<1>3. PlacesOK' /\ LocalsOK'
  BY DEF TypeOK, PlacesOK, LocalsOK, StarterPC, WaiterPC, PC, InCall
<1>4. CallOK'
  BY DEF TypeOK, PlacesOK, CallOK, InCall, StarterPC, WaiterPC, PC
<1>5. RunningIsOwned' /\ FinishedHasSummary'
  BY DEF TypeOK, PlacesOK, CallOK, InCall, RunningIsOwned, FinishedHasSummary, PC, Terminal
<1> QED BY <1>1, <1>2, <1>3, <1>4, <1>5

LEMMA KeeperFailsKeeps ==
  ASSUME IInv, NEW r \in Run, KeeperFails(r)
  PROVE  IInv'
<1> USE ThreadFacts DEF IInv, KeeperFails, Goto, Fault, Works, environment, fields, device, sleep, records, history, WriteSummary
<1>1. SleepBalanced'
  <2>1. r \notin leaked
    BY DEF PlacesOK
  <2>2. \A u \in Thread : HoldsRequest(u)' <=> HoldsRequest(u)
    BY DEF TypeOK, HoldsRequest
  <2> QED BY <2>1, <2>2, BalanceBreak
<1>2. TypeOK'
  BY <1>1 DEF TypeOK, LocalsOK, PC, Saved, Terminal, Ended
<1>3. PlacesOK' /\ LocalsOK'
  BY DEF TypeOK, PlacesOK, LocalsOK, StarterPC, WaiterPC, PC, InCall
<1>4. CallOK'
  BY DEF TypeOK, PlacesOK, CallOK, InCall, StarterPC, WaiterPC, PC
<1>5. RunningIsOwned' /\ FinishedHasSummary'
  BY DEF TypeOK, PlacesOK, CallOK, InCall, RunningIsOwned, FinishedHasSummary, PC, Terminal
<1> QED BY <1>1, <1>2, <1>3, <1>4, <1>5

LEMMA ReadOriginalKeeps ==
  ASSUME IInv, NEW r \in Run, ReadOriginal(r)
  PROVE  IInv'
<1> USE ThreadFacts DEF IInv, ReadOriginal, Goto, Fault, Works, environment, fields, device, sleep, records, history, WriteSummary
<1>1. SleepBalanced'
  <2>1. \A u \in Thread : HoldsRequest(u)' <=> HoldsRequest(u)
    BY DEF TypeOK, HoldsRequest, PlacesOK, StarterPC, WaiterPC
  <2> QED BY <2>1, BalanceSame
<1>2. TypeOK'
  BY <1>1 DEF TypeOK, LocalsOK, PC, Saved, Terminal, Ended
<1>3. PlacesOK' /\ LocalsOK'
  <2>1. PlacesOK'
    BY DEF TypeOK, PlacesOK, StarterPC, WaiterPC, PC, InCall
  <2>2. mine'[Starter(r)] \in Saved /\ Starter(r) \in Thread
    BY DEF TypeOK, LocalsOK, Saved
  <2>3. mine'[Starter(r)] # None
    BY <2>2
  <2>4. \A u \in Thread \ {Starter(r)} : mine'[u] = mine[u] /\ pc'[u] = pc[u]
    BY DEF TypeOK
  <2>5. LocalsOK'
    BY <2>3, <2>4 DEF LocalsOK
  <2> QED BY <2>1, <2>5
<1>4. CallOK'
  BY DEF TypeOK, PlacesOK, CallOK, InCall, StarterPC, WaiterPC, PC
<1>5. RunningIsOwned' /\ FinishedHasSummary'
  BY DEF TypeOK, PlacesOK, CallOK, InCall, RunningIsOwned, FinishedHasSummary, PC, Terminal
<1> QED BY <1>1, <1>2, <1>3, <1>4, <1>5

LEMMA ApplyAwakeKeeps ==
  ASSUME IInv, NEW r \in Run, ApplyAwake(r)
  PROVE  IInv'
<1> USE ThreadFacts DEF IInv, ApplyAwake, Goto, Fault, Works, environment, fields, device, sleep, records, history, WriteSummary
<1>1. SleepBalanced'
  <2>1. \A u \in Thread : HoldsRequest(u)' <=> HoldsRequest(u)
    BY DEF TypeOK, HoldsRequest, PlacesOK, StarterPC, WaiterPC
  <2> QED BY <2>1, BalanceSame
<1>2. TypeOK'
  <2>1. mine[Starter(r)] \in Saved
    BY DEF TypeOK, LocalsOK
  <2>2. PICK ok \in BOOLEAN : mine' = [mine EXCEPT ![Starter(r)].applied = ok]
    OBVIOUS
  <2>3. mine'[Starter(r)] \in Saved
    BY <2>1, <2>2 DEF TypeOK, Saved
  <2>4. mine' \in [Thread -> Saved \cup {None}]
    BY <2>2, <2>3 DEF TypeOK
  <2> QED BY <2>4 DEF TypeOK, PC
<1>3. PlacesOK' /\ LocalsOK'
  <2>1. PlacesOK'
    BY DEF TypeOK, PlacesOK, StarterPC, WaiterPC, PC, InCall
  <2>0. mine[Starter(r)] \in Saved
    BY DEF TypeOK, LocalsOK
  <2>6. PICK ok \in BOOLEAN : mine' = [mine EXCEPT ![Starter(r)].applied = ok]
    OBVIOUS
  <2>2. mine'[Starter(r)] \in Saved /\ Starter(r) \in Thread
    BY <2>0, <2>6 DEF TypeOK, Saved
  <2>3. mine'[Starter(r)] # None
    BY <2>2
  <2>4. \A u \in Thread \ {Starter(r)} : mine'[u] = mine[u] /\ pc'[u] = pc[u]
    BY DEF TypeOK
  <2>5. LocalsOK'
    BY <2>3, <2>4 DEF LocalsOK
  <2> QED BY <2>1, <2>5
<1>4. CallOK'
  BY DEF TypeOK, PlacesOK, CallOK, InCall, StarterPC, WaiterPC, PC
<1>5. RunningIsOwned' /\ FinishedHasSummary'
  BY DEF TypeOK, PlacesOK, CallOK, InCall, RunningIsOwned, FinishedHasSummary, PC, Terminal
<1> QED BY <1>1, <1>2, <1>3, <1>4, <1>5

LEMMA ConfirmAwakeKeeps ==
  ASSUME IInv, NEW r \in Run, ConfirmAwake(r)
  PROVE  IInv'
<1> USE ThreadFacts DEF IInv, ConfirmAwake, Goto, Fault, Works, environment, fields, device, sleep, records, history, WriteSummary
<1>1. SleepBalanced'
  <2>1. \A u \in Thread : HoldsRequest(u)' <=> HoldsRequest(u)
    BY DEF TypeOK, HoldsRequest, PlacesOK, StarterPC, WaiterPC
  <2> QED BY <2>1, BalanceSame
<1>2. TypeOK'
  <2>1. mine[Starter(r)] \in Saved
    BY DEF TypeOK, LocalsOK
  <2>2. stayAwake' \in Saved
    BY <2>1 DEF TypeOK, Saved
  <2> QED BY <2>2 DEF TypeOK, PC
<1>3. PlacesOK' /\ LocalsOK'
  BY DEF TypeOK, PlacesOK, LocalsOK, StarterPC, WaiterPC, PC, InCall
<1>4. CallOK'
  BY DEF TypeOK, PlacesOK, CallOK, InCall, StarterPC, WaiterPC, PC
<1>5. RunningIsOwned' /\ FinishedHasSummary'
  BY DEF TypeOK, PlacesOK, CallOK, InCall, RunningIsOwned, FinishedHasSummary, PC, Terminal
<1> QED BY <1>1, <1>2, <1>3, <1>4, <1>5

LEMMA WriteConfigKeeps ==
  ASSUME IInv, NEW r \in Run, WriteConfig(r)
  PROVE  IInv'
<1> USE ThreadFacts DEF IInv, WriteConfig, Goto, Fault, Works, environment, fields, device, sleep, records, history, WriteSummary
<1>1. SleepBalanced'
  <2>1. \A u \in Thread : HoldsRequest(u)' <=> HoldsRequest(u)
    BY DEF TypeOK, HoldsRequest, PlacesOK, StarterPC, WaiterPC
  <2> QED BY <2>1, BalanceSame
<1>2. TypeOK'
  BY <1>1 DEF TypeOK, LocalsOK, PC, Saved, Terminal, Ended
<1>3. PlacesOK' /\ LocalsOK'
  BY DEF TypeOK, PlacesOK, LocalsOK, StarterPC, WaiterPC, PC, InCall
<1>4. CallOK'
  BY DEF TypeOK, PlacesOK, CallOK, InCall, StarterPC, WaiterPC, PC
<1>5. RunningIsOwned' /\ FinishedHasSummary'
  BY DEF TypeOK, PlacesOK, CallOK, InCall, RunningIsOwned, FinishedHasSummary, PC, Terminal
<1> QED BY <1>1, <1>2, <1>3, <1>4, <1>5

LEMMA PrepareBlockedKeeps ==
  ASSUME IInv, NEW r \in Run, PrepareBlocked(r)
  PROVE  IInv'
<1> USE ThreadFacts DEF IInv, PrepareBlocked, Goto, Fault, Works, environment, fields, device, sleep, records, history, WriteSummary
<1>1. SleepBalanced'
  <2>1. \A u \in Thread : HoldsRequest(u)' <=> HoldsRequest(u)
    BY DEF TypeOK, HoldsRequest, PlacesOK, StarterPC, WaiterPC
  <2> QED BY <2>1, BalanceSame
<1>2. TypeOK'
  <2>1. cur \in Run
    BY DEF TypeOK, CallOK
  <2>2. WriteSummary(cur, "error")
    BY DEF PrepareBlocked
  <2> HIDE DEF WriteSummary
  <2> QED BY <1>1, <2>1, <2>2, SummaryTyped DEF TypeOK, LocalsOK, PC, Terminal
<1>3. PlacesOK' /\ LocalsOK'
  BY DEF TypeOK, PlacesOK, LocalsOK, StarterPC, WaiterPC, PC, InCall
<1>4. CallOK'
  BY DEF TypeOK, PlacesOK, CallOK, InCall, StarterPC, WaiterPC, PC
<1>5. RunningIsOwned' /\ FinishedHasSummary'
  BY DEF TypeOK, PlacesOK, CallOK, InCall, RunningIsOwned, FinishedHasSummary, PC, Terminal
<1> QED BY <1>1, <1>2, <1>3, <1>4, <1>5

LEMMA StartRaisesKeeps ==
  ASSUME IInv, NEW r \in Run, StartRaises(r)
  PROVE  IInv'
<1> USE ThreadFacts DEF IInv, StartRaises, Goto, Fault, Works, environment, fields, device, sleep, records, history, WriteSummary
<1>1. SleepBalanced'
  <2>1. \A u \in Thread : HoldsRequest(u)' <=> HoldsRequest(u)
    BY DEF TypeOK, HoldsRequest, PlacesOK, StarterPC, WaiterPC
  <2> QED BY <2>1, BalanceSame
<1>2. TypeOK'
  BY <1>1 DEF TypeOK, LocalsOK, PC, Saved, Terminal, Ended
<1>3. PlacesOK' /\ LocalsOK'
  BY DEF TypeOK, PlacesOK, LocalsOK, StarterPC, WaiterPC, PC, InCall
<1>4. CallOK'
  BY DEF TypeOK, PlacesOK, CallOK, InCall, StarterPC, WaiterPC, PC
<1>5. RunningIsOwned' /\ FinishedHasSummary'
  BY DEF TypeOK, PlacesOK, CallOK, InCall, RunningIsOwned, FinishedHasSummary, PC, Terminal
<1> QED BY <1>1, <1>2, <1>3, <1>4, <1>5

LEMMA LaunchKeeps ==
  ASSUME IInv, NEW r \in Run, Launch(r)
  PROVE  IInv'
<1> USE ThreadFacts DEF IInv, Launch, Goto, Fault, Works, environment, fields, device, sleep, records, history, WriteSummary
<1>1. SleepBalanced'
  <2>1. \A u \in Thread : HoldsRequest(u)' <=> HoldsRequest(u)
    BY DEF TypeOK, HoldsRequest, PlacesOK, StarterPC, WaiterPC
  <2> QED BY <2>1, BalanceSame
<1>2. TypeOK'
  BY <1>1 DEF TypeOK, LocalsOK, PC, Saved, Terminal, Ended
<1>3. PlacesOK' /\ LocalsOK'
  BY DEF TypeOK, PlacesOK, LocalsOK, StarterPC, WaiterPC, PC, InCall
<1>4. CallOK'
  BY DEF TypeOK, PlacesOK, CallOK, InCall, StarterPC, WaiterPC, PC
<1>5. RunningIsOwned' /\ FinishedHasSummary'
  BY DEF TypeOK, PlacesOK, CallOK, InCall, RunningIsOwned, FinishedHasSummary, PC, Terminal
<1> QED BY <1>1, <1>2, <1>3, <1>4, <1>5

LEMMA TeeFailsKeeps ==
  ASSUME IInv, NEW r \in Run, TeeFails(r)
  PROVE  IInv'
<1> USE ThreadFacts DEF IInv, TeeFails, Goto, Fault, Works, environment, fields, device, sleep, records, history, WriteSummary
<1>1. SleepBalanced'
  <2>1. \A u \in Thread : HoldsRequest(u)' <=> HoldsRequest(u)
    BY DEF TypeOK, HoldsRequest, PlacesOK, StarterPC, WaiterPC
  <2> QED BY <2>1, BalanceSame
<1>2. TypeOK'
  BY <1>1 DEF TypeOK, LocalsOK, PC, Saved, Terminal, Ended
<1>3. PlacesOK' /\ LocalsOK'
  BY DEF TypeOK, PlacesOK, LocalsOK, StarterPC, WaiterPC, PC, InCall
<1>4. CallOK'
  BY DEF TypeOK, PlacesOK, CallOK, InCall, StarterPC, WaiterPC, PC
<1>5. RunningIsOwned' /\ FinishedHasSummary'
  BY DEF TypeOK, PlacesOK, CallOK, InCall, RunningIsOwned, FinishedHasSummary, PC, Terminal
<1> QED BY <1>1, <1>2, <1>3, <1>4, <1>5

LEMMA StartWaiterKeeps ==
  ASSUME IInv, NEW r \in Run, StartWaiter(r)
  PROVE  IInv'
<1> USE ThreadFacts DEF IInv, StartWaiter, Goto, Fault, Works, environment, fields, device, sleep, records, history, WriteSummary
<1>1. SleepBalanced'
  <2>1. /\ HoldsRequest(Starter(r)) /\ ~HoldsRequest(Starter(r))'
        /\ ~HoldsRequest(Waiter(r)) /\ HoldsRequest(Waiter(r))'
    BY DEF TypeOK, HoldsRequest, PlacesOK
  <2>2. \A u \in Thread \ {Starter(r), Waiter(r)} : HoldsRequest(u)' <=> HoldsRequest(u)
    BY DEF TypeOK, HoldsRequest
  <2> QED BY <2>1, <2>2, BalanceMove
<1>2. TypeOK'
  BY <1>1 DEF TypeOK, LocalsOK, PC, Saved, Terminal, Ended
<1>3. PlacesOK' /\ LocalsOK'
  BY DEF TypeOK, PlacesOK, LocalsOK, StarterPC, WaiterPC, PC, InCall
<1>4. CallOK'
  BY DEF TypeOK, PlacesOK, CallOK, InCall, StarterPC, WaiterPC, PC
<1>5. RunningIsOwned' /\ FinishedHasSummary'
  BY DEF TypeOK, PlacesOK, CallOK, InCall, RunningIsOwned, FinishedHasSummary, PC, Terminal
<1> QED BY <1>1, <1>2, <1>3, <1>4, <1>5

LEMMA WaiterFailsKeeps ==
  ASSUME IInv, NEW r \in Run, WaiterFails(r)
  PROVE  IInv'
<1> USE ThreadFacts DEF IInv, WaiterFails, Goto, Fault, Works, environment, fields, device, sleep, records, history, WriteSummary
<1>1. SleepBalanced'
  <2>1. \A u \in Thread : HoldsRequest(u)' <=> HoldsRequest(u)
    BY DEF TypeOK, HoldsRequest, PlacesOK, StarterPC, WaiterPC
  <2> QED BY <2>1, BalanceSame
<1>2. TypeOK'
  BY <1>1 DEF TypeOK, LocalsOK, PC, Saved, Terminal, Ended
<1>3. PlacesOK' /\ LocalsOK'
  BY DEF TypeOK, PlacesOK, LocalsOK, StarterPC, WaiterPC, PC, InCall
<1>4. CallOK'
  BY DEF TypeOK, PlacesOK, CallOK, InCall, StarterPC, WaiterPC, PC
<1>5. RunningIsOwned' /\ FinishedHasSummary'
  BY DEF TypeOK, PlacesOK, CallOK, InCall, RunningIsOwned, FinishedHasSummary, PC, Terminal
<1> QED BY <1>1, <1>2, <1>3, <1>4, <1>5

LEMMA AbandonRunKeeps ==
  ASSUME IInv, NEW r \in Run, AbandonRun(r)
  PROVE  IInv'
<1> USE ThreadFacts DEF IInv, AbandonRun, Goto, Fault, Works, environment, fields, device, sleep, records, history, WriteSummary
<1>1. SleepBalanced'
  <2>1. r \notin leaked /\ HoldsRequest(Starter(r)) /\ ~HoldsRequest(Starter(r))'
    BY DEF PlacesOK, TypeOK, HoldsRequest
  <2>2. \A u \in Thread \ {Starter(r)} : HoldsRequest(u)' <=> HoldsRequest(u)
    BY DEF TypeOK, HoldsRequest
  <2> QED BY <2>1, <2>2, BalanceLeak
<1>2. TypeOK'
  BY <1>1 DEF TypeOK, LocalsOK, PC, Saved, Terminal, Ended
<1>3. PlacesOK' /\ LocalsOK'
  BY DEF TypeOK, PlacesOK, LocalsOK, StarterPC, WaiterPC, PC, InCall
<1>4. CallOK'
  BY DEF TypeOK, PlacesOK, CallOK, InCall, StarterPC, WaiterPC, PC
<1>5. RunningIsOwned' /\ FinishedHasSummary'
  BY DEF TypeOK, PlacesOK, CallOK, InCall, RunningIsOwned, FinishedHasSummary, PC, Terminal
<1> QED BY <1>1, <1>2, <1>3, <1>4, <1>5

LEMMA ReturnFailedKeeps ==
  ASSUME IInv, NEW r \in Run, ReturnFailed(r)
  PROVE  IInv'
<1> USE ThreadFacts DEF IInv, ReturnFailed, Goto, Fault, Works, environment, fields, device, sleep, records, history, WriteSummary
<1>1. SleepBalanced' /\ requests' \in Nat
  <2>1. HoldsRequest(Starter(r)) /\ ~HoldsRequest(Starter(r))'
    BY DEF TypeOK, HoldsRequest
  <2>2. \A u \in Thread \ {Starter(r)} : HoldsRequest(u)' <=> HoldsRequest(u)
    BY DEF TypeOK, HoldsRequest
  <2> QED BY <2>1, <2>2, BalanceRemove
<1>2. TypeOK'
  BY <1>1 DEF TypeOK, LocalsOK, DisableSleepPrevention, PC, Saved, Terminal, Ended
<1>3. PlacesOK' /\ LocalsOK'
  BY DEF TypeOK, PlacesOK, LocalsOK, StarterPC, WaiterPC, PC, InCall
<1>4. CallOK'
  BY DEF TypeOK, PlacesOK, CallOK, InCall, StarterPC, WaiterPC, PC
<1>5. RunningIsOwned' /\ FinishedHasSummary'
  BY DEF TypeOK, PlacesOK, CallOK, InCall, RunningIsOwned, FinishedHasSummary, PC, Terminal
<1> QED BY <1>1, <1>2, <1>3, <1>4, <1>5

LEMMA ChildExitsKeeps ==
  ASSUME IInv, NEW r \in Run, ChildExits(r)
  PROVE  IInv'
<1> USE ThreadFacts DEF IInv, ChildExits, Goto, Fault, Works, environment, fields, device, sleep, records, history, WriteSummary
<1>1. SleepBalanced'
  <2>1. \A u \in Thread : HoldsRequest(u)' <=> HoldsRequest(u)
    BY DEF TypeOK, HoldsRequest, PlacesOK, StarterPC, WaiterPC
  <2> QED BY <2>1, BalanceSame
<1>2. TypeOK'
  BY <1>1 DEF TypeOK, LocalsOK, PC, Saved, Terminal, Ended
<1>3. PlacesOK' /\ LocalsOK'
  BY DEF TypeOK, PlacesOK, LocalsOK, StarterPC, WaiterPC, PC, InCall
<1>4. CallOK'
  BY DEF TypeOK, PlacesOK, CallOK, InCall, StarterPC, WaiterPC, PC
<1>5. RunningIsOwned' /\ FinishedHasSummary'
  BY DEF TypeOK, PlacesOK, CallOK, InCall, RunningIsOwned, FinishedHasSummary, PC, Terminal
<1> QED BY <1>1, <1>2, <1>3, <1>4, <1>5

LEMMA TerminateKeeps ==
  ASSUME IInv, NEW r \in Run, Terminate(r)
  PROVE  IInv'
<1> USE ThreadFacts DEF IInv, Terminate, Goto, Fault, Works, environment, fields, device, sleep, records, history, WriteSummary
<1>1. SleepBalanced'
  <2>1. \A u \in Thread : HoldsRequest(u)' <=> HoldsRequest(u)
    BY DEF TypeOK, HoldsRequest, PlacesOK, StarterPC, WaiterPC
  <2> QED BY <2>1, BalanceSame
<1>2. TypeOK'
  BY <1>1 DEF TypeOK, LocalsOK, PC, Saved, Terminal, Ended
<1>3. PlacesOK' /\ LocalsOK'
  BY DEF TypeOK, PlacesOK, LocalsOK, StarterPC, WaiterPC, PC, InCall
<1>4. CallOK'
  BY DEF TypeOK, PlacesOK, CallOK, InCall, StarterPC, WaiterPC, PC
<1>5. RunningIsOwned' /\ FinishedHasSummary'
  BY DEF TypeOK, PlacesOK, CallOK, InCall, RunningIsOwned, FinishedHasSummary, PC, Terminal
<1> QED BY <1>1, <1>2, <1>3, <1>4, <1>5

LEMMA ChildSeenKeeps ==
  ASSUME IInv, NEW r \in Run, ChildSeen(r)
  PROVE  IInv'
<1> USE ThreadFacts DEF IInv, ChildSeen, Goto, Fault, Works, environment, fields, device, sleep, records, history, WriteSummary
<1>1. SleepBalanced'
  <2>1. \A u \in Thread : HoldsRequest(u)' <=> HoldsRequest(u)
    BY DEF TypeOK, HoldsRequest, PlacesOK, StarterPC, WaiterPC
  <2> QED BY <2>1, BalanceSame
<1>2. TypeOK'
  BY <1>1 DEF TypeOK, LocalsOK, PC, Saved, Terminal, Ended
<1>3. PlacesOK' /\ LocalsOK'
  BY DEF TypeOK, PlacesOK, LocalsOK, StarterPC, WaiterPC, PC, InCall
<1>4. CallOK'
  BY DEF TypeOK, PlacesOK, CallOK, InCall, StarterPC, WaiterPC, PC
<1>5. RunningIsOwned' /\ FinishedHasSummary'
  BY DEF TypeOK, PlacesOK, CallOK, InCall, RunningIsOwned, FinishedHasSummary, PC, Terminal
<1> QED BY <1>1, <1>2, <1>3, <1>4, <1>5

LEMMA WaitRaisesKeeps ==
  ASSUME IInv, NEW r \in Run, WaitRaises(r)
  PROVE  IInv'
<1> USE ThreadFacts DEF IInv, WaitRaises, Goto, Fault, Works, environment, fields, device, sleep, records, history, WriteSummary
<1>1. SleepBalanced'
  <2>1. \A u \in Thread : HoldsRequest(u)' <=> HoldsRequest(u)
    BY DEF TypeOK, HoldsRequest, PlacesOK, StarterPC, WaiterPC
  <2> QED BY <2>1, BalanceSame
<1>2. TypeOK'
  BY <1>1 DEF TypeOK, LocalsOK, PC, Saved, Terminal, Ended
<1>3. PlacesOK' /\ LocalsOK'
  BY DEF TypeOK, PlacesOK, LocalsOK, StarterPC, WaiterPC, PC, InCall
<1>4. CallOK'
  BY DEF TypeOK, PlacesOK, CallOK, InCall, StarterPC, WaiterPC, PC
<1>5. RunningIsOwned' /\ FinishedHasSummary'
  BY DEF TypeOK, PlacesOK, CallOK, InCall, RunningIsOwned, FinishedHasSummary, PC, Terminal
<1> QED BY <1>1, <1>2, <1>3, <1>4, <1>5

LEMMA ShadowValidationKeeps ==
  ASSUME IInv, NEW r \in Run, ShadowValidation(r)
  PROVE  IInv'
<1> USE ThreadFacts DEF IInv, ShadowValidation, Goto, Fault, Works, environment, fields, device, sleep, records, history, WriteSummary
<1>1. SleepBalanced'
  <2>1. \A u \in Thread : HoldsRequest(u)' <=> HoldsRequest(u)
    BY DEF TypeOK, HoldsRequest, PlacesOK, StarterPC, WaiterPC
  <2> QED BY <2>1, BalanceSame
<1>2. TypeOK'
  BY <1>1 DEF TypeOK, LocalsOK, PC, Saved, Terminal, Ended
<1>3. PlacesOK' /\ LocalsOK'
  BY DEF TypeOK, PlacesOK, LocalsOK, StarterPC, WaiterPC, PC, InCall
<1>4. CallOK'
  BY DEF TypeOK, PlacesOK, CallOK, InCall, StarterPC, WaiterPC, PC
<1>5. RunningIsOwned' /\ FinishedHasSummary'
  BY DEF TypeOK, PlacesOK, CallOK, InCall, RunningIsOwned, FinishedHasSummary, PC, Terminal
<1> QED BY <1>1, <1>2, <1>3, <1>4, <1>5

LEMMA WaiterDisablesKeeps ==
  ASSUME IInv, NEW r \in Run, WaiterDisables(r)
  PROVE  IInv'
<1> USE ThreadFacts DEF IInv, WaiterDisables, Goto, Fault, Works, environment, fields, device, sleep, records, history, WriteSummary
<1>1. SleepBalanced' /\ requests' \in Nat
  <2>1. HoldsRequest(Waiter(r)) /\ ~HoldsRequest(Waiter(r))'
    BY DEF TypeOK, HoldsRequest
  <2>2. \A u \in Thread \ {Waiter(r)} : HoldsRequest(u)' <=> HoldsRequest(u)
    BY DEF TypeOK, HoldsRequest
  <2> QED BY <2>1, <2>2, BalanceRemove
<1>2. TypeOK'
  BY <1>1 DEF TypeOK, LocalsOK, DisableSleepPrevention, PC, Saved, Terminal, Ended
<1>3. PlacesOK' /\ LocalsOK'
  BY DEF TypeOK, PlacesOK, LocalsOK, StarterPC, WaiterPC, PC, InCall
<1>4. CallOK'
  BY DEF TypeOK, PlacesOK, CallOK, InCall, StarterPC, WaiterPC, PC
<1>5. RunningIsOwned' /\ FinishedHasSummary'
  BY DEF TypeOK, PlacesOK, CallOK, InCall, RunningIsOwned, FinishedHasSummary, PC, Terminal
<1> QED BY <1>1, <1>2, <1>3, <1>4, <1>5

LEMMA FinishKeeps ==
  ASSUME IInv, NEW r \in Run, Finish(r)
  PROVE  IInv'
<1> USE ThreadFacts DEF IInv, Finish, Goto, Fault, Works, environment, fields, device, sleep, records, history, WriteSummary, RecordEnd, Outcome
<1>1. SleepBalanced'
  <2>1. \A u \in Thread : HoldsRequest(u)' <=> HoldsRequest(u)
    BY DEF TypeOK, HoldsRequest, PlacesOK, StarterPC, WaiterPC
  <2> QED BY <2>1, BalanceSame
<1>2. TypeOK'
  <2> HIDE DEF WriteSummary
  <2>1. state' \in Terminal \/ (process # r /\ state' = state)
    BY DEF Terminal
  <2>2. CASE process = r
    <3>1. cur \in Run /\ WriteSummary(cur, state')
      BY <2>2 DEF TypeOK, CallOK
    <3> QED BY <2>1, <2>2, <3>1, SummaryTyped DEF TypeOK, PC
  <2>3. CASE process # r
    BY <2>1, <2>3 DEF TypeOK, PC
  <2> QED BY <2>2, <2>3
<1>3. PlacesOK' /\ LocalsOK'
  BY DEF TypeOK, PlacesOK, LocalsOK, StarterPC, WaiterPC, PC, InCall
<1>4. CallOK'
  BY DEF TypeOK, PlacesOK, CallOK, InCall, StarterPC, WaiterPC, PC
<1>5. RunningIsOwned' /\ FinishedHasSummary'
  BY DEF TypeOK, PlacesOK, CallOK, InCall, RunningIsOwned, FinishedHasSummary, PC, Terminal
<1> QED BY <1>1, <1>2, <1>3, <1>4, <1>5

LEMMA TakeStayAwakeKeeps ==
  ASSUME IInv, NEW t \in Thread, TakeStayAwake(t)
  PROVE  IInv'
<1> USE ThreadFacts DEF IInv, TakeStayAwake, Goto, Fault, Works, environment, fields, device, sleep, records, history, WriteSummary
<1>1. SleepBalanced'
  <2>1. \A u \in Thread : HoldsRequest(u)' <=> HoldsRequest(u)
    BY DEF TypeOK, HoldsRequest, PlacesOK, StarterPC, WaiterPC
  <2> QED BY <2>1, BalanceSame
<1>2. TypeOK'
  BY <1>1 DEF TypeOK, LocalsOK, PC, Saved, Terminal, Ended
<1>3. PlacesOK' /\ LocalsOK'
  BY DEF TypeOK, PlacesOK, LocalsOK, StarterPC, WaiterPC, PC, InCall
<1>4. CallOK'
  BY DEF TypeOK, PlacesOK, CallOK, InCall, StarterPC, WaiterPC, PC
<1>5. RunningIsOwned' /\ FinishedHasSummary'
  BY DEF TypeOK, PlacesOK, CallOK, InCall, RunningIsOwned, FinishedHasSummary, PC, Terminal
<1> QED BY <1>1, <1>2, <1>3, <1>4, <1>5

LEMMA ClearStayAwakeKeeps ==
  ASSUME IInv, NEW t \in Thread, ClearStayAwake(t)
  PROVE  IInv'
<1> USE ThreadFacts DEF IInv, ClearStayAwake, Goto, Fault, Works, environment, fields, device, sleep, records, history, WriteSummary
<1>1. SleepBalanced'
  <2>1. \A u \in Thread : HoldsRequest(u)' <=> HoldsRequest(u)
    BY DEF TypeOK, HoldsRequest, PlacesOK, StarterPC, WaiterPC
  <2> QED BY <2>1, BalanceSame
<1>2. TypeOK'
  BY <1>1 DEF TypeOK, LocalsOK, PC, Saved, Terminal, Ended
<1>3. PlacesOK' /\ LocalsOK'
  BY DEF TypeOK, PlacesOK, LocalsOK, StarterPC, WaiterPC, PC, InCall
<1>4. CallOK'
  BY DEF TypeOK, PlacesOK, CallOK, InCall, StarterPC, WaiterPC, PC
<1>5. RunningIsOwned' /\ FinishedHasSummary'
  BY DEF TypeOK, PlacesOK, CallOK, InCall, RunningIsOwned, FinishedHasSummary, PC, Terminal
<1> QED BY <1>1, <1>2, <1>3, <1>4, <1>5

LEMMA CheckSettingKeeps ==
  ASSUME IInv, NEW t \in Thread, CheckSetting(t)
  PROVE  IInv'
<1> USE ThreadFacts DEF IInv, CheckSetting, Goto, Fault, Works, environment, fields, device, sleep, records, history, WriteSummary
<1>1. SleepBalanced'
  <2>1. \A u \in Thread : HoldsRequest(u)' <=> HoldsRequest(u)
    BY DEF TypeOK, HoldsRequest, PlacesOK, StarterPC, WaiterPC
  <2> QED BY <2>1, BalanceSame
<1>2. TypeOK'
  BY <1>1 DEF TypeOK, LocalsOK, PC, Saved, Terminal, Ended
<1>3. PlacesOK' /\ LocalsOK'
  BY DEF TypeOK, PlacesOK, LocalsOK, StarterPC, WaiterPC, PC, InCall
<1>4. CallOK'
  BY DEF TypeOK, PlacesOK, CallOK, InCall, StarterPC, WaiterPC, PC
<1>5. RunningIsOwned' /\ FinishedHasSummary'
  BY DEF TypeOK, PlacesOK, CallOK, InCall, RunningIsOwned, FinishedHasSummary, PC, Terminal
<1> QED BY <1>1, <1>2, <1>3, <1>4, <1>5

LEMMA PutOriginalKeeps ==
  ASSUME IInv, NEW t \in Thread, PutOriginal(t)
  PROVE  IInv'
<1> USE ThreadFacts DEF IInv, PutOriginal, Goto, Fault, Works, environment, fields, device, sleep, records, history, WriteSummary
<1>1. SleepBalanced'
  <2>1. \A u \in Thread : HoldsRequest(u)' <=> HoldsRequest(u)
    BY DEF TypeOK, HoldsRequest, PlacesOK, StarterPC, WaiterPC
  <2> QED BY <2>1, BalanceSame
<1>2. TypeOK'
  BY <1>1 DEF TypeOK, LocalsOK, PC, Saved, Terminal, Ended
<1>3. PlacesOK' /\ LocalsOK'
  BY DEF TypeOK, PlacesOK, LocalsOK, StarterPC, WaiterPC, PC, InCall
<1>4. CallOK'
  BY DEF TypeOK, PlacesOK, CallOK, InCall, StarterPC, WaiterPC, PC
<1>5. RunningIsOwned' /\ FinishedHasSummary'
  BY DEF TypeOK, PlacesOK, CallOK, InCall, RunningIsOwned, FinishedHasSummary, PC, Terminal
<1> QED BY <1>1, <1>2, <1>3, <1>4, <1>5

LEMMA StopKeeps ==
  ASSUME IInv, Stop
  PROVE  IInv'
<1> USE ThreadFacts DEF IInv, Stop, Goto, Fault, Works, environment, fields, device, sleep, records, history, WriteSummary
<1>1. SleepBalanced'
  <2>1. \A u \in Thread : HoldsRequest(u)' <=> HoldsRequest(u)
    BY DEF TypeOK, HoldsRequest, PlacesOK, StarterPC, WaiterPC
  <2> QED BY <2>1, BalanceSame
<1>2. TypeOK'
  BY <1>1 DEF TypeOK, LocalsOK, PC, Saved, Terminal, Ended
<1>3. PlacesOK' /\ LocalsOK'
  BY DEF TypeOK, PlacesOK, LocalsOK, StarterPC, WaiterPC, PC, InCall
<1>4. CallOK'
  BY DEF TypeOK, PlacesOK, CallOK, InCall, StarterPC, WaiterPC, PC
<1>5. RunningIsOwned' /\ FinishedHasSummary'
  BY DEF TypeOK, PlacesOK, CallOK, InCall, RunningIsOwned, FinishedHasSummary, PC, Terminal
<1> QED BY <1>1, <1>2, <1>3, <1>4, <1>5

LEMMA ChangeSettingKeeps ==
  ASSUME IInv, ChangeSetting
  PROVE  IInv'
<1> USE ThreadFacts DEF IInv, ChangeSetting, Goto, Fault, Works, environment, fields, device, sleep, records, history, WriteSummary
<1>1. SleepBalanced'
  <2>1. \A u \in Thread : HoldsRequest(u)' <=> HoldsRequest(u)
    BY DEF TypeOK, HoldsRequest, PlacesOK, StarterPC, WaiterPC
  <2> QED BY <2>1, BalanceSame
<1>2. TypeOK'
  BY <1>1 DEF TypeOK, LocalsOK, PC, Saved, Terminal, Ended
<1>3. PlacesOK' /\ LocalsOK'
  BY DEF TypeOK, PlacesOK, LocalsOK, StarterPC, WaiterPC, PC, InCall
<1>4. CallOK'
  BY DEF TypeOK, PlacesOK, CallOK, InCall, StarterPC, WaiterPC, PC
<1>5. RunningIsOwned' /\ FinishedHasSummary'
  BY DEF TypeOK, PlacesOK, CallOK, InCall, RunningIsOwned, FinishedHasSummary, PC, Terminal
<1> QED BY <1>1, <1>2, <1>3, <1>4, <1>5

LEMMA StutterKeeps ==
  ASSUME IInv, UNCHANGED vars
  PROVE  IInv'
<1> USE DEF IInv, vars, fields, device, sleep, records, history, environment
<1>1. SleepBalanced'
  <2>1. \A u \in Thread : HoldsRequest(u)' <=> HoldsRequest(u)
    BY DEF HoldsRequest
  <2> QED BY <2>1, BalanceSame
<1>2. TypeOK' /\ PlacesOK' /\ LocalsOK' /\ CallOK'
  BY DEF TypeOK, PlacesOK, LocalsOK, CallOK, InCall
<1>3. RunningIsOwned' /\ FinishedHasSummary'
  BY DEF RunningIsOwned, FinishedHasSummary
<1> QED BY <1>1, <1>2, <1>3

LEMMA StepKeeps ==
  ASSUME IInv, [Next]_vars
  PROVE  IInv'
<1>1. ASSUME NEW r \in Run, Begin(r) \/ StartRun(r)
      PROVE  IInv'
  BY <1>1, BeginKeeps, NoScenarioKeeps, OpenLogKeeps, EnableSleepPreventionKeeps,
     ReadOriginalKeeps, ApplyAwakeKeeps, ConfirmAwakeKeeps, WriteConfigKeeps,
     PrepareBlockedKeeps, LaunchKeeps, StartWaiterKeeps, ReturnFailedKeeps, Zenon
  DEF StartRun
<1>2. ASSUME NEW r \in Run, Raises(r)
      PROVE  IInv'
  BY <1>2, OpenRaisesKeeps, KeeperFailsKeeps, StartRaisesKeeps, TeeFailsKeeps,
     WaiterFailsKeeps, AbandonRunKeeps, WaitRaisesKeeps, Zenon DEF Raises
<1>3. ASSUME NEW r \in Run, ChildExits(r) \/ Terminate(r) \/ WaitForProcess(r)
      PROVE  IInv'
  BY <1>3, ChildExitsKeeps, TerminateKeeps, ChildSeenKeeps, ShadowValidationKeeps,
     WaiterDisablesKeeps, FinishKeeps, Zenon DEF WaitForProcess
<1>4. ASSUME NEW t \in Thread, Restore(t)
      PROVE  IInv'
  BY <1>4, TakeStayAwakeKeeps, ClearStayAwakeKeeps, CheckSettingKeeps, PutOriginalKeeps,
     Zenon DEF Restore
<1> QED BY <1>1, <1>2, <1>3, <1>4, StopKeeps, ChangeSettingKeeps, StutterKeeps, Zenon
        DEF Next

-----------------------------------------------------------------------------
(* The theorems.                                                           *)

\* The invariant of start_run, stop_run and _wait_for_process as they
\* interleave, with any calls raising.
THEOREM RunManagerInvariant == Spec => []IInv
<1>1. Init => IInv
  BY InitOK
<1>2. IInv /\ [Next]_vars => IInv'
  BY StepKeeps
<1> QED BY <1>1, <1>2, PTL DEF Spec

\* The manager's variables keep their types; the count of sleep prevention
\* requests never becomes negative.
THEOREM RunManagerTypes == Spec => []TypeOK
BY RunManagerInvariant, PTL DEF IInv

\* Every request for sleep prevention has a start or a waiter that will
\* release it (start_run's failure paths, _wait_for_process's finally).
THEOREM SleepBalancedHolds == Spec => []SleepBalanced
BY RunManagerInvariant, PTL DEF IInv

\* A status of "running" has a waiter that will replace it (_wait_for_process).
THEOREM RunningIsOwnedHolds == Spec => []RunningIsOwned
BY RunManagerInvariant, PTL DEF IInv

\* A status of "finished" comes with the summary (_wait_for_process).
THEOREM FinishedHasSummaryHolds == Spec => []FinishedHasSummary
BY RunManagerInvariant, PTL DEF IInv

\* Until the next start, a stop is final (stop_run, _wait_for_process).
THEOREM StopIsFinalHolds == Spec => StopIsFinal
<1>1. ASSUME IInv, [Next]_vars
      PROVE  [state = "stopped" /\ lock = None /\ lock' = None => state' = "stopped"]_vars
  <2> SUFFICES ASSUME Next, state = "stopped", lock = None, lock' = None
               PROVE  state' = "stopped"
    BY <1>1
  <2> USE <1>1 DEF IInv
  <2>0. \A r \in Run : pc[Starter(r)] \in {"idle", "done"}
    BY DEF PlacesOK, InCall
  <2>1. ASSUME NEW r \in Run, Begin(r) \/ StartRun(r)
        PROVE  FALSE
    BY <2>0, <2>1 DEF Begin, StartRun, Goto, NoScenario, OpenLog, EnableSleepPrevention,
       ReadOriginal, ApplyAwake, ConfirmAwake, WriteConfig, PrepareBlocked, Launch,
       StartWaiter, ReturnFailed
  <2>2. ASSUME NEW r \in Run, Raises(r)
        PROVE  state' = "stopped"
    BY <2>0, <2>2 DEF Raises, Goto, OpenRaises, KeeperFails, StartRaises, TeeFails, WaiterFails,
       AbandonRun, WaitRaises
  <2>3. ASSUME NEW r \in Run, ChildExits(r) \/ Terminate(r) \/ WaitForProcess(r)
        PROVE  state' = "stopped"
    BY <2>3 DEF ChildExits, Terminate, WaitForProcess, ChildSeen, ShadowValidation,
       WaiterDisables, Finish, RecordEnd
  <2>4. ASSUME NEW t \in Thread, Restore(t)
        PROVE  state' = "stopped"
    BY <2>4 DEF Restore, TakeStayAwake, ClearStayAwake, CheckSetting, PutOriginal
  <2>5. CASE Stop \/ ChangeSetting
    BY <2>5 DEF Stop, ChangeSetting
  <2> QED BY <2>1, <2>2, <2>3, <2>4, <2>5 DEF Next
<1> QED BY <1>1, RunManagerInvariant, PTL DEF Spec, StopIsFinal

\* A child that is looked after is the manager's own.
LEMMA ChildrenInvariant == Spec => []ChildrenOK
<1>1. Init => ChildrenOK
  BY ThreadFacts DEF Init, ChildrenOK, InCall, Attended
<1>2. ASSUME IInv, ChildrenOK, [Next]_vars
      PROVE  ChildrenOK'
  <2> USE <1>2, ThreadFacts DEF IInv, ChildrenOK, InCall, Goto, Attended
  <2>1. ASSUME NEW r \in Run, Begin(r) \/ StartRun(r)
        PROVE  ChildrenOK'
    <3>1. ASSUME Begin(r) PROVE ChildrenOK'
      BY <3>1 DEF Begin, TypeOK, PlacesOK
    <3>2. ASSUME Launch(r) PROVE ChildrenOK'
      BY <3>2 DEF Launch, fields, TypeOK, PlacesOK
    <3>3. ASSUME StartWaiter(r) PROVE ChildrenOK'
      BY <3>3 DEF StartWaiter, fields, TypeOK, PlacesOK
    <3>4. ASSUME \/ NoScenario(r) \/ OpenLog(r) \/ EnableSleepPrevention(r) \/ ReadOriginal(r)
                 \/ ApplyAwake(r) \/ ConfirmAwake(r) \/ WriteConfig(r)
          PROVE  ChildrenOK'
      BY <3>4 DEF NoScenario, OpenLog, EnableSleepPrevention, ReadOriginal, ApplyAwake,
                  ConfirmAwake, WriteConfig, fields, TypeOK
    <3>5. ASSUME PrepareBlocked(r) \/ ReturnFailed(r)
          PROVE  ChildrenOK'
      BY <3>5 DEF PrepareBlocked, ReturnFailed, fields, TypeOK, PlacesOK
    <3> QED BY <2>1, <3>1, <3>2, <3>3, <3>4, <3>5 DEF StartRun
  <2>2. ASSUME NEW r \in Run, Raises(r)
        PROVE  ChildrenOK'
    <3>1. ASSUME OpenRaises(r) PROVE ChildrenOK'
      BY <3>1 DEF OpenRaises, TypeOK, PlacesOK
    <3>2. ASSUME StartRaises(r) PROVE ChildrenOK'
      BY <3>2 DEF StartRaises, fields, TypeOK, PlacesOK
    <3>3. ASSUME TeeFails(r) PROVE ChildrenOK'
      BY <3>3 DEF TeeFails, fields, TypeOK, PlacesOK
    <3>4. ASSUME WaiterFails(r) PROVE ChildrenOK'
      <4>1. /\ pc[Starter(r)] = "wire" /\ pc' = [pc EXCEPT ![Starter(r)] = "take"]
            /\ child' = child
        BY <3>4 DEF WaiterFails
      <4>2. process = r
        BY <4>1 DEF CallOK
      <4>3. pc'[Starter(r)] = "take" /\ pc'[Waiter(r)] = "idle"
        BY <4>1 DEF TypeOK, PlacesOK
      <4>4. \A s \in Run \ {r} : pc'[Waiter(s)] = pc[Waiter(s)] /\ pc'[Starter(s)] = pc[Starter(s)]
        BY <4>1 DEF TypeOK
      <4>5. \A s \in Run : ~Attended(s)'
        BY <4>1, <4>2, <4>3, <4>4
      <4> QED BY <4>5
    <3>5. ASSUME WaitRaises(r) PROVE ChildrenOK'
      BY <3>5 DEF WaitRaises, fields, TypeOK, Ended
    <3>6. ASSUME KeeperFails(r) PROVE ChildrenOK'
      BY <3>6 DEF KeeperFails, TypeOK, PlacesOK
    <3>7. ASSUME AbandonRun(r) PROVE ChildrenOK'
      <4>1. process = r /\ process' = r /\ child' = child
        BY <3>7 DEF AbandonRun, CallOK, fields
      <4>2. pc'[Starter(r)] = "done" /\ pc'[Waiter(r)] = "idle"
        BY <3>7 DEF AbandonRun, TypeOK, PlacesOK
      <4>3. \A s \in Run \ {r} : pc'[Waiter(s)] = pc[Waiter(s)] /\ pc'[Starter(s)] = pc[Starter(s)]
        BY <3>7 DEF AbandonRun, TypeOK
      <4>4. \A s \in Run : ~Attended(s)'
        BY <4>1, <4>2, <4>3
      <4> QED BY <4>4
    <3> QED BY <2>2, <3>1, <3>2, <3>3, <3>4, <3>5, <3>6, <3>7 DEF Raises
  <2>3. ASSUME NEW r \in Run, ChildExits(r) \/ Terminate(r)
        PROVE  ChildrenOK'
    BY <2>3 DEF ChildExits, Terminate, TypeOK, Ended
  <2>4. ASSUME NEW r \in Run, WaitForProcess(r)
        PROVE  ChildrenOK'
    BY <2>4 DEF WaitForProcess, ChildSeen, ShadowValidation, WaiterDisables, Finish, fields,
                TypeOK
  <2>5. ASSUME NEW t \in Thread, Restore(t)
        PROVE  ChildrenOK'
    BY <2>5 DEF Restore, TakeStayAwake, ClearStayAwake, CheckSetting, PutOriginal, TypeOK
  <2>6. CASE Stop \/ ChangeSetting
    BY <2>6 DEF Stop, ChangeSetting
  <2>7. CASE UNCHANGED vars
    BY <2>7 DEF vars
  <2> QED BY <2>1, <2>2, <2>3, <2>4, <2>5, <2>6, <2>7 DEF Next
<1> QED BY <1>1, <1>2, RunManagerInvariant, PTL DEF Spec

\* At most one child that is looked after drives the device, for any number of
\* runs and whatever fails (start_run's poll check).
THEOREM OneChildHolds == Spec => []OneChild
<1>1. ChildrenOK => OneChild
  BY DEF ChildrenOK, OneChild
<1> QED BY <1>1, ChildrenInvariant, PTL

-----------------------------------------------------------------------------
(* The device is restored when nothing fails, nobody else touches the       *)
(* setting and no start overtakes a waiter.                                 *)

Clean == ~overlap /\ faults = 0 /\ outside = 0

InUse(t) == pc[t] \notin {"idle", "done"}

\* What was saved lets a restore put the original back.
On(saved) ==
  /\ saved # None /\ saved.known /\ saved.applied /\ saved.value = Awake
  /\ saved.original # Awake
  /\ setting = Awake

\* What the thread that is in use knows of the setting, by its place.
AtPlace(t) ==
  /\ pc[t] \in {"open", "enable", "read", "apply", "disable", "finish"} => setting # Awake
  /\ pc[t] \in {"apply", "confirm"} => mine[t].known /\ mine[t].original # Awake
  /\ pc[t] = "confirm" => mine[t].applied /\ setting = Awake
  /\ pc[t] \in {"configure", "prepare", "wire", "wait", "shadow", "take"} => On(stayAwake)
  /\ pc[t] \in {"clear", "check"} => On(mine[t])
  /\ pc[t] = "put" => mine[t].original # Awake

AwakeOK ==
  /\ \A t, u \in Thread : InUse(t) /\ InUse(u) => t = u
  /\ \A t \in Thread : AtPlace(t)
  /\ ~Busy => setting # Awake

AwakeInv == Clean => AwakeOK

\* A step of the one thread in use is judged by what it leaves for itself.
LEMMA AloneMoves ==
  ASSUME IInv, AwakeOK, NEW t \in Thread, InUse(t), NEW there \in PC \ {"idle"},
         pc' = [pc EXCEPT ![t] = there], AtPlace(t)', there = "done" => setting' # Awake
  PROVE  AwakeOK'
<1>1. \A u \in Thread : u # t => pc'[u] \in {"idle", "done"}
  BY DEF IInv, TypeOK, AwakeOK, InUse
<1>2. pc'[t] = there
  BY DEF IInv, TypeOK
<1>3. \A u \in Thread : AtPlace(u)'
  BY <1>1 DEF AtPlace
<1>4. ~Busy' => setting' # Awake
  BY <1>2 DEF Busy
<1> QED BY <1>1, <1>3, <1>4 DEF AwakeOK, InUse

\* A clean step was taken from a clean state, and is no fault.
LEMMA CleanBefore ==
  ASSUME IInv, Clean', [Next]_vars
  PROVE  Clean /\ ~Fault
<1> USE DEF IInv, TypeOK, Clean, Fault, Works, environment
<1>1. ASSUME NEW r \in Run, Begin(r)
      PROVE  Clean
  BY <1>1 DEF Begin
<1>2. ASSUME NEW r \in Run, StartRun(r)
      PROVE  Clean
  BY <1>2 DEF StartRun, NoScenario, OpenLog, EnableSleepPrevention, ReadOriginal, ApplyAwake,
     ConfirmAwake, WriteConfig, PrepareBlocked, WriteSummary, Launch, StartWaiter, ReturnFailed
<1>3. ASSUME NEW r \in Run, Raises(r)
      PROVE  Clean
  BY <1>3 DEF Raises, OpenRaises, KeeperFails, StartRaises, TeeFails, WaiterFails,
     AbandonRun, WaitRaises
<1>4. ASSUME NEW r \in Run, ChildExits(r) \/ Terminate(r) \/ WaitForProcess(r)
      PROVE  Clean
  BY <1>4 DEF ChildExits, Terminate, WaitForProcess, ChildSeen, ShadowValidation,
     WaiterDisables, Finish, RecordEnd, WriteSummary
<1>5. ASSUME NEW t \in Thread, Restore(t)
      PROVE  Clean
  BY <1>5 DEF Restore, TakeStayAwake, ClearStayAwake, CheckSetting, PutOriginal
<1>6. CASE Stop \/ ChangeSetting
  BY <1>6 DEF Stop, ChangeSetting
<1>7. CASE UNCHANGED vars
  BY <1>7 DEF vars
<1>8. ~Fault
  OBVIOUS
<1> QED BY <1>1, <1>2, <1>3, <1>4, <1>5, <1>6, <1>7, <1>8 DEF Next

\* A start that begins alone finds the setting as it was.
LEMMA BeginAlone ==
  ASSUME IInv, AwakeOK, NEW r \in Run, Begin(r), Clean'
  PROVE  AwakeOK'
<1>1. ~Busy
  BY DEF Begin, Clean, IInv, TypeOK
<1>2. pc' = [pc EXCEPT ![Starter(r)] = "open"] /\ Starter(r) \in Thread /\ setting' = setting
  BY ThreadFacts DEF Begin, Goto, device
<1>3. \A t \in Thread : pc[t] \in {"idle", "done"}
  BY <1>1 DEF Busy
<1>4. \A t \in Thread : t # Starter(r) => pc'[t] \in {"idle", "done"}
  BY <1>2, <1>3 DEF IInv, TypeOK
<1>5. pc'[Starter(r)] = "open"
  BY <1>2 DEF IInv, TypeOK
<1>6. setting' # Awake
  BY <1>1, <1>2 DEF AwakeOK
<1>7. \A t \in Thread : AtPlace(t)'
  BY <1>4, <1>5, <1>6 DEF AtPlace
<1> QED BY <1>4, <1>6, <1>7 DEF AwakeOK, InUse

\* A start applies the setting after reading the original, and hands what it
\* saved to its waiter (enable_device_stay_awake, start_run).
LEMMA StartAlone ==
  ASSUME IInv, AwakeOK, NEW r \in Run, StartRun(r), ~Fault
  PROVE  AwakeOK'
<1> DEFINE t == Starter(r)
<1>1. t \in Thread /\ Waiter(r) \in Thread /\ t # Waiter(r)
  BY ThreadFacts
<1>2. AtPlace(t) /\ mine \in [Thread -> Saved \cup {None}] /\ pc \in [Thread -> PC]
  BY <1>1 DEF AwakeOK, IInv, TypeOK
<1>3. CASE NoScenario(r)
  <2>1. AtPlace(t)' /\ setting' # Awake
    BY <1>1, <1>2, <1>3 DEF NoScenario, Goto, device, AtPlace
  <2> QED BY <1>1, <1>3, <2>1, AloneMoves, "done" \in PC DEF NoScenario, Goto, InUse, PC
<1>4. CASE OpenLog(r)
  <2>1. AtPlace(t)'
    BY <1>1, <1>2, <1>4 DEF OpenLog, Goto, device, AtPlace
  <2> QED BY <1>1, <1>4, <2>1, AloneMoves DEF OpenLog, Goto, InUse, PC
<1>5. CASE EnableSleepPrevention(r)
  <2>1. AtPlace(t)'
    BY <1>1, <1>2, <1>5 DEF EnableSleepPrevention, Goto, AtPlace
  <2> QED BY <1>1, <1>5, <2>1, AloneMoves DEF EnableSleepPrevention, Goto, InUse, PC
<1>6. CASE ReadOriginal(r)
  <2>1. AtPlace(t)'
    BY <1>1, <1>2, <1>6 DEF ReadOriginal, Works, Goto, device, AtPlace
  <2> QED BY <1>1, <1>6, <2>1, AloneMoves DEF ReadOriginal, Goto, InUse, PC
<1>7. CASE ApplyAwake(r)
  <2>1. mine[t] \in Saved
    BY <1>1, <1>2, <1>7 DEF ApplyAwake, Goto, IInv, LocalsOK
  <2>2. AtPlace(t)'
    BY <1>1, <1>2, <1>7, <2>1 DEF ApplyAwake, Works, Goto, AtPlace, Saved
  <2> QED BY <1>1, <1>7, <2>2, AloneMoves DEF ApplyAwake, Goto, InUse, PC
<1>8. CASE ConfirmAwake(r)
  <2>1. mine[t] \in Saved
    BY <1>1, <1>2, <1>8 DEF ConfirmAwake, Goto, IInv, LocalsOK
  <2>2. stayAwake' = [mine[t] EXCEPT !.value = setting] /\ setting' = setting
    BY <1>8 DEF ConfirmAwake, Works
  <2>3. On(stayAwake)'
    BY <1>2, <1>8, <2>1, <2>2 DEF ConfirmAwake, Goto, AtPlace, On, Saved
  <2>4. AtPlace(t)'
    BY <1>1, <1>2, <1>8, <2>3 DEF ConfirmAwake, Goto, AtPlace
  <2> QED BY <1>1, <1>8, <2>4, AloneMoves DEF ConfirmAwake, Goto, InUse, PC
<1>9. CASE WriteConfig(r)
  <2>1. AtPlace(t)'
    BY <1>1, <1>2, <1>9 DEF WriteConfig, Goto, device, AtPlace, On
  <2> QED BY <1>1, <1>9, <2>1, AloneMoves DEF WriteConfig, Goto, InUse, PC
<1>10. CASE PrepareBlocked(r)
  <2>1. AtPlace(t)'
    BY <1>1, <1>2, <1>10 DEF PrepareBlocked, Goto, device, AtPlace, On
  <2> QED BY <1>1, <1>10, <2>1, AloneMoves DEF PrepareBlocked, Goto, InUse, PC
<1>11. CASE Launch(r)
  <2>1. AtPlace(t)'
    BY <1>1, <1>2, <1>11 DEF Launch, Goto, device, AtPlace, On
  <2> QED BY <1>1, <1>11, <2>1, AloneMoves DEF Launch, Goto, InUse, PC
<1>12. CASE StartWaiter(r)
  <2>1. pc' = [pc EXCEPT ![t] = "done", ![Waiter(r)] = "wait"] /\ pc[t] = "wire"
    BY <1>12 DEF StartWaiter
  <2>2. UNCHANGED <<setting, stayAwake, mine>>
    BY <1>12 DEF StartWaiter, device
  <2>3. \A u \in Thread : u # t => pc[u] \in {"idle", "done"}
    BY <1>1, <2>1 DEF AwakeOK, InUse
  <2>4. \A u \in Thread : u # Waiter(r) => pc'[u] \in {"idle", "done"}
    BY <1>1, <1>2, <2>1, <2>3
  <2>5. pc'[Waiter(r)] = "wait"
    BY <1>1, <1>2, <2>1
  <2>6. On(stayAwake)'
    BY <1>2, <2>1, <2>2 DEF AtPlace, On
  <2>7. \A u \in Thread : AtPlace(u)'
    BY <2>4, <2>5, <2>6 DEF AtPlace
  <2>8. Busy'
    BY <1>1, <2>5 DEF Busy
  <2> QED BY <2>4, <2>7, <2>8 DEF AwakeOK, InUse
<1>13. CASE ReturnFailed(r)
  <2>1. AtPlace(t)' /\ setting' # Awake
    BY <1>1, <1>2, <1>13 DEF ReturnFailed, Goto, AtPlace
  <2> QED BY <1>1, <1>13, <2>1, AloneMoves DEF ReturnFailed, Goto, InUse, PC
<1> QED BY <1>3, <1>4, <1>5, <1>6, <1>7, <1>8, <1>9, <1>10, <1>11, <1>12, <1>13 DEF StartRun

\* A waiter takes what was saved, and restores the setting before it says that
\* the run has ended (_wait_for_process, restore_device_stay_awake).
LEMMA WaitAlone ==
  ASSUME IInv, AwakeOK, NEW r \in Run, WaitForProcess(r)
  PROVE  AwakeOK'
<1> DEFINE t == Waiter(r)
<1>1. t \in Thread
  BY ThreadFacts
<1>2. AtPlace(t) /\ mine \in [Thread -> Saved \cup {None}] /\ pc \in [Thread -> PC]
  BY <1>1 DEF AwakeOK, IInv, TypeOK
<1>3. CASE ChildSeen(r)
  <2>1. AtPlace(t)'
    BY <1>1, <1>2, <1>3 DEF ChildSeen, Goto, device, AtPlace, On
  <2>2. PICK there \in {"shadow", "take"} : pc' = [pc EXCEPT ![t] = there]
    BY <1>3 DEF ChildSeen, Goto
  <2> QED BY <1>1, <1>3, <2>1, <2>2, AloneMoves DEF ChildSeen, Goto, InUse, PC
<1>4. CASE ShadowValidation(r)
  <2>1. AtPlace(t)'
    BY <1>1, <1>2, <1>4 DEF ShadowValidation, Goto, device, AtPlace, On
  <2> QED BY <1>1, <1>4, <2>1, AloneMoves DEF ShadowValidation, Goto, InUse, PC
<1>5. CASE WaiterDisables(r)
  <2>1. AtPlace(t)'
    BY <1>1, <1>2, <1>5 DEF WaiterDisables, Goto, AtPlace
  <2> QED BY <1>1, <1>5, <2>1, AloneMoves DEF WaiterDisables, Goto, InUse, PC
<1>6. CASE Finish(r)
  <2>1. AtPlace(t)' /\ setting' # Awake
    BY <1>1, <1>2, <1>6 DEF Finish, Goto, device, AtPlace
  <2> QED BY <1>1, <1>6, <2>1, AloneMoves DEF Finish, Goto, InUse, PC
<1> QED BY <1>3, <1>4, <1>5, <1>6 DEF WaitForProcess

LEMMA RestoreAlone ==
  ASSUME IInv, AwakeOK, NEW t \in Thread, Restore(t), ~Fault
  PROVE  AwakeOK'
<1>1. AtPlace(t) /\ mine \in [Thread -> Saved \cup {None}] /\ pc \in [Thread -> PC]
  BY DEF AwakeOK, IInv, TypeOK
<1>2. CASE TakeStayAwake(t)
  <2>1. AtPlace(t)'
    BY <1>1, <1>2 DEF TakeStayAwake, Goto, device, AtPlace, On
  <2> QED BY <1>2, <2>1, AloneMoves DEF TakeStayAwake, Goto, InUse, PC
<1>3. CASE ClearStayAwake(t)
  <2>1. pc[t] = "clear" /\ mine[t] # None
    BY <1>1, <1>3 DEF ClearStayAwake, Goto, AtPlace, On
  <2>2. pc' = [pc EXCEPT ![t] = "check"] /\ mine' = mine /\ setting' = setting
    BY <1>3, <2>1 DEF ClearStayAwake, Goto
  <2>3. AtPlace(t)'
    BY <1>1, <2>1, <2>2 DEF AtPlace, On
  <2> QED BY <2>1, <2>2, <2>3, AloneMoves DEF InUse, PC
<1>4. CASE CheckSetting(t)
  <2>1. pc[t] = "check" /\ On(mine[t])
    BY <1>1, <1>4 DEF CheckSetting, Goto, AtPlace
  <2>2. pc' = [pc EXCEPT ![t] = "put"] /\ mine' = mine
    BY <1>4, <2>1 DEF CheckSetting, Goto, Works, Restorable, On
  <2>3. AtPlace(t)'
    BY <1>1, <2>1, <2>2 DEF AtPlace, On
  <2> QED BY <2>1, <2>2, <2>3, AloneMoves DEF InUse, PC
<1>5. CASE PutOriginal(t)
  <2>1. pc[t] = "put" /\ pc' = [pc EXCEPT ![t] = "disable"] /\ setting' = mine[t].original
    BY <1>5 DEF PutOriginal, Goto, Works
  <2>2. AtPlace(t)'
    BY <1>1, <2>1 DEF AtPlace
  <2> QED BY <2>1, <2>2, AloneMoves DEF InUse, PC
<1> QED BY <1>2, <1>3, <1>4, <1>5 DEF Restore

\* Nothing else moves a thread or the setting.
LEMMA ElseAlone ==
  ASSUME AwakeOK, UNCHANGED <<pc, mine, stayAwake, setting>>
  PROVE  AwakeOK'
BY DEF AwakeOK, InUse, AtPlace, On, Busy

LEMMA StepKeepsAwake ==
  ASSUME IInv, AwakeInv, [Next]_vars
  PROVE  AwakeInv'
<1> SUFFICES ASSUME Clean' PROVE AwakeOK'
  BY DEF AwakeInv
<1>1. Clean /\ ~Fault /\ AwakeOK
  BY CleanBefore DEF AwakeInv
<1>2. ASSUME NEW r \in Run, Begin(r) \/ StartRun(r) \/ WaitForProcess(r)
      PROVE  AwakeOK'
  BY <1>1, <1>2, BeginAlone, StartAlone, WaitAlone
<1>3. ASSUME NEW r \in Run, Raises(r)
      PROVE  FALSE
  BY <1>1, <1>3 DEF Raises, OpenRaises, KeeperFails, StartRaises, TeeFails, WaiterFails,
     AbandonRun, WaitRaises
<1>4. ASSUME NEW r \in Run, ChildExits(r) \/ Terminate(r)
      PROVE  AwakeOK'
  BY <1>1, <1>4, ElseAlone DEF ChildExits, Terminate, device
<1>5. ASSUME NEW t \in Thread, Restore(t)
      PROVE  AwakeOK'
  BY <1>1, <1>5, RestoreAlone
<1>6. CASE Stop
  BY <1>1, <1>6, ElseAlone DEF Stop, device
<1>7. ~ChangeSetting
  BY DEF ChangeSetting, Clean, IInv, TypeOK
<1>8. CASE UNCHANGED vars
  BY <1>1, <1>8, ElseAlone DEF vars, device
<1> QED BY <1>2, <1>3, <1>4, <1>5, <1>6, <1>7, <1>8 DEF Next

\* When nothing runs any more, no command failed, nobody else touched the
\* setting and no start overtook a waiter, the device no longer stays awake, for
\* any number of runs (enable_device_stay_awake, restore_device_stay_awake).
THEOREM RestoredUnlessOvertakenHolds == Spec => []RestoredUnlessOvertaken
<1>1. Init => AwakeInv
  BY DEF Init, AwakeInv, AwakeOK, InUse, AtPlace
<1>2. IInv /\ AwakeInv /\ [Next]_vars => AwakeInv'
  BY StepKeepsAwake
<1>3. AwakeInv => RestoredUnlessOvertaken
  BY DEF AwakeInv, Clean, AwakeOK, RestoredUnlessOvertaken, Quiet
<1> QED BY <1>1, <1>2, <1>3, RunManagerInvariant, PTL DEF Spec

-----------------------------------------------------------------------------
(* The manager implements the run service.                                 *)

\* Who records the end, and what the state can be while the child runs.
LEMMA ServiceInvariant == Spec => []ServiceOK
<1>1. Init => ServiceOK
  BY ThreadFacts DEF Init, ServiceOK, Preparing
<1>2. ASSUME IInv, ChildrenOK, ServiceOK, [Next]_vars
      PROVE  ServiceOK'
  <2> USE <1>2, ThreadFacts DEF IInv, ChildrenOK, ServiceOK, Preparing, Launched, InCall, Goto, Attended,
    records, history
  <2>1. ASSUME NEW r \in Run, Begin(r) \/ StartRun(r)
        PROVE  ServiceOK'
    <3>1. ASSUME Begin(r) PROVE ServiceOK'
      BY <3>1 DEF Begin, TypeOK, PlacesOK
    <3>2. ASSUME Launch(r) PROVE ServiceOK'
      BY <3>2 DEF Launch, fields, TypeOK, PlacesOK
    <3>3. ASSUME StartWaiter(r) PROVE ServiceOK'
      BY <3>3 DEF StartWaiter, fields, TypeOK, PlacesOK, CallOK
    <3>6. ASSUME NoScenario(r) PROVE ServiceOK'
      BY <3>6 DEF NoScenario, WriteSummary, fields, TypeOK, PlacesOK
    <3>4. ASSUME \/ OpenLog(r) \/ EnableSleepPrevention(r) \/ ReadOriginal(r)
                 \/ ApplyAwake(r) \/ ConfirmAwake(r) \/ WriteConfig(r)
          PROVE  ServiceOK'
      BY <3>4 DEF OpenLog, EnableSleepPrevention, ReadOriginal, ApplyAwake,
                  ConfirmAwake, WriteConfig, fields, TypeOK
    <3>5. ASSUME PrepareBlocked(r) \/ ReturnFailed(r)
          PROVE  ServiceOK'
      BY <3>5 DEF PrepareBlocked, ReturnFailed, WriteSummary, fields, TypeOK, PlacesOK
    <3> QED BY <2>1, <3>1, <3>2, <3>3, <3>4, <3>5, <3>6 DEF StartRun
  <2>2. ASSUME NEW r \in Run, Raises(r)
        PROVE  ServiceOK'
    <3>1. ASSUME OpenRaises(r) PROVE ServiceOK'
      BY <3>1 DEF OpenRaises, TypeOK, PlacesOK
    <3>2. ASSUME StartRaises(r) PROVE ServiceOK'
      BY <3>2 DEF StartRaises, fields, TypeOK, PlacesOK
    <3>3. ASSUME TeeFails(r) PROVE ServiceOK'
      BY <3>3 DEF TeeFails, fields, TypeOK, PlacesOK
    <3>4. ASSUME WaiterFails(r) PROVE ServiceOK'
      BY <3>4 DEF WaiterFails, fields, TypeOK, PlacesOK, CallOK
    <3>5. ASSUME WaitRaises(r) PROVE ServiceOK'
      BY <3>5 DEF WaitRaises, fields, TypeOK, Ended
    <3>6. ASSUME KeeperFails(r) PROVE ServiceOK'
      BY <3>6 DEF KeeperFails, fields, TypeOK, PlacesOK
    <3>7. ASSUME AbandonRun(r) PROVE ServiceOK'
      BY <3>7 DEF AbandonRun, fields, TypeOK, PlacesOK, CallOK
    <3> QED BY <2>2, <3>1, <3>2, <3>3, <3>4, <3>5, <3>6, <3>7 DEF Raises
  <2>3. ASSUME NEW r \in Run, ChildExits(r) \/ Terminate(r)
        PROVE  ServiceOK'
    BY <2>3 DEF ChildExits, Terminate, TypeOK, Ended
  <2>4. ASSUME NEW r \in Run, WaitForProcess(r)
        PROVE  ServiceOK'
    <3>1. ASSUME ChildSeen(r) \/ ShadowValidation(r) \/ WaiterDisables(r)
          PROVE  ServiceOK'
      BY <3>1 DEF ChildSeen, ShadowValidation, WaiterDisables, fields, TypeOK
    <3>2. ASSUME Finish(r)
          PROVE  ServiceOK'
      BY <3>2 DEF Finish, RecordEnd, WriteSummary, fields, TypeOK, Ended
    <3> QED BY <2>4, <3>1, <3>2 DEF WaitForProcess
  <2>5. ASSUME NEW t \in Thread, Restore(t)
        PROVE  ServiceOK'
    <3>1. PICK there \in {"clear", "check", "put", "disable"} : pc' = [pc EXCEPT ![t] = there]
      BY <2>5 DEF Restore, TakeStayAwake, ClearStayAwake, CheckSetting, PutOriginal
    <3>2. pc[t] \in {"take", "clear", "check", "put"} /\ UNCHANGED <<process, child, state, leaked>>
      BY <2>5 DEF Restore, TakeStayAwake, ClearStayAwake, CheckSetting, PutOriginal
    <3> QED BY <3>1, <3>2 DEF TypeOK
  <2>6. CASE Stop \/ ChangeSetting
    BY <2>6 DEF Stop, ChangeSetting
  <2>7. CASE UNCHANGED vars
    BY <2>7 DEF vars
  <2> QED BY <2>1, <2>2, <2>3, <2>4, <2>5, <2>6, <2>7 DEF Next
<1> QED BY <1>1, <1>2, RunManagerInvariant, ChildrenInvariant, PTL DEF Spec

\* Who holds a request keeps the machine awake, and next to a broken keep-awake
\* thread there is always one request more.
LEMMA HolderAwake ==
  ASSUME IInv, NEW t \in Thread, HoldsRequest(t)
  PROVE  /\ keeper # "none"
         /\ keeper = "broken" => requests # 1
<1> USE DEF IInv
<1>1. /\ requests = Cardinality(Holders) + Cardinality(leaked)
      /\ keeper = "none" <=> requests = 0
      /\ keeper = "broken" => leaked # {}
  BY DEF SleepBalanced, Holders
<1>2. Cardinality(Holders) # 0
  BY CountsFinite, FS_EmptySet DEF Holders
<1>3. leaked # {} => Cardinality(leaked) # 0
  BY CountsFinite, FS_EmptySet
<1> QED BY <1>1, <1>2, <1>3, CountsFinite

\* Where the last request was given back, nobody holds one.
LEMMA NoHolderNext ==
  ASSUME IInv', keeper' = "none", NEW t \in Thread
  PROVE  ~HoldsRequest(t)'
<1> USE DEF IInv
<1>1. Cardinality(Holders') + Cardinality(leaked') = 0
  BY DEF SleepBalanced, Holders
<1>2. IsFiniteSet(Holders') /\ Cardinality(Holders') \in Nat /\ Cardinality(leaked') \in Nat
  BY ThreadsFinite, FS_Subset, FS_CardinalityType DEF Holders, TypeOK
<1>3. Holders' = {}
  BY <1>1, <1>2, FS_EmptySet
<1> QED BY <1>3 DEF Holders

\* Nothing is looked after while a start has not launched its child.
LEMMA LiveNone ==
  ASSUME ChildrenOK, NEW r \in Run, InCall(r), pc[Starter(r)] # "wire"
  PROVE  Live = {}
BY DEF ChildrenOK, Live

LEMMA ServiceInit == Init => Service!Init
<1>1. Init => Live = {} /\ Owner = None /\ keeper = "none"
  BY ThreadFacts DEF Init, Live, Owner, Attended
<1> QED BY <1>1 DEF Init, Service!Init

LEMMA ServiceCall ==
  ASSUME IInv, ChildrenOK, NEW r \in Run, Begin(r)
  PROVE  Service!Call(r)
<1> USE ThreadFacts DEF Begin, Goto, IInv, TypeOK, fields, device, sleep
<1>1. UNCHANGED <<process, child, state, keeper>> /\ lock = None /\ lock' = r
  OBVIOUS
<1>2. \A s \in Run : ~Attended(s)
  BY DEF ChildrenOK, Attended
<1>3. \A s \in Run : ~Attended(s)' /\ (Recording(s)' <=> Recording(s))
  BY <1>2 DEF Attended, Recording, Launched
<1>4. Live = {} /\ Live' = {} /\ Owner' = Owner
  BY <1>1, <1>2, <1>3 DEF Live, Owner
<1> QED BY <1>1, <1>4 DEF Service!Call

\* The preparation of a start is not the service's business, but that it keeps
\* the machine awake is.
LEMMA ServicePrepare ==
  ASSUME IInv, ChildrenOK, NEW r \in Run,
         OpenLog(r) \/ EnableSleepPrevention(r) \/ ReadOriginal(r) \/ ApplyAwake(r)
         \/ ConfirmAwake(r) \/ WriteConfig(r)
  PROVE  [Service!Next]_(Service!service)
<1> USE ThreadFacts DEF Goto, IInv, TypeOK, fields, device, sleep
<1>1. PICK there \in {"enable", "read", "apply", "confirm", "configure", "prepare"} :
        pc' = [pc EXCEPT ![Starter(r)] = there]
  BY DEF OpenLog, EnableSleepPrevention, ReadOriginal, ApplyAwake, ConfirmAwake, WriteConfig
<1>2. /\ pc[Starter(r)] \in {"open", "enable", "read", "apply", "confirm", "configure"}
      /\ UNCHANGED <<lock, process, child, state>>
      /\ keeper' = keeper \/ (keeper = "none" /\ keeper' = "running")
  BY DEF OpenLog, EnableSleepPrevention, ReadOriginal, ApplyAwake, ConfirmAwake, WriteConfig
<1>3. \A s \in Run : (Attended(s)' <=> Attended(s)) /\ (Recording(s)' <=> Recording(s))
  BY <1>1, <1>2 DEF Attended, Recording, Launched
<1>4. Live' = Live /\ Owner' = Owner
  BY <1>2, <1>3 DEF Live, Owner
<1>5. lock = r
  BY <1>2 DEF PlacesOK, InCall
<1>6. CASE keeper' = keeper
  BY <1>2, <1>4, <1>6 DEF Service!service
<1>7. CASE keeper = "none" /\ keeper' = "running"
  BY <1>2, <1>4, <1>5, <1>7 DEF Service!KeepAwake, Service!Next
<1> QED BY <1>2, <1>6, <1>7

LEMMA ServiceFail ==
  ASSUME IInv, ChildrenOK, ChildrenOK', NEW r \in Run,
         NoScenario(r) \/ OpenRaises(r) \/ PrepareBlocked(r) \/ StartRaises(r) \/ TeeFails(r)
         \/ ReturnFailed(r)
  PROVE  Service!Fail
<1> USE ThreadFacts DEF Goto, IInv, TypeOK, fields, device, sleep
<1>1. PICK there \in {"take", "done"} : pc' = [pc EXCEPT ![Starter(r)] = there]
  BY DEF NoScenario, OpenRaises, PrepareBlocked, StartRaises, TeeFails, ReturnFailed
<1>2. pc[Starter(r)] \in {"open", "read", "apply", "confirm", "configure", "prepare", "disable"}
  BY DEF NoScenario, OpenRaises, PrepareBlocked, StartRaises, TeeFails, ReturnFailed
<1>3. lock = r /\ pc[Waiter(r)] = "idle" /\ Live = {}
  BY <1>2, LiveNone DEF PlacesOK, InCall
<1>4. lock' \in {lock, None} /\ state' = "error"
  BY <1>2, <1>3 DEF NoScenario, OpenRaises, PrepareBlocked, StartRaises, TeeFails, ReturnFailed,
     CallOK
<1>5. \A s \in Run : ~Attended(s)'
  <2>1. ~Attended(r)'
    BY <1>1, <1>3 DEF Attended
  <2>2. \A s \in Run \ {r} : child'[s] = child[s]
    BY DEF NoScenario, OpenRaises, PrepareBlocked, StartRaises, TeeFails, ReturnFailed
  <2>3. \A s \in Run \ {r} : Attended(s)' <=> Attended(s)
    BY <1>1, <2>2 DEF Attended
  <2> QED BY <1>3, <2>1, <2>3 DEF Live
<1>6. Live' = {}
  BY <1>5 DEF Live
<1>7. process' = None \/ NoScenario(r)
  BY <1>2 DEF OpenRaises, PrepareBlocked, StartRaises, TeeFails, ReturnFailed, CallOK
<1>8. Owner' \in {Owner, None}
  <2>1. CASE NoScenario(r)
    <3>1. \A s \in Run : Recording(s)' <=> Recording(s)
      BY <2>1 DEF NoScenario, Recording, Launched
    <3> QED BY <2>1, <3>1 DEF Owner, NoScenario
  <2> QED BY <1>7, <2>1 DEF Owner
<1>9. keeper' = keeper \/ (keeper = "running" /\ keeper' = "none")
  <2>1. CASE ReturnFailed(r)
    <3>1. keeper # "none" /\ (keeper = "broken" => requests # 1)
      BY <1>2, <2>1, HolderAwake DEF ReturnFailed, HoldsRequest
    <3> QED BY <2>1, <3>1 DEF ReturnFailed, DisableSleepPrevention
  <2> QED BY <2>1 DEF NoScenario, OpenRaises, PrepareBlocked, StartRaises, TeeFails
<1> QED BY <1>3, <1>4, <1>6, <1>8, <1>9 DEF Service!Fail

LEMMA ServiceLaunch ==
  ASSUME IInv, ChildrenOK, NEW r \in Run, Launch(r)
  PROVE  Service!Launch
<1> USE ThreadFacts DEF Launch, Goto, IInv, TypeOK, fields, device, sleep
<1>1. /\ lock = r /\ lock' = lock /\ Live = {} /\ state' = "running" /\ process' = r
      /\ keeper' = keeper
  BY LiveNone DEF PlacesOK, InCall
<1>2. keeper # "none"
  BY HolderAwake DEF HoldsRequest
<1>3. \A s \in Run : Attended(s)' <=> s = r
  <2>1. Attended(r)'
    BY DEF Attended
  <2>2. \A s \in Run \ {r} : Attended(s)' <=> Attended(s)
    BY DEF Attended
  <2> QED BY <1>1, <2>1, <2>2 DEF Live
<1>4. Live' = {r}
  BY <1>3 DEF Live
<1>5. Owner' = r
  BY <1>1 DEF Owner, Recording, Launched
<1> QED BY <1>1, <1>2, <1>4, <1>5 DEF Service!Launch

LEMMA ServiceReturn ==
  ASSUME IInv, NEW r \in Run, StartWaiter(r)
  PROVE  Service!Return
<1> USE ThreadFacts DEF StartWaiter, IInv, TypeOK, fields, device, sleep
<1>1. /\ process = r /\ state = "running" /\ lock = r /\ lock' = None
      /\ UNCHANGED <<process, child, state, keeper>>
  BY DEF CallOK, PlacesOK, InCall
<1>2. \A s \in Run : (Attended(s)' <=> Attended(s)) /\ (Recording(s)' <=> Recording(s))
  BY DEF Attended, Recording, Launched
<1>3. Live' = Live /\ Owner' = Owner /\ Owner = r
  BY <1>1, <1>2 DEF Live, Owner, Recording, Launched
<1> QED BY <1>1, <1>3 DEF Service!Return

LEMMA ServiceLeave ==
  ASSUME IInv, ChildrenOK, NEW r \in Run, ChildExits(r) \/ Terminate(r) \/ WaiterFails(r)
  PROVE  [Service!Next]_(Service!service)
<1> USE ThreadFacts DEF Goto, IInv, TypeOK, fields, device, sleep
<1>1. UNCHANGED <<lock, process, state, keeper>>
  BY DEF ChildExits, Terminate, WaiterFails
<1>2. \A s \in Run : Recording(s)' <=> Recording(s)
  BY DEF ChildExits, Terminate, WaiterFails, Recording, Launched
<1>3. Owner' = Owner
  BY <1>1, <1>2 DEF Owner
<1>4. \A s \in Run : /\ Attended(s)' => Attended(s)
                     /\ s # r => (Attended(s)' <=> Attended(s))
  BY DEF ChildExits, Terminate, WaiterFails, Attended, Ended
<1>5. Live' = Live \/ (Live # {} /\ Live' = {})
  <2>1. ASSUME Attended(r), ~Attended(r)'
        PROVE  Live # {} /\ Live' = {}
    <3>1. \A s \in Run : s # r => ~Attended(s)
      BY <2>1 DEF ChildrenOK
    <3>2. \A s \in Run : ~Attended(s)'
      BY <1>4, <2>1, <3>1
    <3> QED BY <2>1, <3>2 DEF Live
  <2>2. ASSUME Attended(r)' <=> Attended(r)
        PROVE  Live' = Live
    <3>1. \A s \in Run : Attended(s)' <=> Attended(s)
      BY <1>4, <2>2
    <3> QED BY <3>1 DEF Live
  <2> QED BY <1>4, <2>1, <2>2
<1> QED BY <1>1, <1>3, <1>5 DEF Service!Leave, Service!Next, Service!service

\* What a waiter does before it releases its request, and what is given back of
\* the device, is not the service's business.
LEMMA ServiceWaits ==
  ASSUME IInv,
         \/ \E r \in Run : ChildSeen(r) \/ ShadowValidation(r) \/ WaitRaises(r)
         \/ \E t \in Thread : Restore(t)
         \/ ChangeSetting \/ UNCHANGED vars
  PROVE  UNCHANGED Service!service
<1> USE ThreadFacts DEF Goto, IInv, TypeOK, fields, device, sleep
<1>1. UNCHANGED <<lock, process, child, state, keeper>>
  BY DEF ChildSeen, ShadowValidation, WaitRaises, Restore, TakeStayAwake, ClearStayAwake,
     CheckSetting, PutOriginal, ChangeSetting, vars
<1>2. \A s \in Run : (Attended(s)' <=> Attended(s)) /\ (Recording(s)' <=> Recording(s))
  <2>1. CASE pc' = pc
    BY <1>1, <2>1 DEF Attended, Recording, Launched
  <2>2. ASSUME NEW r \in Run, ChildSeen(r) \/ ShadowValidation(r) \/ WaitRaises(r)
        PROVE  \A s \in Run : (Attended(s)' <=> Attended(s)) /\ (Recording(s)' <=> Recording(s))
    BY <1>1, <2>2 DEF ChildSeen, ShadowValidation, WaitRaises, Attended, Recording, Launched
  <2>3. ASSUME NEW t \in Thread, Restore(t)
        PROVE  \A s \in Run : (Attended(s)' <=> Attended(s)) /\ (Recording(s)' <=> Recording(s))
    <3>1. PICK there \in {"clear", "check", "put", "disable"} : pc' = [pc EXCEPT ![t] = there]
      BY <2>3 DEF Restore, TakeStayAwake, ClearStayAwake, CheckSetting, PutOriginal
    <3>2. pc[t] \in {"take", "clear", "check", "put"}
      BY <2>3 DEF Restore, TakeStayAwake, ClearStayAwake, CheckSetting, PutOriginal
    <3> QED BY <1>1, <3>1, <3>2 DEF Attended, Recording, Launched
  <2> QED BY <2>1, <2>2, <2>3 DEF ChangeSetting, vars
<1>3. Live' = Live /\ Owner' = Owner
  BY <1>1, <1>2 DEF Live, Owner
<1> QED BY <1>1, <1>3 DEF Service!service

\* A waiter releases its request: the machine may sleep only if no child is
\* looked after, because the waiter of one that is holds a request too.
LEMMA ServiceDisables ==
  ASSUME IInv, IInv', ServiceOK, NEW r \in Run, WaiterDisables(r)
  PROVE  [Service!Next]_(Service!service)
<1> USE ThreadFacts DEF WaiterDisables, Goto, IInv, TypeOK, fields, device, sleep
<1>1. UNCHANGED <<lock, process, child, state>>
  OBVIOUS
<1>2. \A s \in Run : (Attended(s)' <=> Attended(s)) /\ (Recording(s)' <=> Recording(s))
  BY DEF Attended, Recording, Launched
<1>3. Live' = Live /\ Owner' = Owner
  BY <1>1, <1>2 DEF Live, Owner
<1>4. keeper' = keeper \/ (keeper = "running" /\ keeper' = "none")
  BY HolderAwake DEF HoldsRequest, DisableSleepPrevention
<1>5. CASE keeper' = keeper
  BY <1>1, <1>3, <1>5 DEF Service!service
<1>6. CASE keeper = "running" /\ keeper' = "none"
  <2>1. \A t \in Thread : ~HoldsRequest(t)'
    BY <1>6, NoHolderNext
  <2>2. ASSUME NEW s \in Run, Attended(s) PROVE FALSE
    <3>1. child[s] = "alive" /\ (pc[Starter(s)] = "wire" \/ pc[Waiter(s)] = "wait") /\ s # r
      BY <2>2 DEF Attended, ServiceOK, Ended
    <3>2. pc'[Starter(s)] = pc[Starter(s)] /\ pc'[Waiter(s)] = pc[Waiter(s)]
      BY <3>1
    <3>3. HoldsRequest(Starter(s))' \/ HoldsRequest(Waiter(s))'
      BY <3>1, <3>2 DEF HoldsRequest
    <3> QED BY <2>1, <3>3
  <2>3. Live = {}
    BY <2>2 DEF Live
  <2> QED BY <1>1, <1>3, <1>6, <2>3 DEF Service!LetSleep, Service!Next
<1> QED BY <1>4, <1>5, <1>6

LEMMA ServiceFinish ==
  ASSUME IInv, ChildrenOK, ServiceOK, NEW r \in Run, Finish(r)
  PROVE  [Service!Next]_(Service!service)
<1> USE ThreadFacts DEF Finish, Goto, IInv, TypeOK, fields, device, sleep
<1>1. UNCHANGED <<lock, process, child, keeper>> /\ lock = None
  OBVIOUS
<1>2. \A s \in Run : Attended(s)' <=> Attended(s)
  BY DEF Attended
<1>3. Live' = Live
  BY <1>2 DEF Live
<1>4. CASE process = r
  <2>1. Live = {}
    BY <1>4 DEF ServiceOK, ChildrenOK, Attended, Live, Ended
  <2>2. pc[Starter(r)] \in {"idle", "done"}
    BY <1>1 DEF PlacesOK, InCall
  <2>3. Owner = r /\ Owner' = None
    BY <1>1, <1>4, <2>2 DEF Owner, Recording, Launched
  <2>4. IF state = "stopped" THEN UNCHANGED state ELSE state' \in {"finished", "error"}
    BY <1>4 DEF RecordEnd, Outcome
  <2> QED BY <1>1, <1>3, <2>1, <2>3, <2>4 DEF Service!End, Service!Next
<1>5. CASE process # r
  <2>1. state' = state
    BY <1>5
  <2>2. \A s \in Run \ {r} : Recording(s)' <=> Recording(s)
    BY DEF Recording, Launched
  <2>3. Owner' = Owner
    BY <1>1, <1>5, <2>2 DEF Owner
  <2> QED BY <1>1, <1>3, <2>1, <2>3 DEF Service!service
<1> QED BY <1>4, <1>5

LEMMA ServiceStop ==
  ASSUME IInv, ChildrenOK, ServiceOK, Stop
  PROVE  Service!Stop
<1> USE ThreadFacts DEF Stop, IInv, TypeOK, fields, device, sleep
<1>1. UNCHANGED <<lock, process, child, pc, keeper>> /\ lock = None /\ state' = "stopped"
  OBVIOUS
<1>2. pc[Starter(process)] \in {"idle", "done"} /\ process \in Run
  BY DEF PlacesOK, InCall
<1>3. Attended(process) \/ Owner = None
  BY <1>2 DEF ServiceOK, Launched, Attended, Owner, Recording, PlacesOK
<1>4. state \in {"running", "stopped"} /\ (Live # {} \/ Owner = None)
  BY <1>2, <1>3 DEF ServiceOK, Live
<1>5. Live' = Live /\ Owner' = Owner
  BY <1>1 DEF Live, Owner, Attended, Recording, Launched
<1> QED BY <1>1, <1>4, <1>5 DEF Service!Stop

\* The keep-awake thread of a start fails: the call ends, and this lasts.
LEMMA ServiceBreaks ==
  ASSUME IInv, ChildrenOK, NEW r \in Run, KeeperFails(r)
  PROVE  Service!BreakAwake
<1> USE ThreadFacts DEF KeeperFails, Goto, IInv, TypeOK, fields
<1>1. lock = r /\ lock' = None /\ Live = {} /\ process' = None /\ state' = "error"
  BY LiveNone DEF PlacesOK, InCall
<1>2. \A s \in Run : Attended(s)' <=> Attended(s)
  BY DEF Attended
<1>3. Live' = {} /\ Owner' = None
  BY <1>1, <1>2 DEF Live, Owner
<1> QED BY <1>1, <1>3 DEF Service!BreakAwake

\* A start gives its run up: nobody is left to look after the child.
LEMMA ServiceAbandons ==
  ASSUME IInv, ChildrenOK, NEW r \in Run, AbandonRun(r)
  PROVE  Service!Abandon
<1> USE ThreadFacts DEF AbandonRun, Goto, IInv, TypeOK, fields, device, sleep
<1>1. /\ process = r /\ state = "running" /\ lock = r /\ lock' = None
      /\ UNCHANGED <<process, child, state, keeper>>
  BY DEF CallOK, PlacesOK, InCall
<1>2. pc'[Starter(r)] = "done" /\ pc'[Waiter(r)] = "idle"
  BY DEF PlacesOK
<1>3. \A s \in Run \ {r} : ~Attended(s)'
  BY <1>1 DEF ChildrenOK, Attended
<1>4. Live' = {}
  BY <1>2, <1>3 DEF Live, Attended
<1>5. Owner = r /\ Owner' = None
  BY <1>1, <1>2 DEF Owner, Recording, Launched
<1> QED BY <1>1, <1>4, <1>5 DEF Service!Abandon

\* The manager implements the run service, for any number of runs and whatever
\* overlaps or fails (start_run, stop_run, _wait_for_process).
THEOREM RunServiceImplemented == Spec => ImplementsRunService
<1>1. Init => Service!Init
  BY ServiceInit
<1>2. ASSUME IInv, IInv', ChildrenOK, ChildrenOK', ServiceOK, [Next]_vars
      PROVE  [Service!Next]_(Service!service)
  <2> USE <1>2
  <2>1. ASSUME NEW r \in Run, Begin(r) \/ StartRun(r)
        PROVE  [Service!Next]_(Service!service)
    BY <2>1, ServiceCall, ServicePrepare, ServiceFail, ServiceLaunch, ServiceReturn
    DEF StartRun, Service!Next
  <2>2. ASSUME NEW r \in Run, Raises(r)
        PROVE  [Service!Next]_(Service!service)
    BY <2>2, ServiceFail, ServiceBreaks, ServiceAbandons, ServiceLeave, ServiceWaits
    DEF Raises, Service!Next
  <2>3. ASSUME NEW r \in Run, ChildExits(r) \/ Terminate(r) \/ WaitForProcess(r)
        PROVE  [Service!Next]_(Service!service)
    BY <2>3, ServiceLeave, ServiceWaits, ServiceDisables, ServiceFinish DEF WaitForProcess
  <2>4. ASSUME NEW t \in Thread, Restore(t)
        PROVE  [Service!Next]_(Service!service)
    BY <2>4, ServiceWaits
  <2>5. CASE Stop
    BY <2>5, ServiceStop DEF Service!Next
  <2>6. CASE ChangeSetting \/ UNCHANGED vars
    BY <2>6, ServiceWaits
  <2> QED BY <2>1, <2>2, <2>3, <2>4, <2>5, <2>6 DEF Next
<1> QED BY <1>1, <1>2, RunManagerInvariant, ChildrenInvariant, ServiceInvariant, PTL
        DEF Spec, ImplementsRunService, Service!Spec

=============================================================================
