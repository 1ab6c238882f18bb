------------------------- MODULE ScenarioRunProofs -------------------------
(***************************************************************************)
(* Proofs about ScenarioRun for any number of scenarios and steps, any     *)
(* threshold and any number of restarts of TalkBack.                       *)
(***************************************************************************)
EXTENDS CrashRefinement, FiniteSetTheorems, SequenceTheorems, TLAPS

-----------------------------------------------------------------------------
(* The types, by the part of the state.                                    *)

TypesOfPlan ==
  /\ plan \in [1..N -> Kinds] /\ index \in 0..N /\ attempts \in [1..N -> Seq(Reasons)]
TypesOfDevice ==
  /\ pid \in 1..(MaxRestarts + 1) /\ recorder \in [pid : 0..pid, restart : BOOLEAN]
  /\ unread \in 0..2
TypesOfEvents ==
  /\ contexts \in Seq(Context) /\ signal \in Events \cup {0}
  /\ handling \in Events \cup {0} /\ processed \subseteq Events
  /\ stats \in [seen : SUBSET Events, counted : Nat] /\ abort \in BOOLEAN
TypesOfAttempt ==
  /\ stage \in Stages /\ rows \in Rows
  /\ step \in 0..(MaxSteps + 1) /\ current \in 0..pid
  /\ stop \in StopReasons \cup {"none", Repeat}
  /\ stopReason \in Reasons \cup {""} /\ tried \subseteq Candidates
Types == TypesOfPlan /\ TypesOfDevice /\ TypesOfEvents /\ TypesOfAttempt

-----------------------------------------------------------------------------
(* What holds besides, by the place of the runner.                         *)

Loop == {"step", "move", "moved", "guard", "decide", "recover", "verify", "content", "overlay"}
InContent == {"configure", "open", "anchor", "finish"} \cup Loop
Idle == {"next", "done"}

\* An attempt has the number its place in main() gives it, and the scenarios
\* after the present one have had none.
PlaceOK ==
  /\ \A s \in 1..N : s > index => attempts[s] = <<>>
  /\ stage \notin Idle \cup {"interrupted"} => index \in 1..N
  /\ stage \in InContent => plan[index] = "content"
  /\ stage = "global_nav" => plan[index] = "global_nav"
  /\ stage \in InContent \cup {"global_nav"} => Attempt = (IF handling = 0 THEN 0 ELSE 1)
  /\ stage = "over" => Attempt = (IF handling = 0 THEN 1 ELSE 2)
  /\ stage = "preflight" => Attempt = 1 /\ handling # 0
  /\ stage \in Idle => handling = 0
  /\ handling \in processed \cup {0}
  /\ stage \in Loop \ {"step"} => step <= MaxSteps
  /\ stage \in Loop \ {"step", "move"} => current # 0
  /\ stage = "finish" \/ (stage = "overlay" /\ stop # "none") => stopReason \in Reasons

\* The event e was detected in the present attempt and not looked at yet.
Fresh(e) ==
  /\ e \in Events \ processed
  /\ contexts[e].scenario = index
  /\ contexts[e].attempt = (IF handling = 0 THEN 0 ELSE 1)
  /\ plan[index] = "content"

\* A signal is old, and processed, or fresh.
SignalOK ==
  /\ stage \in Idle \cup {"configure", "global_nav", "preflight"} => signal \in processed \cup {0}
  /\ stage \in Loop \cup {"open", "anchor"} => signal = 0
  /\ stage \in {"finish", "over"} => \/ signal = 0
                                     \/ Fresh(signal)
                                     \/ signal \in processed /\ plan[index] # "content"

PlaceInv == Types /\ PlaceOK /\ SignalOK /\ RecoveryInScenario

\* What the recorder knows, by the place of the attempt.
RecorderOK ==
  /\ stage \in {"open", "anchor", "step", "move", "moved", "guard", "decide", "overlay"} =>
       ~recorder.restart
  /\ RestartInvalidates

Ended == \E k \in DOMAIN rows : rows[k].end

\* Where END rows are, and what reason an attempt has for having one or none.
EndOK ==
  /\ \A j, k \in DOMAIN rows : j < k /\ rows[j].end => rows[k].kind = "overlay"
  /\ stage \in Loop \ {"overlay"} => ~Ended
  /\ stage = "overlay" => IF stop = "none" THEN ~Ended ELSE Ended /\ stopReason = stop
  /\ stage \in {"finish", "over"} /\ plan[index] = "content" =>
       IF Ended THEN stopReason # "safety_limit"
       ELSE stopReason \in {"safety_limit", "talkback_restarted"}

\* All rows of the main loop but the last, and the last.
Before(id) == \A j, k \in DOMAIN rows : j < k /\ IsMain(j) /\ IsMain(k) => rows[j].pid = id
NoneOlder(id) == \A k \in DOMAIN rows : IsMain(k) => rows[k].pid >= id
AllOf(id) == \A k \in DOMAIN rows : IsMain(k) => rows[k].pid = id

\* In the loop, the places after the captures at which a row that was read
\* with a new process is found out: until then it may be the last row.
InMove == {"move", "moved"}
InDecision == {"guard", "decide", "recover", "verify", "content"}

\* The process that the recorder knows is that of all rows but the last, and
\* of the last one too when a capture point of the step that follows has been
\* read; as long as there were not two unread ones in a row.
KnownOK ==
  /\ stage = "open" /\ unread = 0 => recorder.pid # 0
  /\ stage \in Loop \cup {"anchor"} => recorder.pid # 0
  /\ stage \in Loop /\ ~recorder.restart =>
       /\ Before(recorder.pid) /\ NoneOlder(recorder.pid)
       /\ stage \in InDecision \/ (stage \in InMove /\ unread = 0) => AllOf(recorder.pid)
       /\ stage \in InDecision \cup {"moved"} => current >= recorder.pid

PidsOK == ContinuousRows /\ (unread < 2 => KnownOK)

RowsInv == RecorderOK /\ EndOK /\ PidsOK

\* The scenario of event e is over.
Closed(e) == contexts[e].scenario < index \/ stage \in Idle

OutcomeOf(e) ==
  LET s == contexts[e].scenario
  IN /\ Len(attempts[s]) \in 1..2
     /\ contexts[e].result =
          CASE Len(attempts[s]) = 1 -> "recovery_preflight_failed"
            [] Len(attempts[s]) = 2 /\ ~Crashed(s, 1) -> "crash_recovered"
            [] OTHER -> "crash_repeated"

\* A closed event has its outcome; one that is not is at hand.
OutcomeInv ==
  \A e \in Events :
    /\ contexts[e].scenario <= index
    /\ Closed(e) => OutcomeOf(e)
    /\ ~Closed(e) => e = handling \/ (e = signal /\ stage \in {"finish", "over"} /\ Fresh(e))

Counts(e) == contexts[e].type = "POSSIBLE_CRASH" /\ contexts[e].result # "crash_recovered"

\* The closed events are those that have been counted.
CountInv ==
  /\ stats.seen = {e \in Events : Closed(e)}
  /\ stats.counted = Cardinality({e \in stats.seen : Counts(e)})

AbortInv ==
  /\ stage \notin Idle => ~abort
  /\ abort <=> \/ stats.counted >= Threshold
               \/ \E e \in Events : contexts[e].failure \in NonRecoverable

LedgerInv == stage = "interrupted" \/ (OutcomeInv /\ CountInv /\ AbortInv)

-----------------------------------------------------------------------------
(* Rows, reasons and contexts keep their types.                            *)

\* A row of the attempt is one.
LEMMA RowsGrow ==
  ASSUME pid \in Nat, rows \in Rows, NEW kind \in {"terminal", "anchor", "step", "overlay"},
         NEW p \in 1..pid, NEW end \in BOOLEAN
  PROVE  <<>> \in Rows /\ <<Row(kind, p, end)>> \in Rows /\ Append(rows, Row(kind, p, end)) \in Rows
BY DEF Rows, Row

\* The rows of an attempt stay rows when TalkBack's process changes.
LEMMA RowsStay ==
  ASSUME pid \in Nat, rows \in Rows, pid' \in {pid, pid + 1}, rows' = rows
  PROVE  rows' \in Rows'
<1> DEFINE Of(n) == [kind : {"terminal", "anchor", "step", "overlay"}, pid : 1..n, end : BOOLEAN]
<1>1. Of(pid) \subseteq Of(pid')
  OBVIOUS
<1> HIDE DEF Of
<1>2. rows \in Seq(Of(pid)) => rows \in Seq(Of(pid'))
  BY <1>1, SeqMonotonic
<1> QED BY <1>2 DEF Rows, Of

\* An attempt that ends is put down with its reason.
LEMMA AttemptEnds ==
  ASSUME attempts \in [1..N -> Seq(Reasons)], index \in 1..N, NEW why \in Reasons, EndAttempt(why)
  PROVE  /\ attempts' \in [1..N -> Seq(Reasons)]
         /\ Len(attempts[index]) \in Nat
         /\ Len(attempts'[index]) = Len(attempts[index]) + 1
         /\ \A s \in 1..N : s # index => attempts'[s] = attempts[s]
         /\ stage' = "over"
BY DEF EndAttempt

\* What a detection writes is a context.
LEMMA NewContext ==
  ASSUME NEW s \in 1..N, NEW a \in {0, 1}, NEW type \in CrashTypes
  PROVE  [scenario |-> s, attempt |-> a, type |-> type,
          result |-> "captured", failure |-> "", policy |-> "none"] \in Context
BY DEF Context, MaxRetries

\* A sequence that grows by one element.
LEMMA SeqGrows ==
  ASSUME NEW S, NEW s \in Seq(S), NEW x \in S
  PROVE  /\ Append(s, x) \in Seq(S) /\ Len(s) \in Nat /\ Len(Append(s, x)) = Len(s) + 1
         /\ 1..Len(Append(s, x)) = 1..Len(s) \cup {Len(s) + 1}
         /\ \A k \in 1..Len(s) : Append(s, x)[k] = s[k]
         /\ Append(s, x)[Len(s) + 1] = x
OBVIOUS

\* A detection is one event more, fresh, and leaves its signal.
LEMMA Detected ==
  ASSUME contexts \in Seq(Context), index \in 1..N, Attempt \in {0, 1}, NEW type \in CrashTypes,
         Detect(type)
  PROVE  /\ contexts' \in Seq(Context)
         /\ Events' = Events \cup {signal'}
         /\ signal' \in Nat \ {0} /\ signal' \notin Events
         /\ \A e \in Events : contexts'[e] = contexts[e]
         /\ contexts'[signal'].scenario = index /\ contexts'[signal'].attempt = Attempt
         /\ contexts'[signal'].type = type
         /\ contexts'[signal'].result = "captured" /\ contexts'[signal'].failure = ""
<1> DEFINE c == [scenario |-> index, attempt |-> Attempt, type |-> type,
                 result |-> "captured", failure |-> "", policy |-> "none"]
<1>1. c \in Context
  BY NewContext
<1>2. contexts' = Append(contexts, c) /\ signal' = Len(contexts) + 1
  BY DEF Detect
<1>5. /\ c.scenario = index /\ c.attempt = Attempt /\ c.type = type
      /\ c.result = "captured" /\ c.failure = ""
  OBVIOUS
<1> HIDE DEF c
<1>3. /\ contexts' \in Seq(Context) /\ Len(contexts) \in Nat
      /\ Events' = Events \cup {signal'} /\ Events = 1..Len(contexts)
      /\ \A e \in Events : contexts'[e] = contexts[e]
      /\ contexts'[signal'] = c
  BY <1>1, <1>2, SeqGrows DEF Events
<1>4. signal' \in Nat \ {0} /\ signal' \notin Events
  BY <1>2, <1>3
<1> QED BY <1>3, <1>4, <1>5

-----------------------------------------------------------------------------
(* PlaceInv is inductive.                                                  *)

\* The parts of Types are the shape of the state.
LEMMA TypesAreTypes == Types => RunTypeOK
BY DEF Types, TypesOfPlan, TypesOfDevice, TypesOfEvents, TypesOfAttempt, RunTypeOK

\* A step of an attempt that neither ends it nor meets a crash.
LEMMA AttemptGoesOn ==
  ASSUME RunAssumption, PlaceInv,
         UNCHANGED <<plan, contexts, signal, mainVars, attempts>>,
         stage \in Loop \cup {"open", "anchor"}, stage' \in Loop \cup {"anchor", "finish"},
         TypesOfDevice', TypesOfAttempt', stage' \in Loop \ {"step"} => step' <= MaxSteps,
         stage' \in Loop \ {"step", "move"} => current' # 0,
         stage' = "finish" \/ (stage' = "overlay" /\ stop' # "none") => stopReason' \in Reasons
  PROVE  PlaceInv'
<1> USE DEF mainVars
<1>0. Events' = Events /\ Attempt' = Attempt
  BY DEF Events, Attempt
<1>1. TypesOfPlan' /\ TypesOfEvents'
  BY <1>0 DEF PlaceInv, Types, TypesOfPlan, TypesOfEvents
<1>2. PlaceOK'
  BY <1>0 DEF PlaceInv, PlaceOK, Loop, InContent, Idle
<1>3. SignalOK'
  BY <1>0 DEF PlaceInv, SignalOK, Loop, Idle
<1>4. RecoveryInScenario'
  BY <1>0 DEF PlaceInv, RecoveryInScenario
<1> QED BY <1>1, <1>2, <1>3, <1>4 DEF PlaceInv, Types

\* An attempt ends.
LEMMA AttemptIsOver ==
  ASSUME RunAssumption, PlaceInv, UNCHANGED <<plan, mainVars>>,
         stage \in {"finish", "global_nav"},
         NEW why \in Reasons, EndAttempt(why), TypesOfDevice', TypesOfAttempt',
         TypesOfEvents', \A e \in Events : e \in Events' /\ contexts'[e] = contexts[e],
         \/ signal' = 0
         \/ Fresh(signal)'
         \/ signal' \in processed /\ plan[index] # "content"
  PROVE  PlaceInv'
<1> USE DEF mainVars
<1>0. /\ index \in 1..N /\ attempts \in [1..N -> Seq(Reasons)]
      /\ Attempt = (IF handling = 0 THEN 0 ELSE 1)
      /\ handling \in Events \cup {0} /\ handling \in processed \cup {0}
  BY DEF PlaceInv, PlaceOK, Types, TypesOfPlan, TypesOfEvents, InContent, Loop, Idle
<1>1. /\ attempts' \in [1..N -> Seq(Reasons)]
      /\ Attempt' = Attempt + 1
      /\ \A s \in 1..N : s # index => attempts'[s] = attempts[s]
      /\ stage' = "over"
  BY <1>0, AttemptEnds DEF Attempt
<1>2. TypesOfPlan'
  BY <1>1 DEF PlaceInv, Types, TypesOfPlan
<1>3. PlaceOK'
  BY <1>0, <1>1 DEF PlaceInv, PlaceOK, Loop, InContent, Idle
<1>4. SignalOK'
  BY <1>1 DEF SignalOK, Loop, Idle
<1>5. RecoveryInScenario'
  BY <1>0, <1>1 DEF PlaceInv, RecoveryInScenario
<1> QED BY <1>2, <1>3, <1>4, <1>5 DEF PlaceInv, Types

\* A capture keeps the recorder's types.
LEMMA CaptureTypes ==
  ASSUME RunAssumption, PlaceInv, pid' = pid, UNCHANGED watch \/ Capture \/ CaptureOrNot \/ ConfigureRecorder
  PROVE  TypesOfDevice'
<1>1. /\ pid \in 1..(MaxRestarts + 1) /\ pid \in 0..pid /\ unread \in 0..2
      /\ recorder \in [pid : 0..pid, restart : BOOLEAN]
  BY DEF PlaceInv, Types, TypesOfDevice, RunAssumption
<1> DEFINE new == [recorder EXCEPT !.restart = FALSE]
<1>2. new \in [pid : 0..pid, restart : BOOLEAN]
  BY <1>1
<1>3. ASSUME NEW rec \in [pid : 0..pid, restart : BOOLEAN] PROVE Seen(rec) \in [pid : 0..pid, restart : BOOLEAN]
  <2> DEFINE seen == rec.restart \/ rec.pid \notin {0, pid}
  <2>1. Seen(rec) = [pid |-> pid, restart |-> seen] /\ seen \in BOOLEAN
    BY DEF Seen
  <2> HIDE DEF seen
  <2> QED BY <1>1, <2>1
<1> HIDE DEF new
<1>4. recorder' \in {recorder, new, Seen(recorder), Seen(new)}
  BY DEF watch, Capture, CaptureOrNot, Read, ConfigureRecorder, new
<1>5. recorder' \in [pid : 0..pid, restart : BOOLEAN]
  BY <1>1, <1>2, <1>3, <1>4
<1>6. unread' \in 0..2
  BY <1>1 DEF watch, Capture, CaptureOrNot, Read, ConfigureRecorder
<1> QED BY <1>1, <1>5, <1>6 DEF TypesOfDevice

\* The numbers of the instance, and those of the state.
LEMMA Sizes ==
  RunAssumption => /\ N \in Nat /\ MaxSteps \in Nat /\ MaxRestarts \in Nat
                   /\ Threshold \in Nat \ {0}
                   /\ Kinds \subseteq {"content", "global_nav", "disabled"}
BY DEF RunAssumption

\* Types as the provers use them.
LEMMA Numbers ==
  ASSUME RunAssumption, PlaceInv
  PROVE  /\ pid \in Nat \ {0} /\ current \in 0..pid /\ rows \in Rows
         /\ step \in 0..(MaxSteps + 1) /\ MaxSteps \in Nat
<1>1. pid \in 1..(MaxRestarts + 1) /\ MaxRestarts \in Nat /\ MaxSteps \in Nat
  BY Sizes DEF PlaceInv, Types, TypesOfDevice
<1>2. current \in 0..pid /\ step \in 0..(MaxSteps + 1) /\ rows \in Rows
  BY DEF PlaceInv, Types, TypesOfAttempt
<1> QED BY <1>1, <1>2

\* What a row may be depends on the process id only.
LEMMA SamePid == pid' = pid => Rows' = Rows
BY DEF Rows

\* The loop goes on, ends, or is left.
LEMMA BeginStepKeeps == ASSUME RunAssumption, PlaceInv, BeginStep PROVE PlaceInv'
<1>1. TypesOfDevice'
  BY CaptureTypes DEF BeginStep, device
<1>2. TypesOfAttempt'
  BY SamePid DEF BeginStep, device, PlaceInv, Types, TypesOfAttempt, LeaveLoop, RestartAborts, Stages,
     Reasons
<1>3. /\ stage = "step" /\ UNCHANGED <<plan, contexts, signal, mainVars, attempts>>
      /\ \/ stage' = "finish" /\ stopReason' \in Reasons
         \/ stage' = "move" /\ step' = step /\ ~(step > MaxSteps)
  BY DEF BeginStep, device, NoStepLeft, LeaveLoop, RestartAborts, Reasons
<1>4. step \in Nat /\ MaxSteps \in Nat
  BY Numbers
<1> QED BY <1>1, <1>2, <1>3, <1>4, AttemptGoesOn DEF Loop

\* TalkBack is moved on.
LEMMA MoveKeeps == ASSUME RunAssumption, PlaceInv, Move PROVE PlaceInv'
<1>1. TypesOfDevice'
  BY CaptureTypes DEF Move, device, client
<1>2. pid \in Nat \ {0} /\ current' = pid /\ pid' = pid /\ current' \in 0..pid'
  BY Numbers DEF Move, device
<1>3. TypesOfAttempt'
  BY <1>2, SamePid DEF Move, PlaceInv, Types, TypesOfAttempt, Stages
<1> QED BY <1>1, <1>2, <1>3, AttemptGoesOn DEF Move, device, client, watch, Loop, PlaceInv, PlaceOK

\* The capture after the move.
LEMMA CaptureMoveKeeps == ASSUME RunAssumption, PlaceInv, CaptureMove PROVE PlaceInv'
<1>1. TypesOfDevice'
  BY CaptureTypes DEF CaptureMove, device
<1>2. TypesOfAttempt'
  BY SamePid DEF CaptureMove, device, PlaceInv, Types, TypesOfAttempt, LeaveLoop, RestartAborts, Stages,
     Reasons
<1> QED BY <1>1, <1>2, AttemptGoesOn
        DEF CaptureMove, device, LeaveLoop, RestartAborts, Loop, PlaceInv, PlaceOK, Reasons

\* The evaluation of a step.
LEMMA DecideKeeps == ASSUME RunAssumption, PlaceInv, Decide PROVE PlaceInv'
<1>1. TypesOfDevice'
  BY CaptureTypes DEF Decide, device, client
<1>2. TypesOfAttempt'
  BY SamePid DEF Decide, device, PlaceInv, Types, TypesOfAttempt, Stages
<1> QED BY <1>1, <1>2, AttemptGoesOn DEF Decide, device, client, watch, Loop, PlaceInv, PlaceOK

\* A candidate is put in focus, or there is none.
LEMMA RecoverKeeps == ASSUME RunAssumption, PlaceInv, Recover PROVE PlaceInv'
<1>1. TypesOfDevice'
  BY CaptureTypes DEF Recover, device
<1>2. TypesOfAttempt'
  BY SamePid DEF Recover, device, PlaceInv, Types, TypesOfAttempt, Stages, Eligible
<1> QED BY <1>1, <1>2, AttemptGoesOn DEF Recover, device, Loop, PlaceInv, PlaceOK

\* The focus after recovery is read.
LEMMA VerifyKeeps == ASSUME RunAssumption, PlaceInv, Verify PROVE PlaceInv'
<1>1. TypesOfDevice'
  BY CaptureTypes DEF Verify, device, client
<1>2. /\ pid \in Nat \ {0} /\ pid' = pid /\ current' \in 0..pid'
      /\ current' = pid \/ current' = current
  BY Numbers DEF Verify, device
<1>3. TypesOfAttempt'
  BY <1>2, SamePid DEF Verify, PlaceInv, Types, TypesOfAttempt, Stages
<1> QED BY <1>1, <1>2, <1>3, AttemptGoesOn DEF Verify, device, client, watch, Loop, PlaceInv, PlaceOK

\* The row of the step is kept or suppressed.
LEMMA PersistKeeps == ASSUME RunAssumption, PlaceInv, Persist PROVE PlaceInv'
<1>1. TypesOfDevice'
  BY CaptureTypes DEF Persist, device
<1>2. rows' \in Rows'
  <2>0. current # 0 /\ pid' = pid
    BY DEF PlaceInv, PlaceOK, Loop, Persist, device
  <2>1. rows \in Rows /\ current \in 1..pid /\ pid \in Nat /\ pid' = pid
    BY <2>0, Numbers
  <2> DEFINE end == stop' # "none"
  <2>2. rows' \in {rows, Append(rows, Row("step", current, end))}
    BY DEF Persist, RestartAborts
  <2>3. end \in BOOLEAN
    OBVIOUS
  <2> HIDE DEF end
  <2>4. Append(rows, Row("step", current, end)) \in Rows
    BY <2>1, <2>3, RowsGrow
  <2>5. Rows' = Rows
    BY <2>1, SamePid
  <2> QED BY <2>1, <2>2, <2>4, <2>5
<1>3. stop' \in StopReasons \cup {"none", Repeat} /\ (stop' # "none" => stop' \in Reasons)
  BY DEF Persist, PlaceInv, Types, TypesOfAttempt, Reasons
<1>4. TypesOfAttempt'
  BY <1>2, <1>3 DEF Persist, device, PlaceInv, Types, TypesOfAttempt, LeaveLoop, RestartAborts, Stages,
     Reasons
<1>5. /\ UNCHANGED <<plan, contexts, signal, mainVars, attempts>>
      /\ stage = "content" /\ stage' \in {"overlay", "finish"}
      /\ stage' = "finish" \/ (stage' = "overlay" /\ stop' # "none") => stopReason' \in Reasons
  BY <1>3 DEF Persist, device, LeaveLoop, RestartAborts, Reasons
<1>6. step' <= MaxSteps /\ current' # 0
  BY DEF Persist, PlaceInv, PlaceOK, Loop
<1> QED BY <1>1, <1>4, <1>5, <1>6, AttemptGoesOn DEF Loop

\* An overlay is walked, or not.
LEMMA OverlayKeeps == ASSUME RunAssumption, PlaceInv, Overlay PROVE PlaceInv'
<1>1. TypesOfDevice'
  BY CaptureTypes DEF Overlay, device
<1>2. rows' \in Rows'
  <2>1. rows \in Rows /\ pid \in 1..pid /\ pid \in Nat /\ pid' = pid
    BY Numbers DEF Overlay, device
  <2>2. Append(rows, Row("overlay", pid, FALSE)) \in Rows
    BY <2>1, RowsGrow
  <2>3. Rows' = Rows
    BY <2>1, SamePid
  <2> QED BY <2>1, <2>2, <2>3 DEF Overlay
<1>3. step \in 0..MaxSteps /\ MaxSteps \in Nat
  <2>1. step <= MaxSteps
    BY DEF Overlay, PlaceInv, PlaceOK, Loop
  <2> QED BY <2>1, Numbers
<1>4. step' \in 0..(MaxSteps + 1)
  BY <1>3 DEF Overlay
<1>5. TypesOfAttempt'
  BY <1>2, <1>4 DEF Overlay, device, PlaceInv, Types, TypesOfAttempt, LeaveLoop, RestartAborts, Stages,
     Reasons
<1>6. /\ UNCHANGED <<plan, contexts, signal, mainVars, attempts>>
      /\ stage = "overlay" /\ stage' \in {"step", "finish"}
      /\ stage' = "finish" => stopReason' \in Reasons
  BY DEF Overlay, device, LeaveLoop, RestartAborts, Breaks, Reasons, PlaceInv, PlaceOK
<1> QED BY <1>1, <1>5, <1>6, AttemptGoesOn DEF Loop

\* The anchor becomes the first row.
LEMMA AnchorKeeps == ASSUME RunAssumption, PlaceInv, Anchor PROVE PlaceInv'
<1>1. TypesOfDevice' /\ Rows' = Rows
  BY CaptureTypes, SamePid DEF Anchor, device
<1>2. <<Row("terminal", pid, TRUE)>> \in Rows /\ <<Row("anchor", pid, FALSE)>> \in Rows
  <2>1. pid \in Nat /\ pid \in 1..pid /\ rows \in Rows
    BY Numbers
  <2> QED BY <2>1, RowsGrow
<1>3. step' = 1 /\ UNCHANGED <<plan, pid, contexts, signal, mainVars, current, stop, tried>>
  BY DEF Anchor, device
<1>0. step' \in 0..(MaxSteps + 1)
  BY <1>3, Numbers
<1>4. TypesOfAttempt'
  BY <1>0, <1>1, <1>2, <1>3
  DEF Anchor, NotOpened, LeaveLoop, PlaceInv, Types, TypesOfAttempt, Stages, Reasons
<1>5. (stage = "anchor" /\ stage' = "step") \/ (stage' = "finish" /\ stopReason' \in Reasons)
  BY DEF Anchor, NotOpened, LeaveLoop, Reasons
<1> QED BY <1>1, <1>3, <1>4, <1>5, AttemptGoesOn DEF Anchor, Loop

\* The attempt ends with its reason.
LEMMA FinishKeeps == ASSUME RunAssumption, PlaceInv, Finish PROVE PlaceInv'
<1>1. TypesOfDevice' /\ Rows' = Rows
  BY CaptureTypes, SamePid DEF Finish, device
<1>2. UNCHANGED <<plan, pid, contexts, signal, mainVars, attemptVars>>
  BY DEF Finish, device
<1>3. TypesOfAttempt'
  BY <1>1, <1>2 DEF Finish, EndAttempt, PlaceInv, Types, TypesOfAttempt, Stages, attemptVars
<1>4. TypesOfEvents' /\ Events' = Events
  BY <1>2 DEF PlaceInv, Types, TypesOfEvents, Events, mainVars
<1>5. \/ signal' = 0
      \/ Fresh(signal)'
      \/ signal' \in processed /\ plan[index] # "content"
  BY <1>2, <1>4 DEF Finish, PlaceInv, SignalOK, Fresh, mainVars
<1>6. stopReason \in Reasons
  BY DEF Finish, PlaceInv, PlaceOK
<1> QED BY <1>1, <1>2, <1>3, <1>4, <1>5, <1>6, AttemptIsOver DEF Finish, InContent, Loop

\* The one row of an attempt that was not opened.
LEMMA TerminalRow ==
  ASSUME RunAssumption, PlaceInv
  PROVE  /\ <<>> \in Rows /\ <<Row("terminal", pid, TRUE)>> \in Rows
         /\ <<Row("terminal", pid, FALSE)>> \in Rows
<1>1. pid \in Nat /\ pid \in 1..pid /\ rows \in Rows
  BY Numbers
<1> QED BY <1>1, RowsGrow

\* The start of an attempt.
LEMMA ConfigureKeeps == ASSUME RunAssumption, PlaceInv, Configure PROVE PlaceInv'
<1>1. TypesOfDevice' /\ Rows' = Rows
  BY CaptureTypes, SamePid DEF Configure, device
<1>2. /\ UNCHANGED <<plan, pid, contexts, mainVars>>
      /\ stage = "configure" /\ signal' = 0
      /\ step' = 0 /\ current' = 0 /\ stop' = "none" /\ tried' = {}
  BY DEF Configure, device, ResetSignal
<1>3. step' \in 0..(MaxSteps + 1) /\ current' \in 0..pid'
  BY <1>2, Numbers
<1>4. TypesOfEvents' /\ Events' = Events
  BY <1>2 DEF PlaceInv, Types, TypesOfEvents, Events, mainVars
<1>5. /\ stage' \in {"open", "finish"} /\ (stage' = "finish" => stopReason' \in Reasons)
      /\ UNCHANGED attempts
  BY DEF Configure, NotOpened, LeaveLoop, Reasons
<1>6. TypesOfAttempt'
  BY <1>1, <1>2, <1>3, TerminalRow DEF Configure, NotOpened, LeaveLoop, TypesOfAttempt, Stages, Reasons
<1>7. TypesOfPlan' /\ Attempt' = Attempt
  BY <1>2, <1>5 DEF PlaceInv, Types, TypesOfPlan, Attempt, mainVars
<1>8. PlaceOK'
  BY <1>2, <1>5, <1>7 DEF PlaceInv, PlaceOK, InContent, Loop, Idle, mainVars
<1>9. SignalOK' /\ RecoveryInScenario'
  BY <1>2, <1>4, <1>5, <1>7 DEF PlaceInv, SignalOK, RecoveryInScenario, InContent, Loop, Idle, mainVars
<1> QED BY <1>1, <1>4, <1>6, <1>7, <1>8, <1>9 DEF PlaceInv, Types

\* A global navigation scenario.
LEMMA GlobalNavigationKeeps == ASSUME RunAssumption, PlaceInv, GlobalNavigation PROVE PlaceInv'
<1>1. TypesOfDevice' /\ Rows' = Rows
  BY CaptureTypes, SamePid DEF GlobalNavigation, device
<1>2. /\ UNCHANGED <<plan, pid, contexts, signal, mainVars, step, current, stop, tried>>
      /\ stage = "global_nav"
      /\ rows' = <<Row("terminal", pid, FALSE)>>
  BY DEF GlobalNavigation, device
<1>3. PICK why \in Reasons : EndAttempt(why) /\ stopReason' = why
  BY DEF GlobalNavigation, Reasons
<1>4. TypesOfAttempt'
  BY <1>1, <1>2, <1>3, TerminalRow
  DEF EndAttempt, TypesOfAttempt, Stages, PlaceInv, Types
<1>5. TypesOfEvents' /\ Events' = Events
  BY <1>2 DEF PlaceInv, Types, TypesOfEvents, Events, mainVars
<1>6. signal \in processed \cup {0} /\ plan[index] # "content"
  BY <1>2 DEF PlaceInv, SignalOK, PlaceOK
<1> QED BY <1>1, <1>2, <1>3, <1>4, <1>5, <1>6, AttemptIsOver

\* In an attempt at a content scenario.
LEMMA InAttempt ==
  ASSUME RunAssumption, PlaceInv, stage \in Loop \cup {"open", "anchor"}
  PROVE  /\ index \in 1..N /\ Attempt = (IF handling = 0 THEN 0 ELSE 1) /\ plan[index] = "content"
         /\ contexts \in Seq(Context) /\ signal = 0
BY DEF PlaceInv, PlaceOK, SignalOK, Types, TypesOfEvents, InContent, Loop, Idle

\* After a detection the events have their types, and the new one is fresh.
LEMMA DetectedTypes ==
  ASSUME RunAssumption, PlaceInv, stage \in Loop \cup {"open", "anchor"},
         UNCHANGED <<plan, mainVars>>, NEW type \in CrashTypes, Detect(type)
  PROVE  /\ TypesOfEvents' /\ Fresh(signal)'
         /\ \A e \in Events : e \in Events' /\ contexts'[e] = contexts[e]
<1> DEFINE n == IF handling = 0 THEN 0 ELSE 1
<1>1. /\ index \in 1..N /\ Attempt = n /\ plan[index] = "content"
      /\ contexts \in Seq(Context) /\ Attempt \in {0, 1}
  BY InAttempt
<1>2. /\ contexts' \in Seq(Context)
      /\ Events' = Events \cup {signal'}
      /\ signal' \notin Events
      /\ \A e \in Events : contexts'[e] = contexts[e]
      /\ contexts'[signal'].scenario = index /\ contexts'[signal'].attempt = n
  BY <1>1, Detected
<1>3. TypesOfEvents'
  BY <1>2 DEF PlaceInv, Types, TypesOfEvents, mainVars
<1>4. Fresh(signal)'
  <2>1. processed \subseteq Events
    BY DEF PlaceInv, Types, TypesOfEvents
  <2>2. processed' = processed /\ index' = index /\ handling' = handling /\ plan' = plan
    BY DEF mainVars
  <2> QED BY <1>1, <1>2, <2>1, <2>2 DEF Fresh
<1> QED BY <1>2, <1>3, <1>4

\* An attempt is left on account of a crash.
LEMMA CrashLeaves ==
  ASSUME RunAssumption, PlaceInv, stage \in Loop \cup {"open", "anchor"}, stage' = "finish",
         UNCHANGED <<plan, mainVars, attempts>>, NEW type \in CrashTypes, Detect(type),
         TypesOfDevice', TypesOfAttempt', stopReason' \in Reasons
  PROVE  PlaceInv'
<1>1. TypesOfEvents' /\ Fresh(signal)' /\ \A e \in Events : e \in Events' /\ contexts'[e] = contexts[e]
  BY DetectedTypes
<1>2. TypesOfPlan' /\ Attempt' = Attempt
  BY DEF PlaceInv, Types, TypesOfPlan, Attempt, mainVars
<1>3. PlaceOK'
  BY <1>2 DEF PlaceInv, PlaceOK, InContent, Loop, Idle, mainVars
<1>4. SignalOK'
  BY <1>1 DEF SignalOK, Loop, Idle
<1>5. RecoveryInScenario'
  <2>1. handling \in Events \cup {0}
    BY DEF PlaceInv, Types, TypesOfEvents
  <2> QED BY <1>1, <1>2, <2>1 DEF PlaceInv, RecoveryInScenario, mainVars
<1> QED BY <1>1, <1>2, <1>3, <1>4, <1>5 DEF PlaceInv, Types

\* A step is inspected for a crash.
LEMMA GuardKeeps == ASSUME RunAssumption, PlaceInv, Guard PROVE PlaceInv'
<1>1. TypesOfDevice' /\ Rows' = Rows
  BY CaptureTypes, SamePid DEF Guard, device
<1>2. /\ UNCHANGED <<plan, pid, mainVars, attempts, step, current, stop, tried>>
      /\ stage = "guard"
  BY DEF Guard, device
<1>3. CASE NoDetection /\ stage' = "decide" /\ UNCHANGED <<rows, stopReason>>
  <2>1. TypesOfAttempt'
    BY <1>1, <1>2, <1>3 DEF PlaceInv, Types, TypesOfAttempt, Stages
  <2>2. signal = 0 /\ signal' = 0
    BY <1>2, <1>3, InAttempt DEF Loop, NoDetection
  <2> QED BY <1>1, <1>2, <1>3, <2>1, <2>2, AttemptGoesOn
          DEF NoDetection, Loop, PlaceInv, PlaceOK
<1>4. ASSUME NEW type \in CrashTypes, Detect(type), LeaveLoop(ReasonOf(type)),
             rows' = Append(rows, Row("step", current, TRUE))
      PROVE  PlaceInv'
  <2>2. stage' = "finish" /\ stopReason' \in Reasons
    BY <1>4 DEF LeaveLoop, ReasonOf, Reasons
  <2>3. rows' \in Rows
    <3>1. current # 0
      BY <1>2 DEF PlaceInv, PlaceOK, Loop
    <3>2. pid \in Nat /\ current \in 1..pid /\ rows \in Rows
      BY <3>1, Numbers
    <3> QED BY <1>4, <3>2, RowsGrow
  <2>4. TypesOfAttempt'
    BY <1>1, <1>2, <2>2, <2>3 DEF PlaceInv, Types, TypesOfAttempt, Stages
  <2> QED BY <1>1, <1>2, <1>4, <2>2, <2>4, CrashLeaves DEF Loop
<1> QED BY <1>3, <1>4 DEF Guard

\* The scenario is opened, or it is not.
LEMMA OpenKeeps == ASSUME RunAssumption, PlaceInv, Open PROVE PlaceInv'
<1>0. UNCHANGED attempts
  BY DEF Open
<1>1. TypesOfDevice' /\ Rows' = Rows
  BY CaptureTypes, SamePid DEF Open, device
<1>2. /\ UNCHANGED <<plan, pid, mainVars, step, current, stop, tried>>
      /\ stage = "open"
  BY DEF Open, device
<1>3. signal = 0
  BY <1>2, InAttempt
<1>4. ASSUME NEW type \in CrashTypes, Detect(type), NEW why \in Reasons, NotOpened(why)
      PROVE  PlaceInv'
  <2>1. stage' = "finish" /\ stopReason' \in Reasons
    BY <1>4 DEF NotOpened, LeaveLoop
  <2>2. TypesOfAttempt'
    BY <1>1, <1>2, <1>4, TerminalRow DEF NotOpened, LeaveLoop, PlaceInv, Types, TypesOfAttempt, Stages
  <2> QED BY <1>1, <1>2, <1>4, <1>0, <2>1, <2>2, CrashLeaves
<1>5. ASSUME signal' = 0, UNCHANGED contexts, NEW why \in Reasons, NotOpened(why)
      PROVE  PlaceInv'
  <2>1. stage' = "finish" /\ stopReason' \in Reasons
    BY <1>5 DEF NotOpened, LeaveLoop
  <2>2. TypesOfAttempt'
    BY <1>1, <1>2, <1>5, TerminalRow DEF NotOpened, LeaveLoop, PlaceInv, Types, TypesOfAttempt, Stages
  <2> QED BY <1>1, <1>2, <1>3, <1>5, <1>0, <2>1, <2>2, AttemptGoesOn DEF Loop
<1>6. ASSUME UNCHANGED <<signal, contexts, rows, stopReason>>, stage' = "anchor"
      PROVE  PlaceInv'
  <2>1. TypesOfAttempt'
    BY <1>1, <1>2, <1>6 DEF PlaceInv, Types, TypesOfAttempt, Stages
  <2> QED BY <1>1, <1>2, <1>0, <1>6, <2>1, AttemptGoesOn DEF Loop
<1>7. \/ \E type \in CrashTypes, why \in Reasons : Detect(type) /\ NotOpened(why)
      \/ signal' = 0 /\ UNCHANGED contexts /\ \E why \in Reasons : NotOpened(why)
      \/ UNCHANGED <<signal, contexts, rows, stopReason>> /\ stage' = "anchor"
  <2>1. PICK outcome \in {"opened", "special_state_handled", "optional_not_available",
                          "tab_or_anchor_failed"} \cup CrashTypes :
       /\ \/ outcome \in CrashTypes /\ Detect(outcome)
          \/ outcome = "tab_or_anchor_failed" /\ NoDetection
          \/ outcome \notin CrashTypes /\ UNCHANGED <<signal, contexts>>
       /\ \/ recorder'.restart /\ NotOpened("talkback_restarted")
          \/ ~recorder'.restart /\ outcome \in CrashTypes /\ NotOpened(ReasonOf(outcome))
          \/ ~recorder'.restart /\ outcome \notin CrashTypes \cup {"opened"} /\ NotOpened(outcome)
          \/ /\ ~recorder'.restart /\ outcome = "opened"
             /\ stage' = "anchor"
             /\ UNCHANGED <<rows, stopReason>>
    BY DEF Open
  <2>2. outcome \in CrashTypes => ReasonOf(outcome) \in Reasons
    BY DEF ReasonOf, Reasons
  <2>3. outcome \notin CrashTypes \cup {"opened"} => outcome \in Reasons
    BY DEF Reasons
  <2>4. "talkback_restarted" \in Reasons
    BY DEF Reasons
  <2>5. "opened" \notin CrashTypes /\ "tab_or_anchor_failed" \notin CrashTypes
    BY DEF CrashTypes
  <2> QED BY <1>3, <2>1, <2>2, <2>3, <2>4, <2>5 DEF NoDetection
<1> QED BY <1>4, <1>5, <1>6, <1>7

-----------------------------------------------------------------------------
(* main().                                                                 *)

\* What may become of a crash.
Results == {"captured", "recovery_preflight_passed", "recovery_preflight_failed",
            "crash_recovered", "crash_repeated"}

\* An outcome written into a context leaves the rest of it alone.
LEMMA ContextUpdated ==
  ASSUME NEW c \in Context, NEW r \in Results
  PROVE  /\ [c EXCEPT !.result = r] \in Context
         /\ \A f \in Failures \cup {"ok"}, p \in {"continue", "abort"} :
              [c EXCEPT !.result = r, !.failure = f, !.policy = p] \in Context
BY DEF Context, Results

\* The contexts, when each event's is replaced by another.
LEMMA ContextsReplaced ==
  ASSUME contexts \in Seq(Context), NEW f, f = [e \in Events |-> f[e]], 
         \A e \in Events : f[e] \in Context
  PROVE  f \in Seq(Context) /\ Len(f) = Len(contexts)
<1>1. Len(contexts) \in Nat /\ Events = 1..Len(contexts)
  BY LenProperties DEF Events
<1>2. f \in [1..Len(contexts) -> Context]
  BY <1>1
<1> QED BY <1>1, <1>2, SeqDef

\* What settling an event does.
LEMMA Settled ==
  ASSUME RunAssumption, TypesOfEvents, NEW again \in Events \cup {0}, NEW result \in Results,
         NEW failure \in Failures \cup {"ok"}, processed' \subseteq Events,
         signal' = signal, Settle(again, result, failure)
  PROVE  /\ TypesOfEvents' /\ Events' = Events /\ handling' = 0 /\ stage' = "next"
         /\ \A e \in Events : /\ contexts'[e].scenario = contexts[e].scenario
                              /\ contexts'[e].attempt = contexts[e].attempt
                              /\ contexts'[e].type = contexts[e].type
                              /\ contexts'[e].result = IF e \in {handling, again} THEN result
                                                       ELSE contexts[e].result
                              /\ contexts'[e].failure = IF e \in {handling, again} THEN failure
                                                        ELSE contexts[e].failure
         /\ stats' = Count(Count(stats, handling, result), again, result)
         /\ abort' = (Policy(stats', failure) = "abort")
<1> DEFINE st == Count(Count(stats, handling, result), again, result)
           policy == Policy(st, failure)
           new(e) == [contexts[e] EXCEPT !.result = result, !.failure = failure, !.policy = policy]
<1>1. /\ contexts' = [e \in Events |-> IF e \in {handling, again} THEN new(e) ELSE contexts[e]]
      /\ stats' = st /\ abort' = (policy = "abort") /\ abort' = (Policy(stats', failure) = "abort")
      /\ handling' = 0 /\ stage' = "next"
  BY DEF Settle
<1>2. policy \in {"continue", "abort"}
  BY DEF Policy
<1>3. ASSUME NEW e \in Events PROVE contexts[e] \in Context
  BY <1>3, ElementOfSeq DEF TypesOfEvents, Events
<1> HIDE DEF policy
<1>4. ASSUME NEW e \in Events PROVE new(e) \in Context
  BY <1>2, <1>3, ContextUpdated
<1>5. contexts' \in Seq(Context) /\ Len(contexts') = Len(contexts)
  <2>1. \A e \in Events : contexts'[e] \in Context
    BY <1>1, <1>3, <1>4
  <2>2. contexts' = [e \in Events |-> contexts'[e]]
    BY <1>1
  <2> QED BY <2>1, <2>2, ContextsReplaced DEF TypesOfEvents
<1>6. Events' = Events
  BY <1>5 DEF Events
<1>7. st \in [seen : SUBSET Events, counted : Nat]
  <2>1. ASSUME NEW s \in [seen : SUBSET Events, counted : Nat], NEW e \in Events \cup {0}
        PROVE  Count(s, e, result) \in [seen : SUBSET Events, counted : Nat]
    BY <2>1 DEF Count
  <2>2. stats \in [seen : SUBSET Events, counted : Nat] /\ handling \in Events \cup {0}
    BY DEF TypesOfEvents
  <2> QED BY <2>1, <2>2
<1>8. TypesOfEvents'
  BY <1>1, <1>5, <1>6, <1>7 DEF TypesOfEvents
<1>9. ASSUME NEW e \in Events
      PROVE  /\ contexts'[e].scenario = contexts[e].scenario
             /\ contexts'[e].attempt = contexts[e].attempt
             /\ contexts'[e].type = contexts[e].type
             /\ contexts'[e].result = IF e \in {handling, again} THEN result ELSE contexts[e].result
             /\ contexts'[e].failure = IF e \in {handling, again} THEN failure ELSE contexts[e].failure
  <2>1. contexts[e] \in Context
    BY <1>3
  <2>2. contexts'[e] = IF e \in {handling, again} THEN new(e) ELSE contexts[e]
    BY <1>1
  <2> QED BY <2>1, <2>2 DEF Context
<1> QED BY <1>1, <1>6, <1>8, <1>9

\* The next scenario.
LEMMA NextScenarioKeeps == ASSUME RunAssumption, PlaceInv, NextScenario PROVE PlaceInv'
<1>1. /\ UNCHANGED <<plan, pid, recorder, unread, signal, contexts, attemptVars, handling, processed, stats,
                     abort, attempts>>
      /\ index' = index + 1 /\ stage = "next" /\ index < N
      /\ stage' = IF plan[index'] = "disabled" THEN "next" ELSE Stage(plan[index'])
  BY DEF NextScenario, device, client, watch
<1>2. index \in 0..N /\ N \in Nat /\ index' \in 1..N
  BY <1>1, Sizes DEF PlaceInv, Types, TypesOfPlan
<1>3. plan[index'] \in {"content", "global_nav", "disabled"}
  <2>1. plan \in [1..N -> Kinds] /\ Kinds \subseteq {"content", "global_nav", "disabled"}
    BY Sizes DEF PlaceInv, Types, TypesOfPlan
  <2> QED BY <1>2, <2>1
<1>4. /\ stage' \in {"next", "configure", "global_nav"}
      /\ stage' = "configure" => plan[index'] = "content"
      /\ stage' = "global_nav" => plan[index'] = "global_nav"
  BY <1>1, <1>3 DEF Stage
<1>5. attempts[index'] = <<>> /\ handling = 0 /\ signal \in processed \cup {0}
  BY <1>1, <1>2 DEF PlaceInv, PlaceOK, SignalOK, Idle
<1>6. Attempt' = 0 /\ Events' = Events /\ Rows' = Rows
  BY <1>1, <1>5 DEF Attempt, Events, Rows
<1>7. Types'
  <2>1. TypesOfPlan'
    BY <1>1, <1>2 DEF PlaceInv, Types, TypesOfPlan
  <2>2. TypesOfDevice' /\ TypesOfEvents'
    BY <1>1, <1>6 DEF PlaceInv, Types, TypesOfDevice, TypesOfEvents
  <2>3. TypesOfAttempt'
    BY <1>1, <1>4, <1>6 DEF PlaceInv, Types, TypesOfAttempt, attemptVars, Stages
  <2> QED BY <2>1, <2>2, <2>3 DEF Types
<1>8. PlaceOK'
  <2>1. \A s \in 1..N : s > index' => attempts'[s] = <<>>
    BY <1>1, <1>2 DEF PlaceInv, PlaceOK
  <2> QED BY <1>1, <1>2, <1>4, <1>5, <1>6, <2>1 DEF PlaceOK, InContent, Loop, Idle
<1>9. SignalOK' /\ RecoveryInScenario'
  BY <1>1, <1>4, <1>5 DEF SignalOK, RecoveryInScenario, Loop, Idle
<1> QED BY <1>7, <1>8, <1>9 DEF PlaceInv

\* The end of the run.
LEMMA EndRunKeeps == ASSUME RunAssumption, PlaceInv, EndRun PROVE PlaceInv'
<1>1. /\ UNCHANGED <<plan, pid, recorder, unread, signal, contexts, attemptVars, mainVars, attempts>>
      /\ stage = "next" /\ stage' = "done"
  BY DEF EndRun, device, client, watch
<1>2. Attempt' = Attempt /\ Events' = Events /\ Rows' = Rows
  BY <1>1 DEF Attempt, Events, Rows, mainVars
<1>3. Types'
  BY <1>1, <1>2 DEF PlaceInv, Types, TypesOfPlan, TypesOfDevice, TypesOfEvents, TypesOfAttempt,
                    attemptVars, mainVars, Stages
<1>4. PlaceOK'
  BY <1>1, <1>2 DEF PlaceInv, PlaceOK, InContent, Loop, Idle, mainVars
<1>5. SignalOK' /\ RecoveryInScenario'
  BY <1>1, <1>2 DEF PlaceInv, PlaceOK, SignalOK, RecoveryInScenario, Loop, Idle, mainVars
<1> QED BY <1>3, <1>4, <1>5 DEF PlaceInv

\* What is known when an attempt is over.
LEMMA WhenOver ==
  ASSUME RunAssumption, PlaceInv, stage = "over"
  PROVE  /\ index \in 1..N /\ Attempt = (IF handling = 0 THEN 1 ELSE 2)
         /\ \/ signal = 0
            \/ Fresh(signal)
            \/ signal \in processed /\ plan[index] # "content"
BY DEF PlaceInv, PlaceOK, SignalOK, Idle

\* A fresh signal is taken up.
LEMMA AfterAttemptKeeps == ASSUME RunAssumption, PlaceInv, AfterAttempt PROVE PlaceInv'
<1>1. /\ UNCHANGED <<plan, pid, recorder, unread, signal, contexts, attemptVars, index, stats, abort, attempts>>
      /\ stage = "over" /\ handling = 0
  BY DEF AfterAttempt, device, client, watch
<1>2. /\ Attempt' = Attempt /\ Events' = Events /\ Rows' = Rows
      /\ index \in 1..N /\ Attempt = 1
      /\ \/ signal = 0
         \/ Fresh(signal)
         \/ signal \in processed /\ plan[index] # "content"
  BY <1>1, WhenOver DEF Attempt, Events, Rows
<1>3. CASE /\ signal \in processed \cup {0} /\ stage' = "next"
           /\ UNCHANGED <<processed, handling>>
  <2>1. Types'
    BY <1>1, <1>2, <1>3 DEF PlaceInv, Types, TypesOfPlan, TypesOfDevice, TypesOfEvents, TypesOfAttempt,
                            attemptVars, Stages
  <2>2. PlaceOK'
    BY <1>1, <1>2, <1>3 DEF PlaceInv, PlaceOK, InContent, Loop, Idle
  <2>3. SignalOK' /\ RecoveryInScenario'
    BY <1>1, <1>3 DEF SignalOK, RecoveryInScenario, Loop, Idle
  <2> QED BY <2>1, <2>2, <2>3 DEF PlaceInv
<1>4. CASE /\ signal \notin processed \cup {0} /\ MarkProcessed
           /\ handling' = signal /\ stage' = "preflight"
  <2>1. /\ Fresh(signal) /\ signal # 0 /\ signal \in Events
        /\ processed' = processed \cup {signal}
    BY <1>2, <1>4 DEF Fresh, MarkProcessed
  <2>2. Types'
    BY <1>1, <1>2, <1>4, <2>1
    DEF PlaceInv, Types, TypesOfPlan, TypesOfDevice, TypesOfEvents, TypesOfAttempt, attemptVars, Stages
  <2>3. PlaceOK'
    BY <1>1, <1>2, <1>4, <2>1 DEF PlaceInv, PlaceOK, InContent, Loop, Idle
  <2>4. SignalOK' /\ RecoveryInScenario'
    BY <1>1, <1>2, <1>4, <2>1 DEF SignalOK, RecoveryInScenario, Fresh, Loop, Idle
  <2> QED BY <2>2, <2>3, <2>4 DEF PlaceInv
<1> QED BY <1>3, <1>4 DEF AfterAttempt

\* The step to the next scenario after a crash has been settled.
LEMMA SettledKeeps ==
  ASSUME RunAssumption, PlaceInv, stage \in {"preflight", "over"}, TypesOfEvents',
         Events' = Events, handling' = 0, stage' = "next", processed \subseteq processed',
         UNCHANGED <<plan, pid, recorder, unread, signal, attemptVars, index, attempts>>,
         signal' \in processed' \cup {0}
  PROVE  PlaceInv'
<1>1. Rows' = Rows
  BY DEF Rows
<1>2. Types'
  BY <1>1 DEF PlaceInv, Types, TypesOfPlan, TypesOfDevice, TypesOfAttempt, attemptVars, Stages
<1>3. PlaceOK'
  BY DEF PlaceInv, PlaceOK, InContent, Loop, Idle
<1>4. SignalOK' /\ RecoveryInScenario'
  BY DEF SignalOK, RecoveryInScenario, Loop, Idle
<1> QED BY <1>2, <1>3, <1>4 DEF PlaceInv

\* The app is brought back, or it is not.
LEMMA PreflightKeeps == ASSUME RunAssumption, PlaceInv, Preflight PROVE PlaceInv'
<1>1. /\ UNCHANGED <<plan, pid, recorder, unread, signal, attemptVars, index, processed, attempts>>
      /\ stage = "preflight"
  BY DEF Preflight, device, client, watch
<1>2. /\ index \in 1..N /\ handling \in Events /\ Attempt = 1
      /\ signal \in processed \cup {0} /\ processed \subseteq Events /\ TypesOfEvents
      /\ plan[index] = "content"
  BY <1>1 DEF PlaceInv, PlaceOK, SignalOK, RecoveryInScenario, Types, TypesOfEvents, Idle
<1>3. PICK reason \in Failures \cup {"ok"} :
       IF reason = "ok" /\ contexts[handling].attempt < MaxRetries
       THEN /\ contexts' = [contexts EXCEPT ![handling].result = "recovery_preflight_passed"]
            /\ stage' = Stage(plan[index])
            /\ UNCHANGED <<handling, stats, abort>>
       ELSE Settle(0, IF reason = "ok" THEN "recovery_preflight_passed"
                      ELSE "recovery_preflight_failed", reason)
  BY DEF Preflight
<1>4. CASE reason = "ok" /\ contexts[handling].attempt < MaxRetries
  <2> DEFINE c == [contexts[handling] EXCEPT !.result = "recovery_preflight_passed"]
  <2>1. /\ contexts' = [contexts EXCEPT ![handling] = c]
        /\ stage' = "configure" /\ UNCHANGED <<handling, stats, abort>>
    BY <1>2, <1>3, <1>4 DEF Stage
  <2>2. contexts \in Seq(Context) /\ handling \in 1..Len(contexts)
    BY <1>2 DEF TypesOfEvents, Events
  <2>3. contexts[handling] \in Context
    BY <2>2, ElementOfSeq
  <2>4. c \in Context /\ c.scenario = contexts[handling].scenario /\ c.attempt = contexts[handling].attempt
    <3>1. c \in Context
      BY <2>3, ContextUpdated DEF Results
    <3> QED BY <2>3, <3>1 DEF Context
  <2> HIDE DEF c
  <2>5. /\ contexts' \in Seq(Context) /\ Len(contexts') = Len(contexts)
        /\ contexts'[handling] = c
    BY <2>1, <2>2, <2>4, ExceptSeq
  <2>6. Events' = Events /\ Attempt' = Attempt /\ Rows' = Rows
    BY <1>1, <2>5 DEF Events, Attempt, Rows
  <2>7. Types'
    BY <1>1, <2>1, <2>5, <2>6
    DEF PlaceInv, Types, TypesOfPlan, TypesOfDevice, TypesOfEvents, TypesOfAttempt, attemptVars, Stages
  <2>8. PlaceOK'
    BY <1>1, <1>2, <2>1, <2>6 DEF PlaceInv, PlaceOK, InContent, Loop, Idle
  <2>9. SignalOK'
    BY <1>1, <1>2, <2>1 DEF SignalOK, Loop, Idle
  <2>10. RecoveryInScenario'
    BY <1>1, <2>1, <2>4, <2>5, <2>6 DEF PlaceInv, RecoveryInScenario
  <2> QED BY <2>7, <2>8, <2>9, <2>10 DEF PlaceInv
<1>5. CASE ~(reason = "ok" /\ contexts[handling].attempt < MaxRetries)
  <2> DEFINE r == IF reason = "ok" THEN "recovery_preflight_passed" ELSE "recovery_preflight_failed"
  <2>1. Settle(0, r, reason) /\ r \in Results
    BY <1>3, <1>5 DEF Results
  <2> HIDE DEF r
  <2>2. TypesOfEvents' /\ Events' = Events /\ handling' = 0 /\ stage' = "next"
    BY <1>1, <1>2, <2>1, Settled
  <2> QED BY <1>1, <1>2, <2>2, SettledKeeps
<1> QED BY <1>4, <1>5

\* The outcome of the second attempt.
LEMMA AfterRetryKeeps == ASSUME RunAssumption, PlaceInv, AfterRetry PROVE PlaceInv'
<1>1. /\ UNCHANGED <<plan, pid, recorder, unread, signal, attemptVars, index, attempts>>
      /\ stage = "over" /\ handling # 0
  BY DEF AfterRetry, device, client, watch
<1>2. TypesOfEvents /\ signal \in Events \cup {0} /\ processed \subseteq Events
  BY DEF PlaceInv, Types, TypesOfEvents
<1>3. CASE signal = 0 /\ Settle(0, "crash_recovered", "ok") /\ UNCHANGED processed
  <2>1. TypesOfEvents' /\ Events' = Events /\ handling' = 0 /\ stage' = "next"
    BY <1>1, <1>2, <1>3, Settled DEF Results
  <2> QED BY <1>1, <1>2, <1>3, <2>1, SettledKeeps
<1>4. CASE signal # 0 /\ Settle(signal, "crash_repeated", "ok") /\ MarkProcessed
  <2>1. TypesOfEvents' /\ Events' = Events /\ handling' = 0 /\ stage' = "next"
    BY <1>1, <1>2, <1>4, Settled DEF Results, MarkProcessed
  <2> QED BY <1>1, <1>2, <1>4, <2>1, SettledKeeps DEF MarkProcessed
<1> QED BY <1>3, <1>4 DEF AfterRetry

\* The run is cut short.
LEMMA InterruptKeeps == ASSUME RunAssumption, PlaceInv, Interrupt PROVE PlaceInv'
<1>1. /\ UNCHANGED <<plan, pid, recorder, unread, signal, contexts, attemptVars, mainVars, attempts>>
      /\ stage \notin {"done", "interrupted"} /\ stage' = "interrupted"
  BY DEF Interrupt, device, client, watch
<1>2. Attempt' = Attempt /\ Events' = Events /\ Rows' = Rows
  BY <1>1 DEF Attempt, Events, Rows, mainVars
<1>3. Types'
  BY <1>1, <1>2 DEF PlaceInv, Types, TypesOfPlan, TypesOfDevice, TypesOfEvents, TypesOfAttempt,
                    attemptVars, mainVars, Stages
<1>4. PlaceOK' /\ SignalOK' /\ RecoveryInScenario'
  BY <1>1, <1>2 DEF PlaceInv, PlaceOK, SignalOK, RecoveryInScenario, InContent, Loop, Idle, mainVars
<1> QED BY <1>3, <1>4 DEF PlaceInv

\* The process id grows.
LEMMA TalkBackRestartsKeeps == ASSUME RunAssumption, PlaceInv, TalkBackRestarts PROVE PlaceInv'
<1>1. /\ UNCHANGED <<plan, client, contexts, stage, attemptVars, mainVars, attempts>>
      /\ pid' = pid + 1 /\ pid <= MaxRestarts
  BY DEF TalkBackRestarts
<1>2. Attempt' = Attempt /\ Events' = Events
  BY <1>1 DEF Attempt, Events, mainVars
<1>3. pid \in Nat \ {0} /\ MaxRestarts \in Nat /\ current \in 0..pid /\ rows \in Rows
  BY Numbers, Sizes
<1>4. rows' \in Rows'
  BY <1>1, <1>3, RowsStay DEF attemptVars
<1>5. TypesOfDevice'
  <2>1. recorder' \in [pid : 0..pid, restart : BOOLEAN] /\ 0..pid \subseteq 0..pid' /\ unread' \in 0..2
    BY <1>1, <1>3 DEF client, watch, PlaceInv, Types, TypesOfDevice
  <2>2. recorder' \in [pid : 0..pid', restart : BOOLEAN]
    BY <2>1
  <2> QED BY <1>1, <1>3, <2>1, <2>2 DEF TypesOfDevice
<1>6. current' \in 0..pid'
  BY <1>1, <1>3 DEF attemptVars
<1>7. TypesOfPlan' /\ TypesOfEvents' /\ TypesOfAttempt'
  BY <1>1, <1>2, <1>4, <1>6 DEF PlaceInv, Types, TypesOfPlan, TypesOfEvents, TypesOfAttempt,
                                attemptVars, mainVars, client, watch
<1>8. PlaceOK' /\ SignalOK' /\ RecoveryInScenario'
  BY <1>1, <1>2 DEF PlaceInv, PlaceOK, SignalOK, Fresh, RecoveryInScenario, mainVars, attemptVars, client, watch
<1> QED BY <1>5, <1>7, <1>8 DEF PlaceInv, Types

\* A step that changes nothing.
LEMMA StutterKeepsPlace == ASSUME PlaceInv, UNCHANGED runVars PROVE PlaceInv'
<1>1. UNCHANGED <<plan, pid, recorder, unread, signal, contexts, stage, rows, step, current, stop, stopReason,
                  tried, index, handling, processed, stats, abort, attempts>>
  BY DEF runVars, device, client, watch, attemptVars, mainVars
<1>2. Events' = Events /\ Rows' = Rows /\ Attempt' = Attempt
  BY <1>1 DEF Events, Rows, Attempt
<1>3. Types'
  BY <1>1, <1>2 DEF PlaceInv, Types, TypesOfPlan, TypesOfDevice, TypesOfEvents, TypesOfAttempt
<1>4. PlaceOK'
  BY <1>1, <1>2 DEF PlaceInv, PlaceOK
<1>5. SignalOK' /\ RecoveryInScenario'
  BY <1>1, <1>2 DEF PlaceInv, SignalOK, Fresh, RecoveryInScenario
<1> QED BY <1>3, <1>4, <1>5 DEF PlaceInv

\* The initial state.
LEMMA InitPlace == RunAssumption /\ RunInit => PlaceInv
<1> SUFFICES ASSUME RunAssumption, RunInit PROVE PlaceInv
  OBVIOUS
<1>1. /\ plan \in [1..N -> Kinds] /\ pid = 1 /\ unread = 0
      /\ recorder \in {[pid |-> id, restart |-> FALSE] : id \in 0..1}
      /\ signal = 0 /\ contexts = <<>> /\ stage = "next" /\ rows = <<>> /\ step = 0 /\ current = 0
      /\ stop = "none" /\ stopReason = "" /\ tried = {}
      /\ index = 0 /\ handling = 0 /\ processed = {}
      /\ stats = [seen |-> {}, counted |-> 0] /\ abort = FALSE
      /\ attempts = [s \in 1..N |-> <<>>]
  BY DEF RunInit
<1>2. contexts \in Seq(Context) /\ Len(contexts) = 0
  BY <1>1, EmptySeq
<1>3. rows \in Rows
  BY <1>1, EmptySeq DEF Rows
<1>4. Events = {}
  BY <1>2 DEF Events
<1>5. attempts \in [1..N -> Seq(Reasons)]
  BY <1>1, EmptySeq
<1>6. TypesOfPlan /\ TypesOfDevice
  <2>1. plan \in [1..N -> Kinds] /\ index = 0 /\ pid = 1 /\ unread = 0
        /\ recorder \in {[pid |-> id, restart |-> FALSE] : id \in 0..1}
    BY <1>1
  <2>2. 0 \in 0..N /\ 1 \in 1..(MaxRestarts + 1) /\ {0, 1} \subseteq 0..1
    BY Sizes
  <2>3. recorder \in [pid : 0..1, restart : BOOLEAN]
    <3>1. PICK id \in 0..1 : recorder = [pid |-> id, restart |-> FALSE]
      BY <2>1
    <3> DEFINE no == FALSE
    <3>2. no \in BOOLEAN /\ recorder = [pid |-> id, restart |-> no]
      BY <3>1
    <3> HIDE DEF no
    <3> QED BY <3>2
  <2> QED BY <1>5, <2>1, <2>2, <2>3 DEF TypesOfPlan, TypesOfDevice
<1>7. TypesOfEvents
  BY <1>1, <1>2, <1>4 DEF TypesOfEvents
<1>8. TypesOfAttempt
  <2>1. /\ stage = "next" /\ step = 0 /\ current = 0 /\ pid = 1
        /\ stop = "none" /\ stopReason = "" /\ tried = {}
    BY <1>1
  <2>2. 0 \in 0..(MaxSteps + 1) /\ 0 \in 0..1
    BY Sizes
  <2> QED BY <1>3, <2>1, <2>2 DEF TypesOfAttempt, Stages
<1>9. PlaceOK
  BY <1>1 DEF PlaceOK, InContent, Loop, Idle
<1>10. SignalOK /\ RecoveryInScenario
  BY <1>1 DEF SignalOK, RecoveryInScenario, Loop, Idle
<1> QED BY <1>6, <1>7, <1>8, <1>9, <1>10 DEF PlaceInv, Types

\* Every step keeps the types, and the runner knows where it is.
LEMMA StepKeepsPlace == ASSUME RunAssumption, PlaceInv, [RunNext]_runVars PROVE PlaceInv'
BY ConfigureKeeps, OpenKeeps, AnchorKeeps, BeginStepKeeps, MoveKeeps, CaptureMoveKeeps, GuardKeeps,
   DecideKeeps, RecoverKeeps, VerifyKeeps, PersistKeeps, OverlayKeeps, FinishKeeps,
   GlobalNavigationKeeps, NextScenarioKeeps, EndRunKeeps, AfterAttemptKeeps, PreflightKeeps,
   AfterRetryKeeps, InterruptKeeps, TalkBackRestartsKeeps, StutterKeepsPlace
DEF RunNext, Collect, Main

\* Where the runner is, the types of what it knows there, and which crash it
\* is at, fit together in every state (collect_tab_rows, main).
THEOREM PlaceInvariant == RunSpec => []PlaceInv
<1>1. RunInit => PlaceInv
  BY InitPlace, RunAssumption
<1>2. PlaceInv /\ [RunNext]_runVars => PlaceInv'
  BY StepKeepsPlace, RunAssumption
<1> QED BY <1>1, <1>2, PTL DEF RunSpec

\* The state of a run keeps its types.
THEOREM RunTypesHold == RunSpec => []RunTypeOK
<1>1. PlaceInv => RunTypeOK
  BY TypesAreTypes DEF PlaceInv
<1> QED BY <1>1, PlaceInvariant, PTL

\* A crash is only recovered from within the scenario it happened in, which is
\* tried at most once more, and while no other crash is open (main,
\* should_process_crash_recovery).
THEOREM RecoveryStaysInScenario == RunSpec => []RecoveryInScenario
<1>1. PlaceInv => RecoveryInScenario
  BY DEF PlaceInv
<1> QED BY <1>1, PlaceInvariant, PTL

-----------------------------------------------------------------------------
(* RowsInv is inductive.                                                   *)

\* The row that is put after the others.
LEMMA OneRowMore ==
  ASSUME pid \in Nat, rows \in Rows, NEW kind \in {"terminal", "anchor", "step", "overlay"},
         NEW p \in 1..pid, NEW end \in BOOLEAN, rows' = Append(rows, Row(kind, p, end))
  PROVE  /\ Len(rows) \in Nat /\ DOMAIN rows = 1..Len(rows) /\ DOMAIN rows' = 1..(Len(rows) + 1)
         /\ \A k \in DOMAIN rows : rows'[k] = rows[k]
         /\ rows'[Len(rows) + 1].kind = kind
         /\ rows'[Len(rows) + 1].pid = p
         /\ rows'[Len(rows) + 1].end = end
<1> DEFINE r == Row(kind, p, end)
           S == [kind : {"terminal", "anchor", "step", "overlay"}, pid : 1..pid, end : BOOLEAN]
<1>1. r \in S /\ r.kind = kind /\ r.pid = p /\ r.end = end
  BY DEF Row
<1>3. rows \in Seq(S) /\ rows' = Append(rows, r)
  BY DEF Rows
<1> HIDE DEF r, S
<1>2. /\ Len(rows) \in Nat /\ DOMAIN rows = 1..Len(rows) /\ DOMAIN rows' = 1..(Len(rows) + 1)
      /\ \A k \in DOMAIN rows : rows'[k] = rows[k]
      /\ rows'[Len(rows) + 1] = r
  BY <1>1, <1>3
<1> QED BY <1>1, <1>2

\* A row of the main loop follows rows that do not end it.
LEMMA MainRowMore ==
  ASSUME pid \in Nat, rows \in Rows, NEW p \in 1..pid, NEW end \in BOOLEAN,
         rows' = Append(rows, Row("step", p, end)),
         ~Ended
  PROVE  /\ \A j, k \in DOMAIN rows' : j < k /\ rows'[j].end => rows'[k].kind = "overlay"
         /\ (Ended' <=> end)
         /\ \A r \in Nat : AllOf(r) => Before(r)' /\ (p >= r => NoneOlder(r)')
<1> DEFINE n == Len(rows) + 1
<1>1. /\ Len(rows) \in Nat /\ DOMAIN rows = 1..Len(rows) /\ DOMAIN rows' = 1..n
      /\ \A k \in DOMAIN rows : rows'[k] = rows[k]
      /\ rows'[n].kind = "step" /\ rows'[n].pid = p /\ rows'[n].end = end
  BY OneRowMore
<1>3. ASSUME NEW k \in DOMAIN rows', k # n PROVE k \in DOMAIN rows /\ rows'[k] = rows[k]
  BY <1>1, <1>3
<1>6. ASSUME NEW j \in DOMAIN rows', NEW k \in DOMAIN rows', j < k PROVE j # n /\ n \in DOMAIN rows'
  BY <1>1, <1>6 DEF n
<1>2. n \in DOMAIN rows'
  BY <1>1 DEF n
<1> HIDE DEF n
<1>4. ASSUME NEW k \in DOMAIN rows PROVE ~rows[k].end
  BY <1>4 DEF Ended
<1>5. ASSUME NEW r \in Nat, AllOf(r), NEW k \in DOMAIN rows', IsMain(k)', k # n PROVE rows'[k].pid = r
  BY <1>3, <1>5 DEF IsMain, AllOf
<1>7. (Ended' <=> end)
  <2>2. ASSUME NEW k \in DOMAIN rows', rows'[k].end PROVE k = n
    BY <1>3, <1>4, <2>2
  <2>3. (\E k \in DOMAIN rows' : rows'[k].end) => rows'[n].end
    BY <2>2
  <2>4. rows'[n].end => \E k \in DOMAIN rows' : rows'[k].end
    BY <1>2
  <2> QED BY <1>1, <2>3, <2>4 DEF Ended
<1>8. ASSUME NEW r \in Nat, AllOf(r) PROVE Before(r)'
  BY <1>5, <1>6, <1>8 DEF Before
<1>9. ASSUME NEW r \in Nat, AllOf(r), p >= r PROVE NoneOlder(r)'
  <2>1. ASSUME NEW k \in DOMAIN rows', IsMain(k)' PROVE rows'[k].pid >= r
    <3>1. CASE k = n
      BY <1>1, <1>9, <3>1
    <3>2. CASE k # n
      BY <1>5, <1>9, <2>1, <3>2
    <3> QED BY <3>1, <3>2
  <2> QED BY <2>1 DEF NoneOlder
<1> QED BY <1>1, <1>3, <1>4, <1>6, <1>7, <1>8, <1>9

\* An overlay changes nothing of this.
LEMMA OverlayRowMore ==
  ASSUME pid \in Nat, rows \in Rows, NEW p \in 1..pid,
         rows' = Append(rows, Row("overlay", p, FALSE)), EndOK
  PROVE  /\ \A j, k \in DOMAIN rows' : j < k /\ rows'[j].end => rows'[k].kind = "overlay"
         /\ (Ended' <=> Ended)
         /\ \A k \in DOMAIN rows' : IsMain(k)' => IsMain(k) /\ rows'[k] = rows[k]
<1> DEFINE n == Len(rows) + 1
<1>1. /\ Len(rows) \in Nat /\ DOMAIN rows = 1..Len(rows) /\ DOMAIN rows' = 1..n
      /\ \A k \in DOMAIN rows : rows'[k] = rows[k]
      /\ rows'[n].kind = "overlay" /\ rows'[n].pid = p /\ rows'[n].end = FALSE
  BY OneRowMore
<1>3. ASSUME NEW k \in DOMAIN rows', k # n PROVE k \in DOMAIN rows /\ rows'[k] = rows[k]
  BY <1>1, <1>3
<1>2. ASSUME NEW j \in DOMAIN rows', NEW k \in DOMAIN rows', j < k PROVE j # n
  BY <1>1, <1>2
<1>4. (Ended' <=> Ended)
  <2>1. \A k \in DOMAIN rows : k \in DOMAIN rows'
    BY <1>1
  <2>2. ASSUME NEW k \in DOMAIN rows', rows'[k].end PROVE k \in DOMAIN rows /\ rows[k].end
    BY <1>1, <1>3, <2>2
  <2>3. (\E k \in DOMAIN rows' : rows'[k].end) => \E k \in DOMAIN rows : rows[k].end
    BY <2>2
  <2>4. (\E k \in DOMAIN rows : rows[k].end) => \E k \in DOMAIN rows' : rows'[k].end
    BY <1>1, <2>1
  <2> QED BY <2>3, <2>4 DEF Ended
<1> HIDE DEF n
<1>5. \A k \in DOMAIN rows' : IsMain(k)' => IsMain(k) /\ rows'[k] = rows[k]
  BY <1>1, <1>3 DEF IsMain
<1>7. \A j, k \in DOMAIN rows' : j < k /\ rows'[j].end => rows'[k].kind = "overlay"
  BY <1>1, <1>2, <1>3 DEF EndOK
<1> QED BY <1>4, <1>5, <1>7

\* A single row.
LEMMA SingleRow ==
  ASSUME NEW kind, NEW p \in Nat, NEW end \in BOOLEAN, rows' = <<Row(kind, p, end)>>
  PROVE  /\ \A j, k \in DOMAIN rows' : j < k /\ rows'[j].end => rows'[k].kind = "overlay"
         /\ (Ended' <=> end)
         /\ \A j, k \in DOMAIN rows' : ~(j < k)
         /\ \A k \in DOMAIN rows' : rows'[k].pid = p
<1> DEFINE r == Row(kind, p, end)
<1>1. r.kind = kind /\ r.pid = p /\ r.end = end
  BY DEF Row
<1>0. rows' = <<r>>
  OBVIOUS
<1> HIDE DEF r
<1>2. DOMAIN <<r>> = 1..1 /\ <<r>>[1] = r
  OBVIOUS
<1>3. DOMAIN rows' = 1..1 /\ rows'[1] = r
  BY <1>0, <1>2
<1>5. \A k \in DOMAIN rows' : k = 1 /\ rows'[k] = r
  BY <1>3
<1>6. (\E k \in DOMAIN rows' : rows'[k].end) <=> r.end
  BY <1>3, <1>5
<1>7. Ended' <=> end
  BY <1>1, <1>6 DEF Ended
<1> QED BY <1>1, <1>3, <1>5, <1>7

\* Rows of which all but the last are of one process make up ContinuousRows.
LEMMA BeforeContinuous == ASSUME NEW r, Before(r)' PROVE ContinuousRows'
BY DEF Before, ContinuousRows

\* The rows that stay are as continuous as they were.
LEMMA ContinuousStays ==
  ASSUME ContinuousRows, rows' = rows, unread' < 2 => unread < 2 PROVE ContinuousRows'
BY DEF ContinuousRows, IsMain

\* The ids of the rows are ids TalkBack has had, and so is the recorder's.
LEMMA RowPids ==
  ASSUME RunAssumption, PlaceInv
  PROVE  /\ pid \in Nat /\ rows \in Rows /\ recorder.pid \in 0..pid /\ unread \in 0..2
         /\ \A k \in DOMAIN rows : rows[k].pid \in 1..pid
<1>1. pid \in Nat /\ rows \in Rows
  BY Numbers
<1> DEFINE S == [kind : {"terminal", "anchor", "step", "overlay"}, pid : 1..pid, end : BOOLEAN]
<1>2. rows \in Seq(S)
  BY <1>1 DEF Rows
<1>3. \A r \in S : r.pid \in 1..pid
  OBVIOUS
<1> HIDE DEF S
<1>4. \A k \in DOMAIN rows : rows[k] \in S
  BY <1>2
<1>5. recorder.pid \in 0..pid /\ unread \in 0..2
  BY <1>1 DEF PlaceInv, Types, TypesOfDevice
<1> QED BY <1>1, <1>3, <1>4, <1>5

\* What becomes of the recorder at a capture point: the present id is read
\* and compared, or nothing is known of it.
LEMMA CaptureSees ==
  ASSUME RunAssumption, PlaceInv, Capture \/ CaptureOrNot
  PROVE  /\ unread' < 2 => unread < 2
         /\ \/ /\ recorder'.pid = pid
               /\ ~recorder'.restart => ~recorder.restart /\ recorder.pid \in {0, pid}
            \/ /\ recorder' = recorder
               /\ unread' < 2 => unread' = unread \/ (unread = 0 /\ unread' = 1)
         /\ ~recorder'.restart => ~recorder.restart
         /\ recorder.pid # 0 => recorder'.pid # 0
         /\ recorder.pid # 0 /\ ~recorder'.restart => recorder'.pid = recorder.pid
<1>1. unread \in 0..2 /\ pid \in Nat \ {0}
  BY RowPids, Numbers
<1>2. CASE Read(recorder)
  <2>1. recorder' = [pid |-> pid, restart |-> recorder.restart \/ recorder.pid \notin {0, pid}]
    BY <1>2 DEF Read, Seen
  <2>2. unread' < 2 => unread < 2
    BY <1>1, <1>2 DEF Read
  <2>3. /\ recorder'.pid = pid
        /\ ~recorder'.restart => ~recorder.restart /\ recorder.pid \in {0, pid}
    BY <2>1
  <2> QED BY <1>1, <2>2, <2>3
<1>3. CASE unread' = (IF unread = 2 THEN 2 ELSE unread + 1) /\ UNCHANGED recorder
  BY <1>1, <1>3
<1>4. CASE UNCHANGED watch
  BY <1>1, <1>4 DEF watch
<1> QED BY <1>2, <1>3, <1>4 DEF Capture, CaptureOrNot

\* At a capture point that every step has, the id is read, or it is not for
\* the first time.
LEMMA CaptureReads ==
  ASSUME RunAssumption, PlaceInv, Capture, unread' < 2
  PROVE  recorder'.pid = pid \/ (unread = 0 /\ unread' = 1)
<1>1. unread \in 0..2
  BY RowPids
<1> QED BY <1>1 DEF Capture, Read, Seen

\* The loop is left with the rows as they are.
LEMMA RowsWhenLeft ==
  ASSUME RowsInv, rows' = rows, stage' = "finish", UNCHANGED <<plan, index>>,
         recorder'.restart <=> stopReason' = "talkback_restarted",
         unread' < 2 => unread < 2,
         IF Ended THEN stopReason' # "safety_limit"
         ELSE stopReason' \in {"safety_limit", "talkback_restarted"}
  PROVE  RowsInv'
<1>1. RecorderOK'
  BY DEF RecorderOK, RestartInvalidates
<1>2. EndOK'
  BY DEF RowsInv, EndOK, Ended, Loop
<1>3. ContinuousRows'
  BY ContinuousStays DEF RowsInv, PidsOK
<1>4. KnownOK'
  BY DEF KnownOK, Loop
<1> QED BY <1>1, <1>2, <1>3, <1>4 DEF RowsInv, PidsOK

\* A step goes on with the rows as they are.
LEMMA RowsInStep ==
  ASSUME RowsInv, rows' = rows, stage \in Loop \ {"overlay"}, stage' \in Loop \ {"step", "overlay"},
         stage' \in {"move", "moved", "guard", "decide"} => ~recorder'.restart,
         unread' < 2 => unread < 2, NEW r \in Nat,
         unread' < 2 => recorder'.pid # 0,
         unread' < 2 /\ ~recorder'.restart =>
           /\ recorder'.pid = r /\ Before(r) /\ NoneOlder(r)
           /\ stage' \in InDecision \/ (stage' \in InMove /\ unread' = 0) => AllOf(r)
           /\ stage' # "move" => current' >= r
  PROVE  RowsInv'
<1>1. RecorderOK'
  BY DEF RecorderOK, RestartInvalidates, Loop
<1>2. EndOK'
  BY DEF RowsInv, EndOK, Ended, Loop
<1>3. ContinuousRows'
  BY ContinuousStays DEF RowsInv, PidsOK
<1>4. ASSUME unread' < 2, ~recorder'.restart
      PROVE  /\ Before(recorder.pid)' /\ NoneOlder(recorder.pid)'
             /\ stage' \in InDecision \/ (stage' \in InMove /\ unread' = 0) => AllOf(recorder.pid)'
             /\ stage' \in InDecision \cup {"moved"} => current' >= recorder'.pid
  <2>1. /\ recorder'.pid = r /\ Before(r) /\ NoneOlder(r)
        /\ stage' \in InDecision \/ (stage' \in InMove /\ unread' = 0) => AllOf(r)
        /\ stage' # "move" => current' >= r
    BY <1>4
  <2>2. Before(recorder.pid)'
    BY <2>1 DEF Before, IsMain
  <2>3. NoneOlder(recorder.pid)'
    BY <2>1 DEF NoneOlder, IsMain
  <2>4. AllOf(r) => AllOf(recorder.pid)'
    BY <2>1 DEF AllOf, IsMain
  <2> QED BY <2>1, <2>2, <2>3, <2>4 DEF InDecision
<1>5. unread' < 2 => KnownOK'
  BY <1>4 DEF KnownOK, Loop
<1> QED BY <1>1, <1>2, <1>3, <1>5 DEF RowsInv, PidsOK

\* In the middle of a step.
LEMMA InStep ==
  ASSUME RunAssumption, PlaceInv, RowsInv, stage \in Loop
  PROVE  \E r \in Nat :
         /\ recorder.pid = r
         /\ stage # "overlay" => ~Ended
         /\ stage \in {"step", "move", "moved", "guard", "decide", "overlay"} => ~recorder.restart
         /\ unread < 2 => r # 0
         /\ unread < 2 /\ ~recorder.restart =>
              /\ Before(r) /\ NoneOlder(r)
              /\ stage \in InDecision \/ (stage \in InMove /\ unread = 0) => AllOf(r)
              /\ stage \in InDecision \cup {"moved"} => current >= r
<1>1. recorder.pid \in Nat
  BY RowPids
<1>2. PICK r \in Nat : recorder.pid = r
  BY <1>1
<1>3. stage # "overlay" => ~Ended
  BY DEF RowsInv, EndOK
<1>4. stage \in {"step", "move", "moved", "guard", "decide", "overlay"} => ~recorder.restart
  BY DEF RowsInv, RecorderOK
<1>5. unread < 2 => KnownOK
  BY DEF RowsInv, PidsOK
<1>6. unread < 2 => r # 0
  BY <1>2, <1>5 DEF KnownOK
<1>7. ASSUME unread < 2, ~recorder.restart
      PROVE  /\ Before(recorder.pid) /\ NoneOlder(recorder.pid)
             /\ stage \in InDecision \/ (stage \in InMove /\ unread = 0) => AllOf(recorder.pid)
             /\ stage \in InDecision \cup {"moved"} => current >= recorder.pid
  BY <1>5, <1>7 DEF KnownOK
<1> QED BY <1>2, <1>3, <1>4, <1>6, <1>7

\* A step begins with a capture without a restart: when the id was read, all
\* rows are of that process.
LEMMA BeginStepRows == ASSUME RunAssumption, PlaceInv, RowsInv, BeginStep PROVE RowsInv'
<1>1. stage = "step" /\ rows' = rows /\ pid' = pid /\ UNCHANGED <<plan, index>>
  BY DEF BeginStep, device, mainVars
<1>2. PICK r \in Nat :
        /\ recorder.pid = r /\ ~Ended /\ ~recorder.restart
        /\ unread < 2 => r # 0 /\ Before(r) /\ NoneOlder(r)
  BY <1>1, InStep DEF Loop
<1>3. CASE LeaveLoop("safety_limit") /\ UNCHANGED watch
  BY <1>1, <1>2, <1>3, RowsWhenLeft DEF LeaveLoop, watch
<1>4. CASE Capture /\ RestartAborts
  <2>1. unread' < 2 => unread < 2
    BY <1>4, CaptureSees
  <2>2. recorder'.restart /\ stopReason' = "talkback_restarted" /\ stage' = "finish"
    BY <1>4 DEF RestartAborts, LeaveLoop
  <2> QED BY <1>1, <1>2, <2>1, <2>2, RowsWhenLeft
<1>5. CASE Capture /\ ~recorder'.restart /\ stage' = "move"
  <2>1. unread' < 2 => unread < 2
    BY <1>5, CaptureSees
  <2>2. unread' < 2 => recorder'.pid = r /\ r # 0 /\ Before(r) /\ NoneOlder(r)
    BY <1>2, <1>5, CaptureSees
  <2>3. ASSUME unread' = 0 PROVE AllOf(r)
    <3>1. unread' < 2
      BY <2>3
    <3>2. r = pid
      BY <1>5, <2>2, <2>3, <3>1, CaptureReads
    <3> QED BY <2>2, <3>1, <3>2, RowPids DEF NoneOlder, AllOf, IsMain
  <2> QED BY <1>1, <1>5, <2>1, <2>2, <2>3, RowsInStep DEF Loop, InDecision
<1> QED BY <1>3, <1>4, <1>5 DEF BeginStep

\* The row being made has the present process id.
LEMMA MoveRows == ASSUME RunAssumption, PlaceInv, RowsInv, Move PROVE RowsInv'
<1>1. /\ stage = "move" /\ stage' = "moved" /\ rows' = rows /\ recorder' = recorder /\ current' = pid
      /\ unread' = unread
  BY DEF Move, device, client, watch
<1>2. PICK r \in Nat :
        /\ recorder.pid = r /\ ~recorder.restart
        /\ unread < 2 => /\ r # 0 /\ Before(r) /\ NoneOlder(r)
                         /\ unread = 0 => AllOf(r)
  BY <1>1, InStep DEF Loop, InMove
<1>3. pid >= r
  BY <1>2, RowPids
<1> QED BY <1>1, <1>2, <1>3, RowsInStep DEF Loop, InDecision

\* A row that goes on was read before any restart.
LEMMA CaptureMoveRows == ASSUME RunAssumption, PlaceInv, RowsInv, CaptureMove PROVE RowsInv'
<1>1. /\ stage = "moved" /\ rows' = rows /\ UNCHANGED <<plan, index, current>>
  BY DEF CaptureMove, device, mainVars
<1>2. PICK r \in Nat :
        /\ recorder.pid = r /\ ~Ended /\ ~recorder.restart
        /\ unread < 2 => /\ r # 0 /\ Before(r) /\ NoneOlder(r) /\ current >= r
                         /\ unread = 0 => AllOf(r)
  BY <1>1, InStep DEF Loop, InMove
<1>3. unread' < 2 => unread < 2
  BY CaptureSees DEF CaptureMove
<1>4. CASE RestartAborts
  BY <1>1, <1>2, <1>3, <1>4, RowsWhenLeft DEF LeaveLoop, RestartAborts
<1>5. CASE Capture /\ ~recorder'.restart /\ stage' = "guard"
  <2>1. unread' < 2 => recorder'.pid = r
    BY <1>2, <1>3, <1>5, CaptureSees
  <2>2. ASSUME unread' < 2 PROVE AllOf(r)
    <3>1. CASE unread = 0
      BY <1>2, <3>1
    <3>2. CASE unread # 0
      <4>1. r = pid
        BY <1>5, <2>1, <2>2, <3>2, CaptureReads
      <4> QED BY <1>2, <1>3, <2>2, <4>1, RowPids DEF NoneOlder, AllOf, IsMain
    <3> QED BY <3>1, <3>2
  <2> QED BY <1>1, <1>2, <1>3, <1>5, <2>1, <2>2, RowsInStep DEF Loop, InMove
<1> QED BY <1>4, <1>5 DEF CaptureMove

\* The decision leaves the rows alone.
LEMMA DecideRows == ASSUME RunAssumption, PlaceInv, RowsInv, Decide PROVE RowsInv'
<1>1. /\ stage = "decide" /\ stage' \in {"recover", "content"} /\ rows' = rows /\ recorder' = recorder
      /\ current' = current /\ unread' = unread
  BY DEF Decide, device, client, watch
<1>2. PICK r \in Nat :
        /\ recorder.pid = r
        /\ unread < 2 => r # 0
        /\ unread < 2 /\ ~recorder.restart => Before(r) /\ NoneOlder(r) /\ AllOf(r) /\ current >= r
  BY <1>1, InStep DEF Loop, InDecision
<1> QED BY <1>1, <1>2, RowsInStep DEF Loop

\* Recovery leaves the rows alone.
LEMMA RecoverRows == ASSUME RunAssumption, PlaceInv, RowsInv, Recover PROVE RowsInv'
<1>1. /\ stage = "recover" /\ stage' \in {"content", "verify"} /\ rows' = rows /\ current' = current
      /\ CaptureOrNot
  BY DEF Recover, device, CaptureOrNot, watch
<1>2. PICK r \in Nat :
        /\ recorder.pid = r
        /\ unread < 2 => r # 0
        /\ unread < 2 /\ ~recorder.restart => Before(r) /\ NoneOlder(r) /\ AllOf(r) /\ current >= r
  BY <1>1, InStep DEF Loop, InDecision
<1>3. /\ unread' < 2 => unread < 2
      /\ ~recorder'.restart => ~recorder.restart
      /\ recorder.pid # 0 => recorder'.pid # 0
      /\ recorder.pid # 0 /\ ~recorder'.restart => recorder'.pid = recorder.pid
  BY <1>1, CaptureSees
<1> QED BY <1>1, <1>2, <1>3, RowsInStep DEF Loop

\* The row being made is read again.
LEMMA VerifyRows == ASSUME RunAssumption, PlaceInv, RowsInv, Verify PROVE RowsInv'
<1>1. /\ stage = "verify" /\ stage' \in {"content", "recover"} /\ rows' = rows /\ recorder' = recorder
      /\ current' \in {pid, current} /\ unread' = unread
  BY DEF Verify, device, client, watch
<1>2. PICK r \in Nat :
        /\ recorder.pid = r
        /\ unread < 2 => r # 0
        /\ unread < 2 /\ ~recorder.restart => Before(r) /\ NoneOlder(r) /\ AllOf(r) /\ current >= r
  BY <1>1, InStep DEF Loop, InDecision
<1>3. pid >= r
  BY <1>2, RowPids
<1>4. unread < 2 /\ ~recorder.restart => current' >= r
  BY <1>1, <1>2, <1>3
<1> QED BY <1>1, <1>2, <1>4, RowsInStep DEF Loop

\* A crash makes the row the END row.
LEMMA GuardRows == ASSUME RunAssumption, PlaceInv, RowsInv, Guard PROVE RowsInv'
<1>1. /\ stage = "guard" /\ recorder' = recorder /\ unread' = unread
      /\ UNCHANGED <<plan, index, current>>
  BY DEF Guard, device, mainVars, watch
<1>2. PICK r \in Nat :
        /\ recorder.pid = r /\ ~Ended /\ ~recorder.restart
        /\ unread < 2 => r # 0 /\ Before(r) /\ NoneOlder(r) /\ AllOf(r) /\ current >= r
  BY <1>1, InStep DEF Loop, InDecision
<1>3. CASE stage' = "decide" /\ rows' = rows
  BY <1>1, <1>2, <1>3, RowsInStep DEF Loop
<1>4. ASSUME NEW type \in CrashTypes, LeaveLoop(ReasonOf(type)),
             rows' = Append(rows, Row("step", current, TRUE))
      PROVE  RowsInv'
  <2>0. current # 0
    BY <1>1 DEF PlaceInv, PlaceOK, Loop
  <2>1. current \in 1..pid /\ pid \in Nat /\ rows \in Rows
    BY <2>0, Numbers
  <2>2. /\ \A j, k \in DOMAIN rows' : j < k /\ rows'[j].end => rows'[k].kind = "overlay"
        /\ Ended'
        /\ AllOf(r) => Before(r)'
    <3> DEFINE end == TRUE
    <3>1. end \in BOOLEAN /\ rows' = Append(rows, Row("step", current, end))
      BY <1>4
    <3> HIDE DEF end
    <3>2. /\ \A j, k \in DOMAIN rows' : j < k /\ rows'[j].end => rows'[k].kind = "overlay"
          /\ (Ended' <=> end)
          /\ AllOf(r) => Before(r)'
      BY <1>2, <2>1, <3>1, MainRowMore
    <3> QED BY <3>2 DEF end
  <2>3. stage' = "finish" /\ stopReason' \notin {"safety_limit", "talkback_restarted"}
    BY <1>4 DEF LeaveLoop, ReasonOf
  <2>4. RecorderOK'
    BY <1>1, <1>2, <2>3 DEF RecorderOK, RestartInvalidates
  <2>5. EndOK'
    BY <2>2, <2>3 DEF EndOK, Loop
  <2>6. ContinuousRows'
    <3>1. CASE unread' < 2
      BY <1>1, <1>2, <2>2, <3>1, BeforeContinuous
    <3>2. CASE ~(unread' < 2)
      BY <3>2 DEF ContinuousRows
    <3> QED BY <3>1, <3>2
  <2>7. KnownOK'
    BY <2>3 DEF KnownOK, Loop
  <2> QED BY <2>4, <2>5, <2>6, <2>7 DEF RowsInv, PidsOK
<1> QED BY <1>3, <1>4 DEF Guard

\* None of the stop reasons is that of a loop that has run out of steps, or
\* of a restart.
LEMMA PlainReasons ==
  ASSUME RunAssumption, PlaceInv
  PROVE  stop \notin {"safety_limit", "talkback_restarted"}
<1>1. "safety_limit" \notin StopReasons /\ "talkback_restarted" \notin StopReasons
  BY DEF RunAssumption
<1>2. stop \in StopReasons \cup {"none", Repeat}
  BY DEF PlaceInv, Types, TypesOfAttempt
<1> QED BY <1>1, <1>2 DEF Repeat

\* The row kept has an end exactly when the step stops.
LEMMA PersistRows == ASSUME RunAssumption, PlaceInv, RowsInv, Persist PROVE RowsInv'
<1>1. stage = "content" /\ UNCHANGED <<plan, index, current>> /\ CaptureOrNot
  BY DEF Persist, device, mainVars
<1>2. PICK r \in Nat :
        /\ recorder.pid = r /\ ~Ended
        /\ unread < 2 => r # 0
        /\ unread < 2 /\ ~recorder.restart => Before(r) /\ NoneOlder(r) /\ AllOf(r) /\ current >= r
  BY <1>1, InStep DEF Loop, InDecision
<1>0. /\ unread' < 2 => unread < 2
      /\ ~recorder'.restart => ~recorder.restart
      /\ recorder.pid # 0 => recorder'.pid # 0
      /\ recorder.pid # 0 /\ ~recorder'.restart => recorder'.pid = recorder.pid
  BY <1>1, CaptureSees
<1>3. CASE RestartAborts /\ rows' = rows
  BY <1>0, <1>1, <1>2, <1>3, RowsWhenLeft DEF RestartAborts, LeaveLoop
<1>4. ASSUME ~recorder'.restart, stage' = "overlay",
             stopReason' = IF stop' = "none" THEN stopReason ELSE stop',
             \/ rows' = Append(rows, Row("step", current, stop' # "none"))
             \/ stop' = "none" /\ rows' = rows
      PROVE  RowsInv'
  <2>1. RecorderOK'
    BY <1>4 DEF RecorderOK, RestartInvalidates
  <2>2. ASSUME unread' < 2
        PROVE  /\ recorder'.pid = r /\ r # 0 /\ Before(r) /\ NoneOlder(r) /\ AllOf(r) /\ current >= r
    BY <1>0, <1>2, <1>4, <2>2
  <2>3. /\ EndOK'
        /\ unread' < 2 => Before(r)' /\ NoneOlder(r)'
    <3>1. CASE rows' = Append(rows, Row("step", current, stop' # "none"))
      <4> DEFINE end == stop' # "none"
      <4>1. end \in BOOLEAN
        OBVIOUS
      <4> HIDE DEF end
      <4>2. rows' = Append(rows, Row("step", current, end))
        BY <3>1 DEF end
      <4>0. current # 0
        BY <1>1 DEF PlaceInv, PlaceOK, Loop
      <4>3. current \in 1..pid /\ pid \in Nat /\ rows \in Rows
        BY <4>0, Numbers
      <4>4. /\ \A j, k \in DOMAIN rows' : j < k /\ rows'[j].end => rows'[k].kind = "overlay"
            /\ (Ended' <=> end)
            /\ AllOf(r) => Before(r)' /\ (current >= r => NoneOlder(r)')
        BY <1>2, <4>1, <4>2, <4>3, MainRowMore
      <4>5. EndOK'
        BY <1>4, <4>4 DEF EndOK, Loop, end
      <4> QED BY <2>2, <4>4, <4>5
    <3>2. CASE stop' = "none" /\ rows' = rows
      <4>1. EndOK'
        BY <1>2, <1>4, <3>2 DEF RowsInv, EndOK, Ended, Loop
      <4> QED BY <2>2, <3>2, <4>1 DEF Before, NoneOlder, IsMain
    <3> QED BY <1>4, <3>1, <3>2
  <2>4. ContinuousRows'
    <3>1. CASE unread' < 2
      BY <2>3, <3>1, BeforeContinuous
    <3>2. CASE ~(unread' < 2)
      BY <3>2 DEF ContinuousRows
    <3> QED BY <3>1, <3>2
  <2>5. ASSUME unread' < 2 PROVE KnownOK'
    <3>1. Before(recorder.pid)' /\ NoneOlder(recorder.pid)'
      BY <2>2, <2>3, <2>5 DEF Before, NoneOlder, IsMain
    <3>2. recorder'.pid # 0
      BY <2>2, <2>5
    <3> QED BY <1>4, <3>1, <3>2 DEF KnownOK, Loop, InMove, InDecision
  <2> QED BY <2>1, <2>3, <2>4, <2>5 DEF RowsInv, PidsOK
<1> QED BY <1>3, <1>4 DEF Persist

\* A row of an overlay may follow the END row.
LEMMA OverlayRows == ASSUME RunAssumption, PlaceInv, RowsInv, Overlay PROVE RowsInv'
<1>1. /\ stage = "overlay" /\ UNCHANGED <<plan, index, stop>> /\ CaptureOrNot
      /\ rows' \in {rows, Append(rows, Row("overlay", pid, FALSE))}
      /\ \/ RestartAborts
         \/ /\ ~recorder'.restart /\ stopReason' = stopReason
            /\ IF stop = "none" THEN stage' = "step" ELSE stage' = "finish"
  BY DEF Overlay, device, mainVars, Breaks
<1>2. PICK r \in Nat :
        /\ recorder.pid = r /\ ~recorder.restart
        /\ unread < 2 => r # 0 /\ Before(r) /\ NoneOlder(r)
  BY <1>1, InStep DEF Loop
<1>0. /\ unread' < 2 => unread < 2
      /\ recorder.pid # 0 => recorder'.pid # 0
      /\ recorder.pid # 0 /\ ~recorder'.restart => recorder'.pid = recorder.pid
  BY <1>1, CaptureSees
<1>3. IF stop = "none" THEN ~Ended ELSE Ended /\ stopReason = stop
  BY <1>1 DEF RowsInv, EndOK
<1>4. /\ \A j, k \in DOMAIN rows' : j < k /\ rows'[j].end => rows'[k].kind = "overlay"
      /\ (Ended' <=> Ended)
      /\ \A k \in DOMAIN rows' : IsMain(k)' => IsMain(k) /\ rows'[k] = rows[k]
  <2>1. CASE rows' = rows
    BY <2>1 DEF RowsInv, EndOK, Ended, IsMain
  <2>2. CASE rows' = Append(rows, Row("overlay", pid, FALSE))
    <3>1. pid \in Nat /\ rows \in Rows /\ pid \in 1..pid
      BY Numbers
    <3> QED BY <2>2, <3>1, OverlayRowMore DEF RowsInv
  <2> QED BY <1>1, <2>1, <2>2
<1>5. /\ Before(r) => Before(r)'
      /\ NoneOlder(r) => NoneOlder(r)'
  <2>1. \A k \in DOMAIN rows' : IsMain(k)' => k \in DOMAIN rows
    BY <1>4 DEF IsMain
  <2> QED BY <1>4, <2>1 DEF Before, NoneOlder
<1>6. ContinuousRows'
  <2>1. CASE unread' < 2
    BY <1>0, <1>2, <1>5, <2>1, BeforeContinuous
  <2>2. CASE ~(unread' < 2)
    BY <2>2 DEF ContinuousRows
  <2> QED BY <2>1, <2>2
<1>7. CASE RestartAborts
  <2>1. stage' = "finish" /\ stopReason' = "talkback_restarted" /\ recorder'.restart
    BY <1>7 DEF RestartAborts, LeaveLoop
  <2>2. RecorderOK'
    BY <2>1 DEF RecorderOK, RestartInvalidates
  <2>3. EndOK'
    BY <1>4, <2>1 DEF EndOK, Loop
  <2>4. KnownOK'
    BY <2>1 DEF KnownOK, Loop
  <2> QED BY <1>6, <2>2, <2>3, <2>4 DEF RowsInv, PidsOK
<1>8. CASE /\ ~recorder'.restart /\ stopReason' = stopReason
           /\ IF stop = "none" THEN stage' = "step" ELSE stage' = "finish"
  <2>1. stop \notin {"safety_limit", "talkback_restarted"}
    BY PlainReasons
  <2>2. RecorderOK'
    BY <1>3, <1>8, <2>1 DEF RecorderOK, RestartInvalidates
  <2>3. EndOK'
    BY <1>1, <1>3, <1>4, <1>8, <2>1 DEF EndOK, Loop
  <2>4. ASSUME unread' < 2 PROVE KnownOK'
    <3>1. recorder'.pid = r /\ r # 0 /\ Before(r)' /\ NoneOlder(r)'
      BY <1>0, <1>2, <1>5, <1>8, <2>4
    <3>2. Before(recorder.pid)' /\ NoneOlder(recorder.pid)' /\ recorder'.pid # 0
      BY <3>1 DEF Before, NoneOlder, IsMain
    <3> QED BY <1>8, <3>2 DEF KnownOK, Loop, InMove, InDecision
  <2> QED BY <1>6, <2>2, <2>3, <2>4 DEF RowsInv, PidsOK
<1> QED BY <1>1, <1>7, <1>8

\* An attempt that was not opened has its one row.
LEMMA RowsNotOpened ==
  ASSUME RunAssumption, PlaceInv, NEW why, NotOpened(why), why # "safety_limit",
         recorder'.restart <=> why = "talkback_restarted"
  PROVE  RowsInv'
<1>1. /\ rows' = <<Row("terminal", pid, TRUE)>> /\ stopReason' = why /\ stage' = "finish"
      /\ pid \in Nat
  BY Numbers DEF NotOpened, LeaveLoop
<1> DEFINE end == TRUE
<1>2. end \in BOOLEAN /\ rows' = <<Row("terminal", pid, end)>>
  BY <1>1
<1> HIDE DEF end
<1>3. /\ \A j, k \in DOMAIN rows' : j < k /\ rows'[j].end => rows'[k].kind = "overlay"
      /\ (Ended' <=> end)
      /\ \A j, k \in DOMAIN rows' : ~(j < k)
  BY <1>1, <1>2, SingleRow
<1>4. RecorderOK'
  BY <1>1 DEF RecorderOK, RestartInvalidates
<1>5. EndOK'
  BY <1>1, <1>3 DEF EndOK, Loop, end
<1>6. ContinuousRows' /\ KnownOK'
  BY <1>1, <1>3 DEF ContinuousRows, KnownOK, Loop
<1> QED BY <1>4, <1>5, <1>6 DEF RowsInv, PidsOK

\* Outside an attempt the rows of the last one are left alone.
LEMMA RowsElsewhere ==
  ASSUME RowsInv, rows' = rows, unread' = unread,
         stage' \notin Loop \cup {"open", "anchor", "finish", "over"}
  PROVE  RowsInv'
<1>1. RecorderOK'
  BY DEF RecorderOK, RestartInvalidates, Loop
<1>2. EndOK'
  BY DEF RowsInv, EndOK, Loop
<1>3. ContinuousRows'
  BY ContinuousStays DEF RowsInv, PidsOK
<1>4. KnownOK'
  BY DEF KnownOK, Loop
<1> QED BY <1>1, <1>2, <1>3, <1>4 DEF RowsInv, PidsOK

\* Where the rows and the recorder stay, RowsInv does.
LEMMA RowsSame ==
  ASSUME RowsInv, UNCHANGED <<plan, index, recorder, unread, stage, rows, current, stop, stopReason>>
  PROVE  RowsInv'
<1>1. RecorderOK'
  BY DEF RowsInv, RecorderOK, RestartInvalidates
<1>2. EndOK'
  BY DEF RowsInv, EndOK, Ended
<1>3. ContinuousRows'
  BY ContinuousStays DEF RowsInv, PidsOK
<1>4. unread' < 2 => KnownOK'
  BY DEF RowsInv, PidsOK, KnownOK, Before, NoneOlder, AllOf, IsMain
<1> QED BY <1>1, <1>2, <1>3, <1>4 DEF RowsInv, PidsOK

\* An attempt begins without rows.
LEMMA ConfigureRows == ASSUME RunAssumption, PlaceInv, Configure PROVE RowsInv'
<1>1. CASE recorder'.restart /\ NotOpened("talkback_restarted")
  BY <1>1, RowsNotOpened
<1>2. CASE ~recorder'.restart /\ stage' = "open" /\ rows' = <<>>
  <2>1. DOMAIN rows' = {}
    BY <1>2
  <2>2. RecorderOK'
    BY <1>2 DEF RecorderOK, RestartInvalidates
  <2>3. EndOK' /\ ContinuousRows'
    BY <1>2, <2>1 DEF EndOK, ContinuousRows, Loop
  <2>4. unread' = 0 => recorder'.pid = pid /\ pid # 0
    <3>1. ConfigureRecorder
      BY DEF Configure
    <3>2. \A rec : Seen(rec).pid = pid
      BY DEF Seen
    <3>3. unread' = 0 => recorder'.pid = pid
      BY <3>1, <3>2 DEF ConfigureRecorder
    <3> QED BY <3>3, Numbers
  <2>5. KnownOK'
    BY <1>2, <2>4 DEF KnownOK, Loop
  <2> QED BY <2>2, <2>3, <2>5 DEF RowsInv, PidsOK
<1> QED BY <1>1, <1>2 DEF Configure

\* The recorder knows an id when one was read at one of the last two capture
\* points.
LEMMA OneOfTwo ==
  ASSUME RunAssumption, PlaceInv, Capture, unread' < 2, unread = 0 => recorder.pid # 0
  PROVE  recorder'.pid # 0
<1>1. pid # 0
  BY Numbers
<1>2. recorder'.pid = pid \/ (unread = 0 /\ unread' = 1)
  BY CaptureReads
<1>3. recorder.pid # 0 => recorder'.pid # 0
  BY CaptureSees
<1> QED BY <1>1, <1>2, <1>3

\* Opening leaves no row, or the terminal one.
LEMMA OpenRows == ASSUME RunAssumption, PlaceInv, RowsInv, Open PROVE RowsInv'
<1>1. stage = "open" /\ Capture
  BY DEF Open
<1>2. ASSUME NEW why, NotOpened(why), why # "safety_limit",
             recorder'.restart <=> why = "talkback_restarted"
      PROVE  RowsInv'
  BY <1>2, RowsNotOpened
<1>3. CASE ~recorder'.restart /\ stage' = "anchor" /\ rows' = rows
  <2>1. RecorderOK'
    BY <1>3 DEF RecorderOK, RestartInvalidates
  <2>2. EndOK'
    BY <1>3 DEF RowsInv, EndOK, Loop
  <2>3. unread' < 2 => unread < 2
    BY <1>1, CaptureSees
  <2>4. ContinuousRows'
    BY <1>3, <2>3, ContinuousStays DEF RowsInv, PidsOK
  <2>5. ASSUME unread' < 2 PROVE KnownOK'
    <3>1. unread = 0 => recorder.pid # 0
      BY <1>1 DEF RowsInv, PidsOK, KnownOK
    <3>2. recorder'.pid # 0
      BY <1>1, <2>5, <3>1, OneOfTwo
    <3> QED BY <1>3, <3>2 DEF KnownOK, Loop
  <2> QED BY <2>1, <2>2, <2>4, <2>5 DEF RowsInv, PidsOK
<1>4. \/ \E why : /\ NotOpened(why) /\ why # "safety_limit"
                  /\ recorder'.restart <=> why = "talkback_restarted"
      \/ ~recorder'.restart /\ stage' = "anchor" /\ rows' = rows
  <2>1. PICK outcome \in {"opened", "special_state_handled", "optional_not_available",
                          "tab_or_anchor_failed"} \cup CrashTypes :
          \/ recorder'.restart /\ NotOpened("talkback_restarted")
          \/ ~recorder'.restart /\ outcome \in CrashTypes /\ NotOpened(ReasonOf(outcome))
          \/ ~recorder'.restart /\ outcome \notin CrashTypes \cup {"opened"} /\ NotOpened(outcome)
          \/ /\ ~recorder'.restart /\ outcome = "opened"
             /\ stage' = "anchor"
             /\ UNCHANGED <<rows, stopReason>>
    BY DEF Open
  <2>2. ReasonOf(outcome) \notin {"safety_limit", "talkback_restarted"}
    BY DEF ReasonOf
  <2>3. outcome \notin {"safety_limit", "talkback_restarted"}
    BY DEF CrashTypes
  <2> QED BY <2>1, <2>2, <2>3
<1> QED BY <1>2, <1>3, <1>4

\* The first row is of the process the recorder knows, or of a newer one.
LEMMA AnchorRows == ASSUME RunAssumption, PlaceInv, RowsInv, Anchor PROVE RowsInv'
<1>1. CASE recorder'.restart /\ NotOpened("talkback_restarted")
  BY <1>1, RowsNotOpened
<1>2. CASE ~recorder'.restart /\ rows' = <<Row("anchor", pid, FALSE)>> /\ stage' = "step"
  <2> DEFINE end == FALSE
  <2>1. end \in BOOLEAN /\ rows' = <<Row("anchor", pid, end)>> /\ pid \in Nat
    BY <1>2, Numbers
  <2> HIDE DEF end
  <2>2. /\ \A j, k \in DOMAIN rows' : j < k /\ rows'[j].end => rows'[k].kind = "overlay"
        /\ (Ended' <=> end)
        /\ \A j, k \in DOMAIN rows' : ~(j < k)
        /\ \A k \in DOMAIN rows' : rows'[k].pid = pid
    BY <2>1, SingleRow
  <2>3. RecorderOK'
    BY <1>2 DEF RecorderOK, RestartInvalidates
  <2>4. EndOK'
    BY <1>2, <2>2 DEF EndOK, Loop, end
  <2>5. ContinuousRows'
    BY <2>2 DEF ContinuousRows
  <2>6. ASSUME unread' < 2 PROVE KnownOK'
    <3>1. stage = "anchor" /\ Capture
      BY DEF Anchor
    <3>2. unread < 2
      BY <2>6, <3>1, CaptureSees
    <3>3. recorder.pid # 0
      BY <3>1, <3>2 DEF RowsInv, PidsOK, KnownOK
    <3>4. recorder'.pid # 0
      BY <3>1, <3>3, CaptureSees
    <3>5. recorder'.pid \in 0..pid
      BY <3>1, RowPids, CaptureSees
    <3>6. Before(recorder.pid)'
      BY <2>2 DEF Before
    <3>7. NoneOlder(recorder.pid)'
      BY <2>1, <2>2, <3>5 DEF NoneOlder
    <3> QED BY <1>2, <3>4, <3>6, <3>7 DEF KnownOK, Loop, InMove, InDecision
  <2> QED BY <2>3, <2>4, <2>5, <2>6 DEF RowsInv, PidsOK
<1> QED BY <1>1, <1>2 DEF Anchor

\* The summary leaves the rows alone, whatever the coverage probe sees.
LEMMA FinishRows == ASSUME RunAssumption, PlaceInv, RowsInv, Finish PROVE RowsInv'
<1>1. /\ stage = "finish" /\ stage' = "over"
      /\ UNCHANGED <<plan, index, rows, current, stop, stopReason>>
      /\ CaptureOrNot
  BY DEF Finish, EndAttempt, device, attemptVars, mainVars, CaptureOrNot, watch
<1>2. unread' < 2 => unread < 2
  BY <1>1, CaptureSees
<1>3. RecorderOK'
  BY <1>1 DEF RecorderOK, RestartInvalidates
<1>4. EndOK'
  BY <1>1 DEF RowsInv, EndOK, Ended, Loop
<1>5. ContinuousRows'
  BY <1>1, <1>2, ContinuousStays DEF RowsInv, PidsOK
<1>6. KnownOK'
  BY <1>1 DEF KnownOK, Loop
<1> QED BY <1>3, <1>4, <1>5, <1>6 DEF RowsInv, PidsOK

\* One row, and no END row.
LEMMA GlobalNavigationRows == ASSUME RunAssumption, PlaceInv, GlobalNavigation PROVE RowsInv'
<1>1. /\ plan'[index'] = "global_nav" /\ stage' = "over"
  BY DEF GlobalNavigation, EndAttempt, device, mainVars, PlaceInv, PlaceOK
<1> DEFINE end == FALSE
<1>2. end \in BOOLEAN /\ rows' = <<Row("terminal", pid, end)>> /\ pid \in Nat
  BY Numbers DEF GlobalNavigation
<1> HIDE DEF end
<1>3. /\ \A j, k \in DOMAIN rows' : j < k /\ rows'[j].end => rows'[k].kind = "overlay"
      /\ \A j, k \in DOMAIN rows' : ~(j < k)
  BY <1>2, SingleRow
<1>4. RecorderOK' /\ EndOK' /\ ContinuousRows' /\ KnownOK'
  BY <1>1, <1>3 DEF RecorderOK, RestartInvalidates, EndOK, ContinuousRows, KnownOK, Loop
<1> QED BY <1>4 DEF RowsInv, PidsOK

\* main() is outside of the attempt.
LEMMA MainRows == ASSUME RunAssumption, PlaceInv, RowsInv, Main PROVE RowsInv'
<1>1. rows' = rows /\ unread' = unread
  BY DEF Main, NextScenario, EndRun, AfterAttempt, Preflight, AfterRetry, attemptVars, client, watch
<1>2. stage' \in {"next", "configure", "global_nav", "done", "preflight"}
  BY DEF Main, NextScenario, EndRun, AfterAttempt, Preflight, AfterRetry, Settle, Stage
<1> QED BY <1>1, <1>2, RowsElsewhere DEF Loop

\* Every step keeps RowsInv.
LEMMA StepKeepsRows == ASSUME RunAssumption, PlaceInv, RowsInv, [RunNext]_runVars PROVE RowsInv'
<1>1. CASE Interrupt
  BY <1>1, RowsElsewhere DEF Interrupt, attemptVars, client, watch, Loop
<1>2. CASE TalkBackRestarts
  BY <1>2, RowsSame DEF TalkBackRestarts, client, watch, attemptVars, mainVars
<1>3. CASE UNCHANGED runVars
  BY <1>3, RowsSame DEF runVars, device, client, watch, attemptVars, mainVars
<1>4. CASE Collect
  BY <1>4, ConfigureRows, OpenRows, AnchorRows, BeginStepRows, MoveRows, CaptureMoveRows, GuardRows,
     DecideRows, RecoverRows, VerifyRows, PersistRows, OverlayRows, FinishRows, GlobalNavigationRows
  DEF Collect
<1> QED BY <1>1, <1>2, <1>3, <1>4, MainRows DEF RunNext

\* There are no rows at first.
LEMMA InitRows == RunInit => RowsInv
<1> SUFFICES ASSUME RunInit PROVE RowsInv
  OBVIOUS
<1>1. stage = "next" /\ rows = <<>>
  BY DEF RunInit
<1>2. DOMAIN rows = {}
  BY <1>1
<1> QED BY <1>1, <1>2
  DEF RowsInv, RecorderOK, RestartInvalidates, EndOK, PidsOK, KnownOK, ContinuousRows, Loop

\* What the recorder has seen, the rows of the attempt and the reason for its
\* end fit together, whichever captures cannot be read and with the coverage
\* probe or without it (collect_tab_rows, TalkBackWindowLifecycleRecorder).
THEOREM RowsInvariant == RunSpec => []RowsInv
<1>1. PlaceInv /\ RowsInv /\ [RunNext]_runVars => RowsInv'
  BY StepKeepsRows, RunAssumption
<1> QED BY <1>1, InitRows, PlaceInvariant, PTL DEF RunSpec

\* The main loop never goes on from a row that was read with another process
\* of TalkBack, as long as no two capture points in a row could not be read,
\* for any number of steps and restarts (collect_tab_rows, capture).
THEOREM ContinuousRowsHolds == RunSpec => []ContinuousRows
<1>1. RowsInv => ContinuousRows
  BY DEF RowsInv, PidsOK
<1> QED BY <1>1, RowsInvariant, PTL

\* A restart that was seen before the reason of an attempt is final, and
\* nothing else, invalidates the attempt (capture, collect_tab_rows).
THEOREM RestartInvalidatesHolds == RunSpec => []RestartInvalidates
<1>1. RowsInv => RestartInvalidates
  BY DEF RowsInv, RecorderOK
<1> QED BY <1>1, RowsInvariant, PTL

\* The END row is the last row of the main loop and agrees with the reason of
\* the attempt (collect_tab_rows).
THEOREM EndRowIsLastHolds == RunSpec => []EndRowIsLast
<1>1. RowsInv => EndRowIsLast
  BY DEF RowsInv, EndOK, Ended, EndRowIsLast, IsMain
<1> QED BY <1>1, RowsInvariant, PTL

-----------------------------------------------------------------------------
(* LedgerInv is inductive, given PlaceInv.                                 *)

\* What is known of an event.
LEMMA EventTypes ==
  ASSUME TypesOfEvents, NEW e \in Events
  PROVE  e \in Nat \ {0} /\ contexts[e].scenario \in 1..N
<1>1. contexts[e] \in Context /\ e \in Nat \ {0}
  BY ElementOfSeq, LenProperties DEF TypesOfEvents, Events
<1> QED BY <1>1 DEF Context

\* The parts of LedgerInv an attempt depends on, where it is under way.
LEMMA LedgerUnderWay ==
  ASSUME LedgerInv, stage \notin Idle \cup {"interrupted"}
  PROVE  /\ OutcomeInv /\ CountInv /\ AbortInv /\ ~abort
         /\ \A e \in Events : Closed(e) <=> contexts[e].scenario < index
BY DEF LedgerInv, AbortInv, Closed

\* A step within an attempt that writes no event: the closed events and their
\* outcomes are what they were.
LEMMA LedgerKept ==
  ASSUME PlaceInv, LedgerInv, stage \notin Idle \cup {"interrupted"},
         stage' \notin Idle \cup {"interrupted"},
         UNCHANGED <<contexts, index, handling, stats, abort>>,
         \A s \in 1..N : s < index => attempts'[s] = attempts[s],
         \/ stage \notin {"finish", "over"}
         \/ /\ stage' \in {"finish", "over"}
            /\ UNCHANGED <<signal, processed, plan>>
  PROVE  LedgerInv'
<1>1. Events' = Events /\ TypesOfEvents
  BY DEF Events, PlaceInv, Types
<1>2. \A e \in Events : Closed(e)' <=> Closed(e)
  BY LedgerUnderWay DEF Closed
<1>3. OutcomeInv'
  <2>1. ASSUME NEW e \in Events, Closed(e) PROVE OutcomeOf(e)'
    <3>1. contexts[e].scenario < index /\ contexts[e].scenario \in 1..N
      BY <1>1, <2>1, LedgerUnderWay, EventTypes
    <3>2. attempts'[contexts[e].scenario] = attempts[contexts[e].scenario]
      BY <3>1
    <3>3. OutcomeOf(e)
      BY <2>1, LedgerUnderWay DEF OutcomeInv
    <3> QED BY <1>1, <3>2, <3>3 DEF OutcomeOf, Crashed
  <2>2. ASSUME NEW e \in Events, ~Closed(e)
        PROVE  e = handling' \/ (e = signal' /\ stage' \in {"finish", "over"} /\ Fresh(e)')
    <3>1. e = handling \/ (e = signal /\ stage \in {"finish", "over"} /\ Fresh(e))
      BY <2>2, LedgerUnderWay DEF OutcomeInv
    <3> QED BY <1>1, <3>1 DEF Fresh
  <2>3. \A e \in Events : contexts'[e].scenario <= index'
    BY LedgerUnderWay DEF OutcomeInv
  <2> QED BY <1>1, <1>2, <2>1, <2>2, <2>3 DEF OutcomeInv
<1>4. CountInv'
  BY <1>1, <1>2, LedgerUnderWay DEF CountInv, Counts
<1>5. AbortInv'
  BY <1>1, LedgerUnderWay DEF AbortInv
<1> QED BY <1>3, <1>4, <1>5 DEF LedgerInv

\* A step that detects a crash: one event more, at hand.
LEMMA LedgerDetects ==
  ASSUME PlaceInv, PlaceInv', LedgerInv, stage \in {"open", "guard"}, stage' = "finish",
         NEW type \in CrashTypes, Detect(type), UNCHANGED <<plan, index, handling, stats, abort>>,
         \A s \in 1..N : s < index => attempts'[s] = attempts[s]
  PROVE  LedgerInv'
<1>1. /\ contexts \in Seq(Context) /\ index \in 1..N /\ Attempt \in {0, 1} /\ TypesOfEvents
      /\ plan[index] = "content" /\ index \in Nat
      /\ handling \in Events \cup {0}
  BY RunAssumption, Sizes DEF PlaceInv, PlaceOK, Types, TypesOfEvents, TypesOfPlan, InContent, Loop, Idle
<1>2. /\ Events' = Events \cup {signal'} /\ signal' \in Nat \ {0} /\ signal' \notin Events
      /\ \A e \in Events : contexts'[e] = contexts[e]
      /\ contexts'[signal'].scenario = index
      /\ contexts'[signal'].failure = ""
  BY <1>1, Detected
<1>3. /\ OutcomeInv /\ CountInv /\ AbortInv /\ ~abort
      /\ \A e \in Events : Closed(e) <=> contexts[e].scenario < index
  BY LedgerUnderWay DEF Idle
<1>4. (\A e \in Events : Closed(e)' <=> Closed(e)) /\ ~Closed(signal)'
  <2>1. \A e \in Events : Closed(e)' <=> Closed(e)
    BY <1>2, <1>3 DEF Closed, Idle
  <2>2. ~(contexts'[signal'].scenario < index')
    <3>1. ~(index < index)
      BY <1>1
    <3> QED BY <1>2, <3>1
  <2> QED BY <2>1, <2>2 DEF Closed, Idle
<1>5. Fresh(signal)'
  BY <1>1, <1>2 DEF PlaceInv, SignalOK
<1>6. OutcomeInv'
  <2>1. ASSUME NEW e \in Events, Closed(e) PROVE OutcomeOf(e)'
    <3>1. contexts[e].scenario < index /\ contexts[e].scenario \in 1..N
      BY <1>1, <1>3, <2>1, EventTypes
    <3> DEFINE s == contexts[e].scenario
    <3>5. s < index /\ s \in 1..N /\ index \in 1..N
      BY <1>1, <3>1
    <3> HIDE DEF s
    <3>6. s # index /\ attempts'[s] = attempts[s]
      BY RunAssumption, Sizes, <3>5
    <3>2. /\ attempts'[contexts[e].scenario] = attempts[contexts[e].scenario]
          /\ contexts'[signal'].scenario # contexts[e].scenario
      BY <1>2, <3>6 DEF s
    <3>3. OutcomeOf(e)
      BY <1>3, <2>1 DEF OutcomeInv
    <3>4. Crashed(contexts[e].scenario, 1)' <=> Crashed(contexts[e].scenario, 1)
      BY <1>2, <3>2 DEF Crashed
    <3> QED BY <1>2, <3>2, <3>3, <3>4 DEF OutcomeOf
  <2>2. ASSUME NEW e \in Events, ~Closed(e) PROVE e = handling'
    BY <1>3, <2>2 DEF OutcomeInv
  <2>3. \A e \in Events' : contexts'[e].scenario <= index'
    <3>1. contexts'[signal'].scenario <= index'
      <4>1. index <= index
        BY <1>1
      <4> QED BY <1>2, <4>1
    <3>2. \A e \in Events : contexts'[e].scenario <= index'
      BY <1>2, <1>3 DEF OutcomeInv
    <3> QED BY <1>2, <3>1, <3>2
  <2> QED BY <1>2, <1>4, <1>5, <2>1, <2>2, <2>3 DEF OutcomeInv
<1>7. CountInv'
  BY <1>2, <1>3, <1>4 DEF CountInv, Counts
<1>8. AbortInv'
  BY <1>2, <1>3 DEF AbortInv, NonRecoverable, Idle
<1> QED BY <1>6, <1>7, <1>8 DEF LedgerInv

\* Where nothing that LedgerInv speaks of changes, it stays.
LEMMA LedgerSame ==
  ASSUME LedgerInv, UNCHANGED <<plan, contexts, signal, stage, index, handling, processed, stats,
                                abort, attempts>>
  PROVE  LedgerInv'
<1>1. Events' = Events
  BY DEF Events
<1>2. \A e : Closed(e)' <=> Closed(e)
  BY DEF Closed
<1>3. \A e : Fresh(e)' <=> Fresh(e)
  BY <1>1 DEF Fresh
<1>4. \A e \in Events : OutcomeOf(e)' <=> OutcomeOf(e)
  BY <1>1 DEF OutcomeOf, Crashed
<1>5. OutcomeInv => OutcomeInv'
  BY <1>1, <1>2, <1>3, <1>4 DEF OutcomeInv
<1>6. CountInv => CountInv'
  BY <1>1, <1>2 DEF CountInv, Counts
<1>7. AbortInv => AbortInv'
  BY <1>1 DEF AbortInv
<1> QED BY <1>5, <1>6, <1>7 DEF LedgerInv

\* The attempt that is over is that of the scenario at hand.
LEMMA OthersKept ==
  ASSUME PlaceInv, stage \in InContent \cup {"global_nav"},
         attempts' = attempts \/ \E why : attempts' = [attempts EXCEPT ![index] = Append(@, why)]
  PROVE  \A s \in 1..N : s < index => attempts'[s] = attempts[s]
<1>1. attempts \in [1..N -> Seq(Reasons)] /\ index \in 1..N /\ N \in Nat
  BY RunAssumption, Sizes DEF PlaceInv, PlaceOK, Types, TypesOfPlan, InContent, Loop, Idle
<1> QED BY <1>1

\* The steps of an attempt.
LEMMA CollectLedger ==
  ASSUME PlaceInv, PlaceInv', LedgerInv, Collect
  PROVE  LedgerInv'
<1> USE DEF device, client, watch, attemptVars, mainVars
<1>1. ASSUME stage \in (InContent \cup {"global_nav"}) \ {"finish"},
             stage' \in InContent \cup {"over"},
             UNCHANGED <<contexts, mainVars>>,
             attempts' = attempts \/ \E why : attempts' = [attempts EXCEPT ![index] = Append(@, why)]
      PROVE  LedgerInv'
  BY <1>1, LedgerKept, OthersKept DEF InContent, Loop, Idle
<1>2. ASSUME stage \in {"open", "guard"}, stage' = "finish",
             \E type \in CrashTypes : Detect(type),
             UNCHANGED <<plan, mainVars>>,
             attempts' = attempts \/ \E why : attempts' = [attempts EXCEPT ![index] = Append(@, why)]
      PROVE  LedgerInv'
  BY <1>2, LedgerDetects, OthersKept DEF InContent, Loop
<1>3. CASE Configure
  BY <1>1, <1>3 DEF Configure, NotOpened, LeaveLoop, InContent, Loop
<1>4. CASE Open
  <2>1. PICK outcome \in {"opened", "special_state_handled", "optional_not_available",
                          "tab_or_anchor_failed"} \cup CrashTypes :
          /\ \/ outcome \in CrashTypes /\ Detect(outcome)
             \/ outcome \notin CrashTypes /\ UNCHANGED contexts
          /\ stage' = "finish" \/ (outcome \notin CrashTypes /\ stage' = "anchor")
    BY <1>4 DEF Open, NotOpened, LeaveLoop, NoDetection, CrashTypes
  <2>2. CASE outcome \in CrashTypes
    BY <1>2, <1>4, <2>1, <2>2 DEF Open
  <2>3. CASE outcome \notin CrashTypes
    <3>1. UNCHANGED contexts
      BY <2>1, <2>3
    <3> QED BY <1>1, <1>4, <2>1, <3>1 DEF Open, InContent, Loop
  <2> QED BY <2>2, <2>3
<1>5. CASE Anchor
  BY <1>1, <1>5 DEF Anchor, NotOpened, LeaveLoop, InContent, Loop
<1>6. CASE Guard
  <2>1. CASE NoDetection /\ stage' = "decide"
    BY <1>1, <1>6, <2>1 DEF Guard, NoDetection, InContent, Loop
  <2>2. CASE \E type \in CrashTypes : Detect(type) /\ LeaveLoop(ReasonOf(type))
    BY <1>2, <1>6, <2>2 DEF Guard, LeaveLoop
  <2> QED BY <1>6, <2>1, <2>2 DEF Guard
<1>7. CASE BeginStep \/ Move \/ CaptureMove
  BY <1>1, <1>7 DEF BeginStep, Move, CaptureMove, LeaveLoop, RestartAborts, InContent, Loop
<1>8. CASE Decide \/ Recover \/ Verify
  BY <1>1, <1>8 DEF Decide, Recover, Verify, InContent, Loop
<1>9. CASE Persist \/ Overlay
  BY <1>1, <1>9 DEF Persist, Overlay, LeaveLoop, RestartAborts, InContent, Loop
<1>10. CASE GlobalNavigation
  BY <1>1, <1>10 DEF GlobalNavigation, EndAttempt, InContent, Loop
<1>11. CASE Finish
  BY <1>11, LedgerKept, OthersKept DEF Finish, EndAttempt, InContent, Idle
<1> QED BY <1>3, <1>4, <1>5, <1>6, <1>7, <1>8, <1>9, <1>10, <1>11 DEF Collect

\* How many of S are in T.
Among(S, T) == Cardinality(S \cap T)

\* A finite set grows by an element.
LEMMA OneMore ==
  ASSUME NEW S, IsFiniteSet(S), NEW e, e \notin S, NEW T
  PROVE  /\ Among(S \cup {e}, T) = Among(S, T) + (IF e \in T THEN 1 ELSE 0)
         /\ Among(S, T) \in Nat
<1>1. IsFiniteSet(S \cap T) /\ Cardinality(S \cap T) \in Nat
  BY FS_Subset, FS_CardinalityType
<1>2. CASE e \in T
  <2>1. (S \cup {e}) \cap T = (S \cap T) \cup {e} /\ e \notin S \cap T
    BY <1>2
  <2> QED BY <1>1, <1>2, <2>1, FS_AddElement DEF Among
<1>3. CASE e \notin T
  <2> DEFINE more == (S \cup {e}) \cap T
             same == S \cap T
  <2>1. more = same /\ Cardinality(same) \in Nat
    BY <1>1, <1>3
  <2>2. Among(S \cup {e}, T) = Cardinality(more) /\ Among(S, T) = Cardinality(same)
    BY DEF Among
  <2> HIDE DEF more, same
  <2> QED BY <1>3, <2>1, <2>2
<1> QED BY <1>2, <1>3

\* The counter counts what it has seen of T, one event after the other.
LEMMA CountsOne ==
  ASSUME TypesOfEvents, NEW st \in [seen : SUBSET Events, counted : Nat],
         NEW e \in Events \cup {0}, e \notin st.seen, NEW result, NEW T,
         e # 0 => (e \in T <=> contexts[e].type = "POSSIBLE_CRASH" /\ result # "crash_recovered"),
         st.counted = Among(st.seen, T)
  PROVE  /\ Count(st, e, result) \in [seen : SUBSET Events, counted : Nat]
         /\ Count(st, e, result).seen = st.seen \cup ({e} \ {0})
         /\ Count(st, e, result).counted = Among(Count(st, e, result).seen, T)
<1>1. CASE e = 0
  <2>1. Count(st, e, result) = st /\ st.seen \cup ({e} \ {0}) = st.seen
    BY <1>1 DEF Count
  <2> QED BY <2>1
<1>2. CASE e # 0
  <2>1. Count(st, e, result) = [seen |-> st.seen \cup {e},
                                counted |-> st.counted + (IF e \in T THEN 1 ELSE 0)]
    BY <1>2 DEF Count
  <2>2. IsFiniteSet(st.seen)
    <3>1. Len(contexts) \in Nat
      BY DEF TypesOfEvents
    <3>2. IsFiniteSet(1..Len(contexts))
      BY <3>1, FS_Interval
    <3> QED BY <3>2, FS_Subset DEF Events
  <2>3. Among(st.seen \cup {e}, T) = st.counted + (IF e \in T THEN 1 ELSE 0)
    BY <2>2, OneMore
  <2>4. st.seen \cup ({e} \ {0}) = st.seen \cup {e} /\ e \in Events
    BY <1>2
  <2>5. /\ Count(st, e, result).seen = st.seen \cup {e}
        /\ Count(st, e, result).counted = Among(st.seen \cup {e}, T)
    BY <2>1, <2>3
  <2> QED BY <2>1, <2>4, <2>5
<1> QED BY <1>1, <1>2

\* Settling the events that are open closes all, and counts them once each.
LEMMA LedgerSettles ==
  ASSUME PlaceInv, LedgerInv, stage \in {"preflight", "over"}, handling # 0,
         NEW again \in Events \cup {0}, again # handling, NEW result \in Results,
         NEW failure \in Failures \cup {"ok"}, Settle(again, result, failure),
         signal' = signal, processed' \subseteq Events, UNCHANGED <<index, attempts>>,
         \A e \in Events : ~Closed(e) <=> e \in {handling, again},
         Len(attempts[index]) \in 1..2,
         result = CASE Len(attempts[index]) = 1 -> "recovery_preflight_failed"
                    [] Len(attempts[index]) = 2 /\ ~Crashed(index, 1) -> "crash_recovered"
                    [] OTHER -> "crash_repeated"
  PROVE  LedgerInv'
<1>1. /\ TypesOfEvents /\ handling \in Events /\ handling \in Nat
      /\ index \in 1..N /\ index \in Nat /\ contexts[handling].scenario = index
  BY RunAssumption, Sizes
  DEF PlaceInv, PlaceOK, Types, TypesOfEvents, RecoveryInScenario, Events, Idle
<1>2. /\ OutcomeInv /\ CountInv /\ AbortInv /\ ~abort
      /\ \A e \in Events : Closed(e) <=> contexts[e].scenario < index
  BY LedgerUnderWay DEF Idle
<1>3. /\ TypesOfEvents' /\ Events' = Events /\ handling' = 0 /\ stage' = "next"
      /\ \A e \in Events : /\ contexts'[e].scenario = contexts[e].scenario
                           /\ contexts'[e].attempt = contexts[e].attempt
                           /\ contexts'[e].type = contexts[e].type
                           /\ contexts'[e].result = IF e \in {handling, again} THEN result
                                                    ELSE contexts[e].result
                           /\ contexts'[e].failure = IF e \in {handling, again} THEN failure
                                                     ELSE contexts[e].failure
      /\ stats' = Count(Count(stats, handling, result), again, result)
      /\ abort' = (Policy(stats', failure) = "abort")
  BY <1>1, RunAssumption, Settled
<1>4. \A e \in Events : Closed(e)'
  BY <1>3 DEF Closed, Idle
<1>5. OutcomeInv'
  <2>1. ASSUME NEW e \in Events PROVE OutcomeOf(e)'
    <3> DEFINE s == contexts[e].scenario
    <3>1. Crashed(s, 1)' <=> Crashed(s, 1)
      BY <1>3 DEF Crashed
    <3>2. CASE Closed(e)
      <4>1. OutcomeOf(e) /\ e \notin {handling, again}
        BY <1>2, <3>2 DEF OutcomeInv
      <4> QED BY <1>3, <3>1, <4>1 DEF OutcomeOf
    <3>3. CASE ~Closed(e)
      <4>1. e \in {handling, again} /\ s <= index /\ ~(s < index) /\ s \in 1..N
        BY <1>1, <1>2, <3>3, EventTypes DEF OutcomeInv
      <4> HIDE DEF s
      <4>2. s = index
        BY <1>1, <4>1, RunAssumption, Sizes
      <4>3. contexts'[e].scenario = index /\ contexts'[e].result = result
        BY <1>3, <4>1, <4>2 DEF s
      <4> QED BY <1>3, <3>1, <4>2, <4>3 DEF OutcomeOf
    <3> QED BY <3>2, <3>3
  <2>2. \A e \in Events : contexts'[e].scenario <= index'
    BY <1>2, <1>3 DEF OutcomeInv
  <2> QED BY <1>3, <1>4, <2>1, <2>2 DEF OutcomeInv
<1>6. CountInv'
  <2> DEFINE T == {e \in Events : Counts(e)'}
             first == Count(stats, handling, result)
             second == Count(first, again, result)
  <2>1. stats \in [seen : SUBSET Events, counted : Nat] /\ stats.seen = {e \in Events : Closed(e)}
    BY <1>1, <1>2 DEF TypesOfEvents, CountInv
  <2>2. /\ handling \notin stats.seen /\ again \notin stats.seen \cup {handling}
        /\ stats.seen \cup {handling} \cup ({again} \ {0}) = Events
    BY <1>1, <2>1 DEF Events
  <2>3. stats.counted = Among(stats.seen, T)
    <3>1. \A e \in stats.seen : Counts(e)' <=> Counts(e)
      BY <1>3, <2>1, <2>2 DEF Counts
    <3>2. {e \in stats.seen : Counts(e)} = stats.seen \cap T
      BY <2>1, <3>1
    <3> QED BY <1>2, <3>2 DEF CountInv, Among
  <2>4. \A e \in {handling, again} \ {0} :
          e \in T <=> contexts[e].type = "POSSIBLE_CRASH" /\ result # "crash_recovered"
    BY <1>1, <1>3 DEF Counts
  <2> HIDE DEF T
  <2>5. /\ first \in [seen : SUBSET Events, counted : Nat]
        /\ first.seen = stats.seen \cup {handling}
        /\ first.counted = Among(first.seen, T)
    BY <1>1, <2>1, <2>2, <2>3, <2>4, CountsOne
  <2> HIDE DEF first
  <2>6. /\ again \notin first.seen
        /\ again # 0 =>
             (again \in T <=> contexts[again].type = "POSSIBLE_CRASH" /\ result # "crash_recovered")
        /\ TypesOfEvents
    BY <1>1, <2>2, <2>4, <2>5
  <2>7. /\ second.seen = first.seen \cup ({again} \ {0})
        /\ second.counted = Among(second.seen, T)
    BY <2>5, <2>6, CountsOne
  <2>8. stats' = second
    BY <1>3 DEF first
  <2> HIDE DEF second
  <2>9. stats'.seen = Events /\ stats'.counted = Among(Events, T)
    BY <2>2, <2>5, <2>7, <2>8
  <2>10. Events \cap T = {e \in Events : Counts(e)'}
    BY DEF T
  <2> QED BY <1>3, <1>4, <2>9, <2>10 DEF CountInv, Among
<1>7. AbortInv'
  <2>1. \A e \in Events : contexts[e].failure \notin NonRecoverable
    BY <1>2 DEF AbortInv
  <2>2. (\E e \in Events : contexts'[e].failure \in NonRecoverable) <=> failure \in NonRecoverable
    BY <1>1, <1>3, <2>1
  <2> QED BY <1>3, <2>2 DEF AbortInv, Policy, Idle
<1> QED BY <1>5, <1>6, <1>7 DEF LedgerInv

\* With the next scenario the closed ones stay closed.
LEMMA NextScenarioLedger == ASSUME PlaceInv, LedgerInv, NextScenario PROVE LedgerInv'
<1>1. /\ UNCHANGED <<plan, contexts, signal, handling, processed, stats, abort, attempts>>
      /\ index' = index + 1 /\ stage = "next" /\ ~abort
  BY DEF NextScenario, device, client, watch
<1>2. stage' # "interrupted" /\ Events' = Events /\ TypesOfEvents /\ index \in Nat
  BY <1>1, RunAssumption, Sizes DEF NextScenario, Stage, Events, PlaceInv, Types, TypesOfPlan
<1>3. OutcomeInv /\ CountInv /\ AbortInv
  BY <1>1 DEF LedgerInv
<1>4. ASSUME NEW e \in Events PROVE contexts[e].scenario <= index' /\ Closed(e) /\ Closed(e)'
  <2> DEFINE s == contexts[e].scenario
  <2>1. s <= index /\ s \in 1..N
    BY <1>2, <1>3, EventTypes DEF OutcomeInv
  <2> HIDE DEF s
  <2>2. s <= index' /\ s < index'
    BY <1>1, <1>2, <2>1, RunAssumption, Sizes
  <2> QED BY <1>1, <2>2 DEF s, Closed, Idle
<1>5. OutcomeInv'
  <2>1. \A e \in Events : OutcomeOf(e)'
    BY <1>1, <1>2, <1>3, <1>4 DEF OutcomeInv, OutcomeOf, Crashed
  <2> QED BY <1>1, <1>2, <1>4, <2>1 DEF OutcomeInv
<1>6. CountInv' /\ AbortInv'
  BY <1>1, <1>2, <1>3, <1>4 DEF CountInv, Counts, AbortInv
<1> QED BY <1>5, <1>6 DEF LedgerInv

\* At the end all are closed.
LEMMA EndRunLedger == ASSUME LedgerInv, EndRun PROVE LedgerInv'
<1>1. /\ UNCHANGED <<contexts, index, stats, abort, attempts>>
      /\ stage = "next" /\ stage' = "done"
  BY DEF EndRun, device, client, watch, mainVars
<1>2. Events' = Events /\ OutcomeInv /\ CountInv /\ AbortInv
  BY <1>1 DEF Events, LedgerInv
<1>3. \A e \in Events : Closed(e) /\ Closed(e)' /\ (OutcomeOf(e)' <=> OutcomeOf(e))
  BY <1>1, <1>2 DEF Closed, Idle, OutcomeOf, Crashed
<1>4. OutcomeInv'
  BY <1>1, <1>2, <1>3 DEF OutcomeInv
<1>5. CountInv' /\ AbortInv'
  BY <1>1, <1>2, <1>3 DEF CountInv, Counts, AbortInv, Idle
<1> QED BY <1>4, <1>5 DEF LedgerInv

\* Nothing is open, or a fresh event is taken up.
LEMMA AfterAttemptLedger == ASSUME PlaceInv, LedgerInv, AfterAttempt PROVE LedgerInv'
<1>1. /\ UNCHANGED <<plan, contexts, signal, index, stats, abort, attempts>>
      /\ stage = "over" /\ handling = 0
  BY DEF AfterAttempt, device, client, watch
<1>2. /\ OutcomeInv /\ CountInv /\ AbortInv /\ ~abort /\ Events' = Events
      /\ \A e \in Events : Closed(e) <=> contexts[e].scenario < index
  BY <1>1, LedgerUnderWay DEF Idle, Events
<1>3. \A e \in Events : e # 0 /\ (OutcomeOf(e)' <=> OutcomeOf(e))
  BY <1>1, <1>2, EventTypes DEF PlaceInv, Types, OutcomeOf, Crashed
<1>4. CASE signal \in processed \cup {0} /\ stage' = "next"
  <2>1. \A e \in Events : Closed(e)
    BY <1>1, <1>2, <1>3, <1>4 DEF OutcomeInv, Fresh
  <2>2. \A e \in Events : Closed(e)'
    BY <1>4 DEF Closed, Idle
  <2>3. OutcomeInv'
    BY <1>1, <1>2, <1>3, <2>1, <2>2 DEF OutcomeInv
  <2>4. CountInv' /\ AbortInv'
    BY <1>1, <1>2, <2>1, <2>2 DEF CountInv, Counts, AbortInv
  <2> QED BY <2>3, <2>4 DEF LedgerInv
<1>5. CASE handling' = signal /\ stage' = "preflight"
  <2>1. \A e \in Events : Closed(e)' <=> Closed(e)
    BY <1>1, <1>2, <1>5 DEF Closed, Idle
  <2>2. OutcomeInv'
    BY <1>1, <1>2, <1>3, <1>5, <2>1 DEF OutcomeInv
  <2>3. CountInv' /\ AbortInv'
    BY <1>1, <1>2, <2>1 DEF CountInv, Counts, AbortInv
  <2> QED BY <2>2, <2>3 DEF LedgerInv
<1> QED BY <1>4, <1>5 DEF AfterAttempt

\* What is known of the crash being recovered from.
LEMMA AtHand ==
  ASSUME PlaceInv, LedgerInv, handling # 0, stage \in {"preflight", "over"}
  PROVE  /\ handling \in Events /\ TypesOfEvents /\ processed \subseteq Events
         /\ contexts[handling].scenario = index /\ contexts[handling].attempt = 0
         /\ ~Closed(handling) /\ plan[index] = "content" /\ handling \in processed
         /\ index \in 1..N /\ index \in Nat
<1>1. /\ handling \in Events /\ TypesOfEvents /\ processed \subseteq Events
      /\ contexts[handling].scenario = index /\ contexts[handling].attempt = 0
      /\ plan[index] = "content" /\ handling \in processed
      /\ index \in 1..N /\ index \in Nat
  BY RunAssumption, Sizes
  DEF PlaceInv, PlaceOK, RecoveryInScenario, Types, TypesOfEvents, TypesOfPlan, Idle
<1>2. ~(index < index)
  BY <1>1
<1>3. ~Closed(handling)
  BY <1>1, <1>2 DEF Closed, Idle
<1> QED BY <1>1, <1>3

\* The event stays open with a retry, or is settled as not recovered.
LEMMA PreflightLedger == ASSUME PlaceInv, LedgerInv, Preflight PROVE LedgerInv'
<1>1. /\ UNCHANGED <<plan, signal, index, processed, attempts>> /\ stage = "preflight"
  BY DEF Preflight, device, client, watch
<1>2. /\ handling # 0 /\ handling \in Events /\ Attempt = 1
      /\ contexts \in Seq(Context) /\ TypesOfEvents /\ processed \subseteq Events
      /\ contexts[handling].attempt = 0 /\ ~Closed(handling)
      /\ contexts[handling].scenario = index /\ plan[index] = "content"
  BY <1>1, AtHand DEF PlaceInv, PlaceOK, TypesOfEvents, Idle
<1>3. /\ OutcomeInv /\ CountInv /\ AbortInv /\ ~abort
      /\ \A e \in Events : Closed(e) <=> contexts[e].scenario < index
      /\ \A e \in Events : ~Closed(e) <=> e = handling
  <2>1. /\ OutcomeInv /\ CountInv /\ AbortInv /\ ~abort
        /\ \A e \in Events : Closed(e) <=> contexts[e].scenario < index
    BY <1>1, LedgerUnderWay DEF Idle
  <2> QED BY <1>1, <1>2, <2>1 DEF OutcomeInv
<1>4. PICK reason \in Failures \cup {"ok"} :
       IF reason = "ok" /\ contexts[handling].attempt < MaxRetries
       THEN /\ contexts' = [contexts EXCEPT ![handling].result = "recovery_preflight_passed"]
            /\ stage' = Stage(plan[index])
            /\ UNCHANGED <<handling, stats, abort>>
       ELSE Settle(0, IF reason = "ok" THEN "recovery_preflight_passed"
                      ELSE "recovery_preflight_failed", reason)
  BY DEF Preflight
<1>5. CASE reason = "ok"
  <2> DEFINE c == [contexts[handling] EXCEPT !.result = "recovery_preflight_passed"]
  <2>1. /\ contexts' = [contexts EXCEPT ![handling] = c]
        /\ stage' = "configure" /\ UNCHANGED <<handling, stats, abort>>
    BY <1>2, <1>4, <1>5 DEF Stage, MaxRetries
  <2>2. contexts[handling] \in Context
    BY <1>2, ElementOfSeq DEF Events
  <2>3. /\ c.scenario = contexts[handling].scenario /\ c.attempt = contexts[handling].attempt
        /\ c.failure = contexts[handling].failure /\ c \in Context
    <3>1. c \in Context
      BY <2>2, ContextUpdated DEF Results
    <3> QED BY <2>2, <3>1 DEF Context
  <2> HIDE DEF c
  <2>4. /\ Events' = Events
        /\ \A e \in Events : /\ contexts'[e].scenario = contexts[e].scenario
                             /\ contexts'[e].attempt = contexts[e].attempt
                             /\ contexts'[e].failure = contexts[e].failure
                             /\ e # handling => contexts'[e] = contexts[e]
    <3>1. /\ Len(contexts') = Len(contexts)
          /\ \A e \in Events : contexts'[e] = IF e = handling THEN c ELSE contexts[e]
      BY <1>2, <2>1, <2>3, ExceptSeq DEF Events
    <3> QED BY <2>3, <3>1 DEF Events
  <2>5. \A e \in Events : Closed(e)' <=> Closed(e)
    BY <1>1, <2>1, <2>4 DEF Closed, Idle
  <2>6. OutcomeInv'
    <3>1. ASSUME NEW e \in Events, Closed(e) PROVE OutcomeOf(e)'
      <4>1. OutcomeOf(e) /\ e # handling
        BY <1>3, <3>1 DEF OutcomeInv
      <4>2. Crashed(contexts[e].scenario, 1)' <=> Crashed(contexts[e].scenario, 1)
        BY <2>4, <4>1 DEF Crashed
      <4> QED BY <1>1, <2>4, <4>1, <4>2 DEF OutcomeOf
    <3>2. \A e \in Events : contexts'[e].scenario <= index'
      BY <1>1, <1>3, <2>4 DEF OutcomeInv
    <3> QED BY <1>3, <2>1, <2>4, <2>5, <3>1, <3>2 DEF OutcomeInv
  <2>7. CountInv'
    <3>1. \A e \in stats.seen : Counts(e)' <=> Counts(e)
      BY <1>3, <2>4 DEF CountInv, Counts
    <3> QED BY <1>3, <2>1, <2>4, <2>5, <3>1 DEF CountInv
  <2>8. AbortInv'
    BY <1>3, <2>1, <2>4 DEF AbortInv
  <2> QED BY <2>6, <2>7, <2>8 DEF LedgerInv
<1>6. CASE reason # "ok"
  <2>1. Settle(0, "recovery_preflight_failed", reason)
    BY <1>4, <1>6
  <2>2. Len(attempts[index]) = 1 /\ \A e \in Events : ~Closed(e) <=> e \in {handling, 0}
    BY <1>2, <1>3, EventTypes DEF Attempt
  <2> DEFINE r == "recovery_preflight_failed"
  <2>3. /\ r = CASE Len(attempts[index]) = 1 -> "recovery_preflight_failed"
              [] Len(attempts[index]) = 2 /\ ~Crashed(index, 1) -> "crash_recovered"
              [] OTHER -> "crash_repeated"
        /\ r \in Results /\ Settle(0, r, reason)
    BY <2>1, <2>2 DEF Results
  <2>4. /\ 0 # handling /\ Len(attempts[index]) \in 1..2 /\ processed' \subseteq Events
        /\ reason \in Failures \cup {"ok"} /\ stage \in {"preflight", "over"}
    BY <1>1, <1>2, <1>4, <2>2
  <2> HIDE DEF r
  <2> QED BY <1>1, <2>2, <2>3, <2>4, LedgerSettles
<1> QED BY <1>5, <1>6

\* The event is settled, with the one of the retry if there is one.
LEMMA AfterRetryLedger == ASSUME PlaceInv, LedgerInv, AfterRetry PROVE LedgerInv'
<1>1. /\ UNCHANGED <<plan, signal, index, attempts>> /\ stage = "over" /\ handling # 0
  BY DEF AfterRetry, device, client, watch
<1>2. /\ handling \in Events /\ TypesOfEvents /\ processed \subseteq Events
      /\ contexts[handling].scenario = index /\ contexts[handling].attempt = 0
      /\ ~Closed(handling) /\ plan[index] = "content" /\ handling \in processed
      /\ index \in 1..N /\ index \in Nat
  BY <1>1, AtHand
<1>3. Len(attempts[index]) = 2 /\ (signal = 0 \/ Fresh(signal))
  BY <1>1, <1>2, RunAssumption, WhenOver DEF Attempt
<1>4. /\ OutcomeInv
      /\ \A e \in Events : Closed(e) <=> contexts[e].scenario < index
  BY <1>1, LedgerUnderWay DEF Idle
<1>5. \A e \in Events : e # 0 /\ (contexts[e].scenario = index => ~Closed(e))
  BY <1>2, <1>4, EventTypes
<1>6. CASE signal = 0 /\ Settle(0, "crash_recovered", "ok") /\ UNCHANGED processed
  <2>1. \A e \in Events : ~Closed(e) <=> e \in {handling, 0}
    BY <1>1, <1>2, <1>4, <1>5, <1>6 DEF OutcomeInv
  <2>2. ~Crashed(index, 1)
    BY <1>2, <1>5, <2>1 DEF Crashed
  <2> QED BY <1>1, <1>2, <1>3, <1>6, <2>1, <2>2, LedgerSettles DEF Results
<1>7. CASE signal # 0 /\ Settle(signal, "crash_repeated", "ok") /\ MarkProcessed
  <2>1. /\ Fresh(signal) /\ signal \in Events /\ signal # handling
        /\ contexts[signal].scenario = index /\ contexts[signal].attempt = 1
        /\ processed' \subseteq Events
    BY <1>1, <1>2, <1>3, <1>7 DEF Fresh, MarkProcessed
  <2>2. \A e \in Events : ~Closed(e) <=> e \in {handling, signal}
    BY <1>1, <1>2, <1>4, <1>5, <2>1 DEF OutcomeInv
  <2>3. Crashed(index, 1)
    BY <2>1 DEF Crashed
  <2> QED BY <1>1, <1>2, <1>3, <1>7, <2>1, <2>2, <2>3, LedgerSettles DEF Results
<1> QED BY <1>6, <1>7 DEF AfterRetry

\* Every step keeps LedgerInv.
LEMMA StepKeepsLedger ==
  ASSUME PlaceInv, PlaceInv', LedgerInv, [RunNext]_runVars
  PROVE  LedgerInv'
<1>1. CASE Interrupt
  BY <1>1 DEF Interrupt, LedgerInv
<1>2. CASE TalkBackRestarts
  BY <1>2, LedgerSame DEF TalkBackRestarts, client, watch, mainVars
<1>3. CASE UNCHANGED runVars
  BY <1>3, LedgerSame DEF runVars, device, client, watch, mainVars
<1> QED
  BY <1>1, <1>2, <1>3, CollectLedger, NextScenarioLedger, EndRunLedger, AfterAttemptLedger,
     PreflightLedger, AfterRetryLedger
  DEF RunNext, Main

\* There are no events at first.
LEMMA InitLedger == RunInit => LedgerInv
<1> SUFFICES ASSUME RunInit PROVE LedgerInv
  OBVIOUS
<1>1. contexts = <<>> /\ stats = [seen |-> {}, counted |-> 0] /\ abort = FALSE /\ stage = "next"
  BY DEF RunInit
<1>2. Events = {}
  <2>1. Len(contexts) = 0
    BY <1>1
  <2> QED BY <2>1 DEF Events
<1>3. Cardinality({}) = 0
  BY FS_EmptySet
<1>4. {e \in stats.seen : Counts(e)} = {} /\ {e \in Events : Closed(e)} = {}
  BY <1>1, <1>2
<1>5. OutcomeInv /\ CountInv
  BY <1>1, <1>2, <1>3, <1>4 DEF OutcomeInv, CountInv
<1>6. AbortInv
  <2>1. ~(stats.counted >= Threshold)
    <3>1. ~(0 >= Threshold)
      BY RunAssumption, Sizes
    <3> QED BY <1>1, <3>1
  <2> QED BY <1>1, <1>2, <2>1 DEF AbortInv
<1> QED BY <1>5, <1>6 DEF LedgerInv

\* The crashes whose scenario is over are the ones that have been counted, each
\* with the outcome of its scenario; any other is at hand (main,
\* update_crash_run_stats).
THEOREM LedgerInvariant == RunSpec => []LedgerInv
<1>1. PlaceInv /\ PlaceInv' /\ LedgerInv /\ [RunNext]_runVars => LedgerInv'
  BY StepKeepsLedger
<1> QED BY <1>1, InitLedger, PlaceInvariant, PTL DEF RunSpec

\* Between scenarios the outcome of a crash on disk is that of the attempts at
\* its scenario, for any number of scenarios (main, run_recovery_preflight).
THEOREM OutcomeOnDiskHolds == RunSpec => []OutcomeOnDisk
<1>1. LedgerInv => OutcomeOnDisk
  BY DEF LedgerInv, OutcomeInv, OutcomeOnDisk, OutcomeOf, Closed, Resting, Idle
<1> QED BY <1>1, LedgerInvariant, PTL

\* The run is given up when, and only when, the crashes on disk call for it, for
\* any threshold and any number of crashes (update_crash_run_stats,
\* should_abort_for_crash_policy).
THEOREM AbortWhenDueHolds == RunSpec => []AbortWhenDue
<1>1. ASSUME LedgerInv, Resting PROVE stats.counted = Cardinality(Unrecovered) /\ AbortInv
  <2>1. CountInv /\ AbortInv /\ \A e \in Events : Closed(e)
    BY <1>1 DEF LedgerInv, Closed, Resting, Idle
  <2>2. stats.seen = Events
    BY <2>1 DEF CountInv
  <2>3. Unrecovered = {e \in stats.seen : Counts(e)}
    BY <2>2 DEF Unrecovered, Counts
  <2> QED BY <2>1, <2>3 DEF CountInv
<1>2. LedgerInv => AbortWhenDue
  BY <1>1 DEF AbortWhenDue, AbortInv
<1> QED BY <1>2, LedgerInvariant, PTL

-----------------------------------------------------------------------------
(* The run implements the crash ledger.                                    *)

\* What is known of an event and of the attempts at its scenario.
LEMMA EventFields ==
  ASSUME PlaceInv, NEW e \in Events
  PROVE  /\ e \in Nat \ {0} /\ contexts[e].scenario \in 1..N /\ contexts[e].attempt \in Nat
         /\ contexts[e].type \in CrashTypes /\ contexts[e].result \in Results
         /\ Len(attempts[contexts[e].scenario]) \in Nat
<1>1. contexts[e] \in Context /\ e \in Nat \ {0}
  BY ElementOfSeq, LenProperties DEF PlaceInv, Types, TypesOfEvents, Events
<1>2. /\ contexts[e].scenario \in 1..N /\ contexts[e].attempt \in 0..MaxRetries
      /\ contexts[e].type \in CrashTypes /\ contexts[e].result \in Results
  BY <1>1 DEF Context, Results
<1>3. attempts[contexts[e].scenario] \in Seq(Reasons)
  BY <1>2 DEF PlaceInv, Types, TypesOfPlan
<1> QED BY <1>1, <1>2, <1>3, LenProperties DEF MaxRetries

\* The open crashes of the ledger are the pending events among those told.
LEMMA OpenEntries ==
  ASSUME PlaceInv
  PROVE  Ledger!Open = {Entry(e) : e \in {d \in Told : contexts[d].result \in Pending}}
<1>1. ASSUME NEW e \in Told
      PROVE  Entry(e).outcome = "open" <=> contexts[e].result \in Pending
  <2>1. contexts[e].result \in Results
    BY EventFields DEF Told
  <2> QED BY <2>1 DEF Entry, Results, Pending
<1> QED BY <1>1 DEF Ledger!Open

\* An attempt is under way only where the ledger has it due.
LEMMA DueHolds ==
  ASSUME RunAssumption, PlaceInv, LedgerInv, TellInv, stage \in InContent \cup {"global_nav"}
  PROVE  Ledger!Due /\ index \in 1..N
<1>1. /\ index \in 1..N /\ index # 0 /\ plan[index] # "disabled"
      /\ Attempt = (IF handling = 0 THEN 0 ELSE 1)
      /\ handling \in Events \cup {0}
      /\ signal \in processed \cup {0} \/ stage = "finish"
  BY Sizes DEF PlaceInv, PlaceOK, SignalOK, Types, TypesOfEvents, InContent, Loop, Idle
<1>2. ~abort
  BY LedgerUnderWay DEF InContent, Loop, Idle
<1>3. OneEventEach /\ AllTold /\ PendingOK
  BY DEF TellInv, InContent, Loop
<1>4. ASSUME handling = 0 PROVE Ledger!Open = {}
  <2>1. ASSUME NEW e \in Told, contexts[e].result \in Pending PROVE FALSE
    <3>1. e \in Events /\ e # 0 /\ contexts[e].attempt \in Nat
      BY EventFields DEF Told
    <3>2. e = signal /\ signal \notin processed /\ stage = "finish"
      BY <1>1, <1>3, <1>4, <2>1, <3>1 DEF PendingOK
    <3>3. Fresh(e)
      BY <3>1, <3>2 DEF PlaceInv, SignalOK
    <3>4. contexts[e].scenario = index /\ contexts[e].attempt = 0
      BY <1>4, <3>3 DEF Fresh
    <3> QED BY <1>1, <1>4, <2>1, <3>4 DEF Told, Attempt
  <2> QED BY <2>1, OpenEntries
<1>5. ASSUME handling # 0 PROVE Ledger!Open # {}
  <2>1. handling \in Events /\ contexts[handling].scenario = index /\ contexts[handling].attempt = 0
    BY <1>1, <1>5 DEF PlaceInv, RecoveryInScenario
  <2>2. handling \in Told
    <3>1. Len(attempts[index]) = 1 /\ 0 < 1
      BY <1>1, <1>5 DEF Attempt
    <3>2. contexts[handling].attempt < Len(attempts[contexts[handling].scenario])
      BY <2>1, <3>1
    <3> QED BY <2>1, <3>2 DEF Told
  <2>3. contexts[handling].result \in Pending
    BY <1>3, <2>1 DEF PendingOK
  <2> QED BY <2>2, <2>3, OpenEntries
<1>6. [s \in 1..N |-> Len(attempts[s])][index] = Attempt
  BY <1>1 DEF Attempt
<1>7. CASE handling = 0
  <2>1. [s \in 1..N |-> Len(attempts[s])][index] = 0 /\ Ledger!Open = {}
    BY <1>1, <1>4, <1>6, <1>7
  <2> QED BY <1>1, <1>2, <2>1 DEF Ledger!Due
<1>8. CASE handling # 0
  <2>1. [s \in 1..N |-> Len(attempts[s])][index] = 1 /\ Ledger!Open # {}
    BY <1>1, <1>5, <1>6, <1>8
  <2> QED BY <1>1, <1>2, <2>1 DEF Ledger!Due
<1> QED BY <1>7, <1>8

\* A step within an attempt that writes no event, or one of main() that settles
\* none, tells the ledger nothing.
LEMMA TellQuietly ==
  ASSUME TellInv, stage \notin {"finish", "interrupted"}, UNCHANGED <<plan, contexts, index, attempts>>,
         \A e \in Events : /\ e = handling \/ (e = signal /\ signal \notin processed) <=>
                                e = handling' \/ (e = signal' /\ signal' \notin processed'),
         stage' \in {"next", "done"} =>
           stage = "next" \/ index = 0 \/ plan[index] = "disabled" \/ Attempt # 0
  PROVE  TellInv'
<1>1. Events' = Events /\ Told' = Told
  BY DEF Events, Told
<1>2. OneEventEach /\ AllTold /\ PendingOK /\ TriedOK
  BY DEF TellInv
<1>3. OneEventEach' /\ AllTold' /\ PendingOK'
  BY <1>1, <1>2 DEF OneEventEach, AllTold, PendingOK
<1>4. attempts[index] = <<>> => Attempt = 0
  BY DEF Attempt
<1>5. TriedOK'
  BY <1>2, <1>4 DEF TriedOK
<1> QED BY <1>3, <1>5 DEF TellInv

\* Where nothing that TellInv speaks of changes, it stays.
LEMMA TellSame ==
  ASSUME TellInv, UNCHANGED <<plan, contexts, signal, stage, index, handling, processed, attempts>>
  PROVE  TellInv'
BY DEF TellInv, OneEventEach, AllTold, PendingOK, TriedOK, Told, Events

\* With the same events, attempts, place and verdict the ledger is the same.
LEMMA LedgerStutters ==
  ASSUME UNCHANGED <<plan, contexts, index, attempts, abort>>
  PROVE  UNCHANGED Ledger!ledger
<1>1. Told' = Told
  BY DEF Told, Events
<1>2. \A e : Entry(e)' = Entry(e)
  BY DEF Entry
<1>3. {Entry(e) : e \in Told}' = {Entry(e) : e \in Told}
  BY <1>1, <1>2
<1>4. [s \in 1..N |-> Len(attempts[s])]' = [s \in 1..N |-> Len(attempts[s])]
  OBVIOUS
<1> QED BY <1>3, <1>4 DEF Ledger!ledger

\* When an attempt is over all events are told, also one it has just left.
LEMMA AttemptTells ==
  ASSUME RunAssumption, PlaceInv, TellInv, stage \in {"finish", "global_nav"},
         NEW why, EndAttempt(why), UNCHANGED <<plan, contexts, index, handling, processed>>,
         \/ signal' = signal
         \/ signal \in processed \cup {0} /\ signal' = 0
  PROVE  /\ TellInv' /\ Events' = Events /\ Told' = Events
         /\ Told = IF stage = "finish" /\ signal \in Events \ processed THEN Events \ {signal} ELSE Events
         /\ [s \in 1..N |-> Len(attempts[s])]' =
              [[s \in 1..N |-> Len(attempts[s])] EXCEPT ![index] = @ + 1]
<1>1. /\ index \in 1..N /\ attempts \in [1..N -> Seq(Reasons)]
      /\ Attempt = (IF handling = 0 THEN 0 ELSE 1)
      /\ stage = "finish" /\ signal \in Events \ processed => Fresh(signal)
  <2>1. 0 \notin Events
    BY EventFields
  <2> QED BY <2>1 DEF PlaceInv, PlaceOK, SignalOK, Types, TypesOfPlan, InContent, Loop, Idle
<1>2. /\ \A s \in 1..N : Len(attempts'[s]) = IF s = index THEN Len(attempts[s]) + 1 ELSE Len(attempts[s])
      /\ \A s \in 1..N : Len(attempts[s]) \in Nat
      /\ stage' = "over"
  <2>1. attempts' = [attempts EXCEPT ![index] = Append(@, why)] /\ stage' = "over"
    BY DEF EndAttempt
  <2>2. \A s \in 1..N : Len(Append(attempts[s], why)) = Len(attempts[s]) + 1 /\ Len(attempts[s]) \in Nat
    BY <1>1
  <2> QED BY <1>1, <2>1, <2>2
<1>3. Events' = Events /\ OneEventEach /\ AllTold /\ PendingOK
  BY DEF Events, TellInv, InContent
<1>4. Told = IF stage = "finish" /\ signal \in Events \ processed THEN Events \ {signal} ELSE Events
  <2>1. ASSUME stage = "finish", signal \in Events \ processed PROVE signal \notin Told
    <3>1. contexts[signal].scenario = index /\ contexts[signal].attempt = Attempt
      BY <1>1, <2>1 DEF Fresh
    <3>2. Attempt \in Nat /\ Attempt = Len(attempts[index])
      BY <1>1, <1>2 DEF Attempt
    <3> QED BY <3>1, <3>2 DEF Told
  <2>2. Told \subseteq Events
    BY DEF Told
  <2> QED BY <1>3, <2>1, <2>2 DEF AllTold
<1>5. Told' = Events
  <2>1. ASSUME NEW e \in Events PROVE contexts[e].attempt < Len(attempts'[contexts[e].scenario])
    <3> DEFINE s == contexts[e].scenario
               n == contexts[e].attempt
    <3>1. s \in 1..N /\ n \in Nat
      BY EventFields
    <3>2. CASE e \in Told
      <4>1. n < Len(attempts[s])
        BY <3>2 DEF Told
      <4> HIDE DEF s, n
      <4>2. Len(attempts[s]) \in Nat /\ Len(attempts'[s]) \in {Len(attempts[s]), Len(attempts[s]) + 1}
        BY <1>2, <3>1
      <4>3. n < Len(attempts'[s])
        BY <3>1, <4>1, <4>2
      <4> QED BY <4>3 DEF s, n
    <3>3. CASE e \notin Told
      <4>1. s = index /\ n = Attempt
        BY <1>1, <1>4, <3>3 DEF Fresh
      <4> HIDE DEF s, n
      <4>2. Len(attempts[s]) = n /\ Len(attempts'[s]) = n + 1
        BY <1>1, <1>2, <3>1, <4>1 DEF Attempt
      <4>3. n < Len(attempts'[s])
        BY <3>1, <4>2
      <4> QED BY <4>3 DEF s, n
    <3> QED BY <3>2, <3>3
  <2> QED BY <1>3, <2>1 DEF Told
<1>6. PendingOK'
  <2>1. 0 \notin Events
    BY EventFields
  <2> QED BY <1>3, <2>1 DEF PendingOK
<1>7. TellInv'
  <2>1. OneEventEach' /\ AllTold'
    BY <1>3, <1>5 DEF OneEventEach, AllTold
  <2>2. TriedOK'
    BY <1>2 DEF TriedOK
  <2> QED BY <1>6, <2>1, <2>2 DEF TellInv
<1>8. [s \in 1..N |-> Len(attempts[s])]' =
        [[s \in 1..N |-> Len(attempts[s])] EXCEPT ![index] = @ + 1]
  BY <1>2
<1> QED BY <1>3, <1>4, <1>5, <1>7, <1>8

\* The end of an attempt is one of the ledger, with the crash it has left.
LEMMA LedgerAttempt ==
  ASSUME RunAssumption, PlaceInv, LedgerInv, TellInv,
         stage \in {"finish", "global_nav"},
         NEW why, EndAttempt(why), UNCHANGED <<plan, contexts, index, handling, processed, abort>>,
         \/ signal' = signal
         \/ signal \in processed \cup {0} /\ signal' = 0
  PROVE  Ledger!Next
<1>1. /\ Events' = Events /\ Told' = Events
      /\ Told = IF stage = "finish" /\ signal \in Events \ processed THEN Events \ {signal} ELSE Events
      /\ [s \in 1..N |-> Len(attempts[s])]' =
           [[s \in 1..N |-> Len(attempts[s])] EXCEPT ![index] = @ + 1]
  BY AttemptTells
<1>2. Ledger!Due /\ index \in 1..N
  BY DueHolds DEF InContent
<1>3. {Entry(e) : e \in Told}' = {Entry(e) : e \in Events}
  BY <1>1 DEF Entry
<1>4. CASE stage = "finish" /\ signal \in Events \ processed
  <2>1. /\ Fresh(signal) /\ plan[index] = "content" /\ contexts[signal].type \in CrashTypes
        /\ Attempt = (IF handling = 0 THEN 0 ELSE 1)
    BY <1>4, EventFields DEF PlaceInv, SignalOK, PlaceOK, InContent, Loop
  <2>2. contexts[signal].result \in Pending
    BY <1>4 DEF TellInv, PendingOK
  <2>3. [s \in 1..N |-> Len(attempts[s])][index] = Attempt
    BY <1>2 DEF Attempt
  <2>4. Entry(signal) = [scenario |-> index, attempt |-> [s \in 1..N |-> Len(attempts[s])][index],
                         type |-> contexts[signal].type, outcome |-> "open"]
    BY <2>1, <2>2, <2>3 DEF Entry, Fresh
  <2>5. {Entry(e) : e \in Told}' = {Entry(e) : e \in Told} \cup {Entry(signal)}
    BY <1>1, <1>3, <1>4
  <2>6. PICK type \in CrashTypes : type = contexts[signal].type
    BY <2>1
  <2>7. Ledger!AttemptCrashes(type)
    BY <1>1, <1>2, <2>1, <2>4, <2>5, <2>6 DEF Ledger!AttemptCrashes
  <2> QED BY <2>7 DEF Ledger!Next, Ledger!CrashTypes, CrashTypes
<1>5. CASE ~(stage = "finish" /\ signal \in Events \ processed)
  <2>1. {Entry(e) : e \in Told}' = {Entry(e) : e \in Told}
    BY <1>1, <1>3, <1>5
  <2>2. Ledger!Attempt
    BY <1>1, <1>2, <2>1 DEF Ledger!Attempt
  <2> QED BY <2>2 DEF Ledger!Next
<1> QED BY <1>4, <1>5

\* A detection is one event more, of the attempt under way and with no outcome.
LEMMA Detects ==
  ASSUME RunAssumption, PlaceInv, TellInv, stage \in {"open", "guard"},
         NEW type \in CrashTypes, Detect(type), UNCHANGED <<plan, index, handling, processed>>
  PROVE  /\ Told = Events /\ Events' = Events \cup {signal'} /\ signal' \notin Events \cup processed
         /\ \A e \in Events : contexts'[e] = contexts[e]
         /\ contexts'[signal'].scenario = index /\ contexts'[signal'].attempt = Attempt
         /\ contexts'[signal'].type = type /\ contexts'[signal'].result = "captured"
         /\ index \in 1..N /\ plan[index] = "content" /\ Attempt \in {0, 1}
         /\ OneEventEach' /\ PendingOK'
<1>1. /\ contexts \in Seq(Context) /\ index \in 1..N /\ plan[index] = "content" /\ signal = 0
      /\ Attempt \in {0, 1}
  BY InAttempt DEF Loop
<1>2. /\ Events' = Events \cup {signal'}
      /\ signal' \in Nat \ {0} /\ signal' \notin Events
      /\ \A e \in Events : contexts'[e] = contexts[e]
      /\ contexts'[signal'].scenario = index /\ contexts'[signal'].attempt = Attempt
      /\ contexts'[signal'].type = type /\ contexts'[signal'].result = "captured"
  BY <1>1, Detected
<1>3. processed \subseteq Events /\ handling \in Events \cup {0} /\ 0 \notin Events
  BY EventFields DEF PlaceInv, Types, TypesOfEvents
<1>4. Told = Events /\ OneEventEach /\ PendingOK
  BY DEF TellInv, AllTold, Told
<1>5. OneEventEach'
  <2>1. ASSUME NEW e \in Events, contexts[e].scenario = index PROVE contexts[e].attempt # Attempt
    <3>1. contexts[e].attempt < Attempt /\ contexts[e].attempt \in Nat /\ Attempt \in Nat
      BY <1>1, <1>4, <2>1, EventFields DEF Told, Attempt
    <3> QED BY <3>1
  <2> QED BY <1>2, <1>4, <2>1 DEF OneEventEach
<1>6. PendingOK'
  <2>1. ASSUME NEW e \in Events
        PROVE  e = handling' \/ (e = signal' /\ signal' \notin processed') <=> contexts'[e].result \in Pending
    BY <1>1, <1>2, <1>3, <1>4 DEF PendingOK
  <2>2. signal' \notin processed' /\ contexts'[signal'].result \in Pending
    BY <1>2, <1>3 DEF Pending
  <2> QED BY <1>2, <2>1, <2>2 DEF PendingOK
<1> QED BY <1>1, <1>2, <1>3, <1>4, <1>5, <1>6

\* A crash, of the opening or of a step, is told the ledger when the attempt is
\* over.
LEMMA CrashTells ==
  ASSUME RunAssumption, PlaceInv, TellInv, stage \in {"open", "guard"}, stage' = "finish",
         NEW type \in CrashTypes, Detect(type),
         UNCHANGED <<plan, index, handling, processed, attempts, abort>>
  PROVE  TellInv' /\ UNCHANGED Ledger!ledger
<1>1. /\ Told = Events /\ Events' = Events \cup {signal'} /\ signal' \notin Events \cup processed
      /\ \A e \in Events : contexts'[e] = contexts[e]
      /\ contexts'[signal'].scenario = index /\ contexts'[signal'].attempt = Attempt
      /\ index \in 1..N /\ Attempt \in {0, 1}
      /\ OneEventEach' /\ PendingOK'
  BY Detects
<1>2. Told' = Told
  <2>1. signal' \notin Told'
    <3>1. Attempt = Len(attempts[index]) /\ ~(Attempt < Attempt)
      BY <1>1 DEF Attempt
    <3> QED BY <1>1, <3>1 DEF Told
  <2> QED BY <1>1, <2>1 DEF Told
<1>3. AllTold' /\ TriedOK'
  BY <1>1, <1>2 DEF AllTold, TriedOK
<1>4. {Entry(e) : e \in Told}' = {Entry(e) : e \in Told}
  BY <1>1, <1>2 DEF Entry
<1>5. [s \in 1..N |-> Len(attempts[s])]' = [s \in 1..N |-> Len(attempts[s])]
  OBVIOUS
<1> QED BY <1>1, <1>3, <1>4, <1>5 DEF TellInv, Ledger!ledger

\* A step of an attempt is one of the ledger when it ends the attempt, and none
\* otherwise.
LEMMA CollectTells ==
  ASSUME RunAssumption, PlaceInv, LedgerInv, TellInv, Collect
  PROVE  TellInv' /\ [Ledger!Next]_(Ledger!ledger)
<1> USE DEF device, client, watch, attemptVars, mainVars
<1>0. 0 \notin Events
  BY EventFields
<1>1. ASSUME stage \in InContent \ {"finish"}, stage' \in InContent,
             UNCHANGED <<plan, contexts, mainVars, attempts>>,
             signal' = signal \/ (signal \in processed \cup {0} /\ signal' = 0)
      PROVE  TellInv' /\ [Ledger!Next]_(Ledger!ledger)
  BY <1>0, <1>1, TellQuietly, LedgerStutters DEF InContent, Loop
<1>2. ASSUME stage \in {"finish", "global_nav"}, \E why : EndAttempt(why),
             UNCHANGED <<plan, contexts, mainVars>>,
             signal' = signal \/ (signal \in processed \cup {0} /\ signal' = 0)
      PROVE  TellInv' /\ [Ledger!Next]_(Ledger!ledger)
  BY <1>2, AttemptTells, LedgerAttempt
<1>3. CASE Configure
  <2>1. signal \in processed \cup {0} /\ signal' = 0
    BY <1>3 DEF PlaceInv, SignalOK, Configure, ResetSignal
  <2> QED BY <1>1, <1>3, <2>1 DEF Configure, NotOpened, LeaveLoop, InContent, Loop
<1>4. CASE Open
  <2>1. PICK outcome \in {"opened", "special_state_handled", "optional_not_available",
                          "tab_or_anchor_failed"} \cup CrashTypes :
          /\ \/ outcome \in CrashTypes /\ Detect(outcome)
             \/ outcome \notin CrashTypes /\ UNCHANGED contexts /\ signal' \in {signal, 0}
          /\ stage' = "finish" \/ (outcome \notin CrashTypes /\ stage' = "anchor")
    BY <1>4 DEF Open, NotOpened, LeaveLoop, NoDetection, CrashTypes
  <2>2. signal = 0
    BY <1>4 DEF Open, PlaceInv, SignalOK
  <2>3. CASE outcome \in CrashTypes
    BY <1>4, <2>1, <2>3, CrashTells DEF Open
  <2>4. CASE outcome \notin CrashTypes
    <3>1. UNCHANGED <<plan, contexts, mainVars>> /\ signal' = signal
      BY <1>4, <2>1, <2>2, <2>4 DEF Open
    <3> QED BY <1>1, <1>4, <2>1, <3>1 DEF Open, InContent, Loop
  <2> QED BY <2>3, <2>4
<1>5. CASE Anchor
  BY <1>1, <1>5 DEF Anchor, NotOpened, LeaveLoop, InContent, Loop
<1>6. CASE Guard
  <2>1. signal = 0
    BY <1>6 DEF Guard, PlaceInv, SignalOK, Loop
  <2>2. CASE NoDetection /\ stage' = "decide"
    BY <1>1, <1>6, <2>1, <2>2 DEF Guard, NoDetection, InContent, Loop
  <2>3. CASE \E type \in CrashTypes : Detect(type) /\ LeaveLoop(ReasonOf(type))
    BY <1>6, <2>3, CrashTells DEF Guard, LeaveLoop
  <2> QED BY <1>6, <2>2, <2>3 DEF Guard
<1>7. CASE BeginStep \/ Move \/ CaptureMove
  BY <1>1, <1>7 DEF BeginStep, Move, CaptureMove, LeaveLoop, RestartAborts, InContent, Loop
<1>8. CASE Decide \/ Recover \/ Verify
  BY <1>1, <1>8 DEF Decide, Recover, Verify, InContent, Loop
<1>9. CASE Persist \/ Overlay
  BY <1>1, <1>9 DEF Persist, Overlay, LeaveLoop, RestartAborts, InContent, Loop
<1>10. CASE Finish
  BY <1>2, <1>10 DEF Finish, InContent, Loop
<1>11. CASE GlobalNavigation
  <2>1. \E why : EndAttempt(why)
    BY <1>11 DEF GlobalNavigation
  <2> QED BY <1>2, <1>11, <2>1 DEF GlobalNavigation
<1> QED BY <1>3, <1>4, <1>5, <1>6, <1>7, <1>8, <1>9, <1>10, <1>11 DEF Collect

\* The ledger goes on to the next scenario with the run.
LEMMA NextScenarioTells ==
  ASSUME RunAssumption, PlaceInv, LedgerInv, TellInv, NextScenario
  PROVE  TellInv' /\ Ledger!Advance
<1>1. /\ UNCHANGED <<plan, contexts, signal, handling, processed, abort, attempts>>
      /\ index' = index + 1 /\ stage = "next" /\ index < N /\ ~abort
      /\ stage' = IF plan[index'] = "disabled" THEN "next" ELSE Stage(plan[index'])
  BY DEF NextScenario, device, client, watch
<1>2. /\ Events' = Events /\ Told' = Told /\ Told = Events
      /\ OneEventEach /\ PendingOK /\ TriedOK
  BY <1>1 DEF TellInv, AllTold, Events, Told
<1>3. stage' \notin {"done", "interrupted", "finish"} /\ (stage' = "next" => plan[index'] = "disabled")
  BY <1>1 DEF Stage
<1>4. TellInv'
  <2>1. OneEventEach' /\ AllTold' /\ PendingOK'
    BY <1>1, <1>2 DEF OneEventEach, AllTold, PendingOK
  <2>2. TriedOK'
    BY <1>1, <1>3 DEF TriedOK
  <2> QED BY <2>1, <2>2 DEF TellInv
<1>5. Ledger!Open = {}
  <2>1. handling = 0 /\ signal \in processed \cup {0} /\ 0 \notin Events
    BY <1>1, EventFields DEF PlaceInv, PlaceOK, SignalOK, Idle
  <2>2. \A e \in Events : contexts[e].result \notin Pending
    BY <1>2, <2>1 DEF PendingOK
  <2> QED BY <1>2, <2>2, OpenEntries
<1>6. index # 0 /\ plan[index] # "disabled" => [s \in 1..N |-> Len(attempts[s])][index] > 0
  <2>1. ASSUME index # 0, plan[index] # "disabled" PROVE Len(attempts[index]) > 0 /\ index \in 1..N
    <3>1. index \in 1..N /\ attempts[index] \in Seq(Reasons) /\ attempts[index] # <<>>
      BY <1>1, <1>2, <2>1, Sizes DEF TriedOK, PlaceInv, Types, TypesOfPlan
    <3> QED BY <3>1
  <2> QED BY <2>1
<1>7. {Entry(e) : e \in Told}' = {Entry(e) : e \in Told}
  BY <1>1, <1>2 DEF Entry
<1>8. [s \in 1..N |-> Len(attempts[s])]' = [s \in 1..N |-> Len(attempts[s])]
  BY <1>1
<1> QED BY <1>1, <1>4, <1>5, <1>6, <1>7, <1>8 DEF Ledger!Advance

\* A function that takes every element of a finite set elsewhere keeps its size.
LEMMA SameSize ==
  ASSUME NEW S, IsFiniteSet(S), NEW f, \A x, y \in S : f[x] = f[y] => x = y
  PROVE  Cardinality({f[x] : x \in S}) = Cardinality(S)
<1> DEFINE T == {f[x] : x \in S}
           g == [x \in S |-> f[x]]
<1>1. g \in Bijection(S, T)
  <2>1. g \in [S -> T] /\ \A x \in S : g[x] = f[x]
    OBVIOUS
  <2>2. \A t \in T : \E x \in S : g[x] = t
    BY <2>1
  <2> HIDE DEF g, T
  <2> QED BY <2>1, <2>2 DEF Bijection, Injection, Surjection, IsInjective
<1>2. ExistsBijection(S, T)
  BY <1>1 DEF ExistsBijection
<1> QED BY <1>2, FS_Bijection

\* There are finitely many events.
LEMMA FiniteEvents == ASSUME PlaceInv PROVE IsFiniteSet(Events)
<1>1. Len(contexts) \in Nat
  BY DEF PlaceInv, Types, TypesOfEvents
<1> QED BY <1>1, FS_Interval DEF Events

\* The size of a set is the same in the ledger.
LEMMA SameCardinality == \A S : Ledger!Cardinality(S) = Cardinality(S)
BY DEF Ledger!Cardinality, Cardinality

\* Settling the events that are open is settling the crashes of the ledger.
LEMMA SettleTells ==
  ASSUME RunAssumption, PlaceInv, LedgerInv, LedgerInv', TellInv, stage \in {"preflight", "over"},
         handling # 0,
         NEW again \in Events \cup {0}, NEW result \in Results \ Pending,
         NEW failure \in Failures \cup {"ok"}, Settle(again, result, failure),
         signal' = signal, processed' \subseteq Events, UNCHANGED <<plan, index, attempts>>,
         again = IF signal \in processed THEN 0 ELSE signal,
         again # 0 => contexts[again].attempt = 1,
         signal \in processed' \cup {0},
         Attempt = 1 => result = "recovery_preflight_failed",
         Attempt # 1 => failure = "ok" /\ result = IF again = 0 THEN "crash_recovered" ELSE "crash_repeated"
  PROVE  TellInv' /\ Ledger!Next
<1>1. /\ TypesOfEvents /\ handling \in Events /\ 0 \notin Events /\ index \in 1..N /\ Attempt \in 1..2
      /\ contexts[handling].scenario = index /\ contexts[handling].attempt = 0
      /\ Told = Events /\ OneEventEach /\ PendingOK
  <2>1. /\ TypesOfEvents /\ handling \in Events /\ 0 \notin Events /\ index \in 1..N
        /\ contexts[handling].scenario = index /\ contexts[handling].attempt = 0
    BY AtHand, EventFields
  <2>2. Attempt \in 1..2
    BY DEF PlaceInv, PlaceOK, Idle
  <2>3. Told = Events /\ OneEventEach /\ PendingOK
    BY DEF TellInv, AllTold, Told
  <2> QED BY <2>1, <2>2, <2>3
<1>2. /\ TypesOfEvents' /\ Events' = Events /\ handling' = 0 /\ stage' = "next"
      /\ \A e \in Events : /\ contexts'[e].scenario = contexts[e].scenario
                           /\ contexts'[e].attempt = contexts[e].attempt
                           /\ contexts'[e].type = contexts[e].type
                           /\ contexts'[e].result = IF e \in {handling, again} THEN result
                                                    ELSE contexts[e].result
      /\ abort' = (Policy(stats', failure) = "abort")
  BY <1>1, RunAssumption, Settled
<1>3. Told' = Events
  BY <1>1, <1>2 DEF Told
<1>4. \A e \in Events : contexts[e].result \in Pending <=> e \in {handling, again}
  BY <1>1 DEF PendingOK
<1>5. TellInv'
  <2>1. OneEventEach' /\ AllTold'
    BY <1>1, <1>2, <1>3 DEF OneEventEach, AllTold
  <2>2. PendingOK'
    BY <1>1, <1>2, <1>4 DEF PendingOK
  <2>3. TriedOK'
    <3>1. attempts[index] = <<>> => Attempt = 0
      BY DEF Attempt
    <3> QED BY <1>1, <3>1 DEF TriedOK
  <2> QED BY <2>1, <2>2, <2>3 DEF TellInv
<1>6. [s \in 1..N |-> Len(attempts[s])][index] = Attempt
  BY <1>1 DEF Attempt
<1>7. Ledger!Open = {Entry(e) : e \in {handling, again} \ {0}}
  <2>1. {d \in Told : contexts[d].result \in Pending} = {handling, again} \ {0}
    BY <1>1, <1>4
  <2> QED BY <2>1, OpenEntries
<1>8. Ledger!Outcome = result
  <2>1. (\E c \in Ledger!Open : c.attempt = 1) <=> again # 0
    <3>1. Entry(handling).attempt = 0 /\ (again # 0 => Entry(again).attempt = 1)
      BY <1>1 DEF Entry
    <3> QED BY <1>1, <1>7, <3>1
  <2> QED BY <1>1, <1>6, <2>1 DEF Ledger!Outcome
<1>9. {Entry(e) : e \in Told}' =
        ({Entry(e) : e \in Told} \ Ledger!Open)
          \cup {[c EXCEPT !.outcome = Ledger!Outcome] : c \in Ledger!Open}
  <2>1. \A e \in Events \ {handling, again} : Entry(e)' = Entry(e) /\ Entry(e) \notin Ledger!Open
    <3>1. ASSUME NEW e \in Events \ {handling, again} PROVE Entry(e)' = Entry(e) /\ Entry(e).outcome # "open"
      <4>1. contexts[e].result \in Results \ Pending
        BY <1>4, EventFields
      <4> QED BY <1>2, <4>1 DEF Entry, Results
    <3> QED BY <3>1 DEF Ledger!Open
  <2>2. \A e \in {handling, again} \ {0} : Entry(e)' = [Entry(e) EXCEPT !.outcome = result]
    <3>1. result \notin Pending
      OBVIOUS
    <3> QED BY <1>1, <1>2, <3>1 DEF Entry
  <2>3. {Entry(e) : e \in Told}' = {Entry(e)' : e \in Events}
    BY <1>3
  <2>4. \A e \in {handling, again} \ {0} : e \in Events /\ Entry(e) \in Ledger!Open
    BY <1>1, <1>7
  <2>5. {[c EXCEPT !.outcome = Ledger!Outcome] : c \in Ledger!Open} =
          {Entry(e)' : e \in {handling, again} \ {0}}
    BY <1>7, <1>8, <2>2
  <2>6. {Entry(e) : e \in Told} \ Ledger!Open = {Entry(e)' : e \in Events \ {handling, again}}
    BY <1>1, <2>1, <2>4
  <2>7. Events = (Events \ {handling, again}) \cup ({handling, again} \ {0})
    BY <1>1
  <2> QED BY <2>3, <2>5, <2>6, <2>7
<1>10. abort' = ((failure \in NonRecoverable) \/ Cardinality(Ledger!Unrecovered') >= Threshold)
  <2> DEFINE S == {e \in Events : Counts(e)'}
             f == [e \in Events |-> Entry(e)']
  <2>1. IsFiniteSet(S)
    BY FiniteEvents, FS_Subset
  <2>2. \A x, y \in S : f[x] = f[y] => x = y
    <3>1. \A x, y \in Events : Entry(x)' = Entry(y)' => x = y
      BY <1>1, <1>2 DEF Entry, OneEventEach
    <3> QED BY <3>1
  <2>3. Ledger!Unrecovered' = {f[e] : e \in S}
    <3>1. ASSUME NEW e \in Events
          PROVE  Counts(e)' <=> Entry(e)'.type = "POSSIBLE_CRASH" /\ Entry(e)'.outcome # "crash_recovered"
      <4>1. contexts'[e].result \in Results \ Pending
        BY <1>2, <1>4, EventFields
      <4> QED BY <4>1 DEF Entry, Counts
    <3>2. {Entry(e) : e \in Told}' = {Entry(e)' : e \in Events}
      BY <1>3
    <3> QED BY <3>1, <3>2 DEF Ledger!Unrecovered
  <2>4. stats'.counted = Cardinality(S)
    <3>1. CountInv' /\ \A e \in Events : Closed(e)'
      BY <1>2 DEF LedgerInv, Closed, Idle
    <3>2. stats'.seen = Events
      BY <1>2, <3>1 DEF CountInv
    <3> QED BY <1>2, <3>1, <3>2 DEF CountInv
  <2> HIDE DEF S, f
  <2>5. Cardinality(Ledger!Unrecovered') = stats'.counted
    BY <2>1, <2>2, <2>3, <2>4, SameSize
  <2> QED BY <1>2, <2>5 DEF Policy
<1>11. failure \in NonRecoverable => [s \in 1..N |-> Len(attempts[s])][index] = 1
  BY <1>1, <1>6 DEF NonRecoverable
<1>12. [s \in 1..N |-> Len(attempts[s])]' = [s \in 1..N |-> Len(attempts[s])]
  OBVIOUS
<1>13. Ledger!Open # {}
  BY <1>1, <1>7
<1>14. CASE failure \in NonRecoverable
  <2>1. abort' = (TRUE \/ Cardinality(Ledger!Unrecovered') >= Threshold)
    BY <1>10, <1>14
  <2>2. Ledger!Settle(TRUE)
    BY <1>9, <1>11, <1>12, <1>13, <1>14, <2>1 DEF Ledger!Settle
  <2> QED BY <1>5, <2>2 DEF Ledger!Next
<1>15. CASE failure \notin NonRecoverable
  <2>1. abort' = (FALSE \/ Cardinality(Ledger!Unrecovered') >= Threshold)
    BY <1>10, <1>15
  <2>2. Ledger!Settle(FALSE)
    BY <1>9, <1>12, <1>13, <2>1, SameCardinality DEF Ledger!Settle
  <2> QED BY <1>5, <2>2 DEF Ledger!Next
<1> QED BY <1>14, <1>15

\* Bringing the app back settles the crash, or leaves it open with a retry.
LEMMA PreflightTells ==
  ASSUME RunAssumption, PlaceInv, LedgerInv, LedgerInv', TellInv, Preflight
  PROVE  TellInv' /\ [Ledger!Next]_(Ledger!ledger)
<1>1. /\ UNCHANGED <<plan, signal, index, processed, attempts>> /\ stage = "preflight"
  BY DEF Preflight, device, client, watch
<1>2. /\ handling # 0 /\ handling \in Events /\ handling \in processed /\ Attempt = 1
      /\ contexts \in Seq(Context) /\ processed \subseteq Events
      /\ contexts[handling].attempt = 0 /\ plan[index] = "content"
      /\ signal \in processed \cup {0} /\ 0 \notin Events
  BY <1>1, AtHand, EventFields DEF PlaceInv, PlaceOK, SignalOK, TypesOfEvents, Idle
<1>3. PICK reason \in Failures \cup {"ok"} :
       IF reason = "ok" /\ contexts[handling].attempt < MaxRetries
       THEN /\ contexts' = [contexts EXCEPT ![handling].result = "recovery_preflight_passed"]
            /\ stage' = Stage(plan[index])
            /\ UNCHANGED <<handling, stats, abort>>
       ELSE Settle(0, IF reason = "ok" THEN "recovery_preflight_passed"
                      ELSE "recovery_preflight_failed", reason)
  BY DEF Preflight
<1>4. CASE reason = "ok"
  <2> DEFINE c == [contexts[handling] EXCEPT !.result = "recovery_preflight_passed"]
  <2>1. /\ contexts' = [contexts EXCEPT ![handling] = c]
        /\ stage' = "configure" /\ UNCHANGED <<handling, abort>>
    BY <1>2, <1>3, <1>4 DEF Stage, MaxRetries
  <2>2. contexts[handling] \in Context
    BY <1>2, ElementOfSeq DEF Events
  <2>3. /\ c.scenario = contexts[handling].scenario /\ c.attempt = contexts[handling].attempt
        /\ c.type = contexts[handling].type /\ c.result \in Pending /\ c \in Context
    <3>1. c \in Context
      BY <2>2, ContextUpdated DEF Results
    <3> QED BY <2>2, <3>1 DEF Context, Pending
  <2> HIDE DEF c
  <2>4. /\ Events' = Events
        /\ \A e \in Events : contexts'[e] = IF e = handling THEN c ELSE contexts[e]
    <3>1. /\ Len(contexts') = Len(contexts)
          /\ \A e \in Events : contexts'[e] = IF e = handling THEN c ELSE contexts[e]
      BY <1>2, <2>1, <2>3, ExceptSeq DEF Events
    <3> QED BY <3>1 DEF Events
  <2>5. OneEventEach /\ AllTold /\ PendingOK /\ contexts[handling].result \in Pending
    BY <1>1, <1>2 DEF TellInv, PendingOK
  <2>6. Told' = Told
    BY <1>1, <2>3, <2>4 DEF Told
  <2>7. TellInv'
    <3>1. OneEventEach' /\ AllTold'
      BY <1>1, <2>1, <2>3, <2>4, <2>5, <2>6 DEF OneEventEach, AllTold
    <3>2. PendingOK'
      BY <1>1, <2>1, <2>3, <2>4, <2>5 DEF PendingOK
    <3> QED BY <2>1, <3>1, <3>2 DEF TellInv, TriedOK
  <2>8. \A e \in Events : Entry(e)' = Entry(e)
    BY <2>3, <2>4, <2>5 DEF Entry
  <2>9. {Entry(e) : e \in Told}' = {Entry(e) : e \in Told}
    BY <2>6, <2>8 DEF Told
  <2>10. [s \in 1..N |-> Len(attempts[s])]' = [s \in 1..N |-> Len(attempts[s])]
    BY <1>1
  <2> QED BY <1>1, <2>1, <2>7, <2>9, <2>10 DEF Ledger!ledger
<1>5. CASE reason # "ok"
  <2> DEFINE r == "recovery_preflight_failed"
             none == 0
  <2>1. Settle(none, r, reason) /\ r \in Results \ Pending /\ none \in Events \cup {0}
    BY <1>3, <1>5 DEF Results, Pending
  <2>2. none = IF signal \in processed THEN 0 ELSE signal
    BY <1>2
  <2>3. /\ none # 0 => contexts[none].attempt = 1
        /\ Attempt = 1 => r = "recovery_preflight_failed"
        /\ signal \in processed' \cup {0} /\ processed' \subseteq Events
        /\ stage \in {"preflight", "over"}
    BY <1>1, <1>2
  <2> HIDE DEF r, none
  <2>4. TellInv' /\ Ledger!Next
    BY <1>1, <1>2, <2>1, <2>2, <2>3, SettleTells
  <2> QED BY <2>4
<1> QED BY <1>4, <1>5

\* So does the end of the retry.
LEMMA AfterRetryTells ==
  ASSUME RunAssumption, PlaceInv, LedgerInv, LedgerInv', TellInv, AfterRetry
  PROVE  TellInv' /\ Ledger!Next
<1>1. /\ UNCHANGED <<plan, signal, index, attempts>> /\ stage = "over" /\ handling # 0
  BY DEF AfterRetry, device, client, watch
<1>2. /\ processed \subseteq Events /\ plan[index] = "content" /\ 0 \notin Events
      /\ Attempt = 2 /\ (signal = 0 \/ Fresh(signal))
  <2>1. processed \subseteq Events /\ plan[index] = "content" /\ 0 \notin Events
    BY <1>1, AtHand, EventFields
  <2> QED BY <1>1, <2>1, WhenOver
<1>3. CASE signal = 0 /\ Settle(0, "crash_recovered", "ok") /\ UNCHANGED processed
  <2> DEFINE r == "crash_recovered"
             none == 0
             f == "ok"
  <2>1. Settle(none, r, f) /\ r \in Results \ Pending /\ none \in Events \cup {0} /\ f \in Failures \cup {"ok"}
    BY <1>3 DEF Results, Pending
  <2>2. none = IF signal \in processed THEN 0 ELSE signal
    BY <1>2, <1>3
  <2>3. /\ none # 0 => contexts[none].attempt = 1
        /\ Attempt # 1 => f = "ok" /\ r = IF none = 0 THEN "crash_recovered" ELSE "crash_repeated"
        /\ Attempt # 1
        /\ signal \in processed' \cup {0} /\ processed' \subseteq Events
        /\ stage \in {"preflight", "over"}
    BY <1>1, <1>2, <1>3
  <2> HIDE DEF r, none, f
  <2> QED BY <1>1, <2>1, <2>2, <2>3, SettleTells
<1>4. CASE signal # 0 /\ Settle(signal, "crash_repeated", "ok") /\ MarkProcessed
  <2> DEFINE r == "crash_repeated"
             f == "ok"
  <2>1. Fresh(signal)
    BY <1>2, <1>4
  <2>2. /\ signal \in Events /\ contexts[signal].attempt = 1 /\ signal \notin processed
        /\ processed' \subseteq Events /\ signal \in processed' \cup {0}
    BY <1>1, <1>2, <1>4, <2>1 DEF Fresh, MarkProcessed
  <2>3. /\ Settle(signal, r, f) /\ r \in Results \ Pending /\ f \in Failures \cup {"ok"}
        /\ Attempt # 1 => f = "ok" /\ r = IF signal = 0 THEN "crash_recovered" ELSE "crash_repeated"
        /\ Attempt # 1 /\ signal \in Events \cup {0}
        /\ stage \in {"preflight", "over"}
    BY <1>1, <1>2, <1>4, <2>2 DEF Results, Pending
  <2> HIDE DEF r, f
  <2> QED BY <1>1, <2>2, <2>3, SettleTells
<1> QED BY <1>3, <1>4 DEF AfterRetry

\* Every step of the run is one of the ledger or none.
LEMMA StepTells ==
  ASSUME RunAssumption, PlaceInv, LedgerInv, LedgerInv', TellInv, [RunNext]_runVars
  PROVE  TellInv' /\ [Ledger!Next]_(Ledger!ledger)
<1> USE DEF device, client, watch, attemptVars, mainVars
<1>1. CASE Collect
  BY <1>1, CollectTells
<1>2. CASE NextScenario
  BY <1>2, NextScenarioTells DEF Ledger!Next
<1>3. CASE EndRun
  BY <1>3, TellQuietly, LedgerStutters DEF EndRun
<1>4. CASE AfterAttempt
  <2>1. Attempt = 1 /\ 0 \notin Events /\ stage = "over" /\ handling = 0
    BY <1>4, WhenOver, EventFields DEF AfterAttempt
  <2>2. \A e \in Events : e = handling \/ (e = signal /\ signal \notin processed) <=>
                            e = handling' \/ (e = signal' /\ signal' \notin processed')
    BY <1>4, <2>1 DEF AfterAttempt, MarkProcessed
  <2>3. UNCHANGED <<plan, contexts, index, attempts, abort>>
    BY <1>4 DEF AfterAttempt
  <2> QED BY <2>1, <2>2, <2>3, TellQuietly, LedgerStutters
<1>5. CASE Preflight
  BY <1>5, PreflightTells
<1>6. CASE AfterRetry
  BY <1>6, AfterRetryTells
<1>7. CASE Interrupt
  BY <1>7, LedgerStutters DEF Interrupt, TellInv
<1>8. CASE TalkBackRestarts \/ UNCHANGED runVars
  <2>1. UNCHANGED <<plan, contexts, signal, stage, index, handling, processed, attempts, abort>>
    BY <1>8 DEF TalkBackRestarts, runVars
  <2> QED BY <2>1, TellSame, LedgerStutters
<1> QED BY <1>1, <1>2, <1>3, <1>4, <1>5, <1>6, <1>7, <1>8 DEF RunNext, Main

\* There is nothing to tell at first.
LEMMA InitTells == RunInit => TellInv /\ Ledger!Init
<1> SUFFICES ASSUME RunInit PROVE TellInv /\ Ledger!Init
  OBVIOUS
<1>1. /\ contexts = <<>> /\ index = 0 /\ plan \in [1..N -> Kinds] /\ abort = FALSE
      /\ attempts = [s \in 1..N |-> <<>>]
  BY DEF RunInit
<1>2. Events = {} /\ Told = {}
  <2>1. Len(contexts) = 0
    BY <1>1
  <2> QED BY <2>1 DEF Events, Told
<1>3. TellInv
  BY <1>1, <1>2 DEF TellInv, OneEventEach, AllTold, PendingOK, TriedOK
<1>4. [s \in 1..N |-> Len(attempts[s])] = [s \in 1..N |-> 0]
  BY <1>1
<1> QED BY <1>1, <1>2, <1>3, <1>4 DEF Ledger!Init

\* A run implements the crash ledger, for any number of scenarios, any
\* threshold and whatever crashes, restarts or is cut off (main,
\* run_recovery_preflight, update_crash_run_stats, should_abort_for_crash_policy).
THEOREM CrashLedgerImplemented == RunSpec => ImplementsCrashLedger
<1>1. PlaceInv /\ LedgerInv /\ LedgerInv' /\ TellInv /\ [RunNext]_runVars
        => TellInv' /\ [Ledger!Next]_(Ledger!ledger)
  BY StepTells, RunAssumption
<1> QED
  BY <1>1, InitTells, PlaceInvariant, LedgerInvariant, PTL
  DEF RunSpec, ImplementsCrashLedger, Ledger!Spec

-----------------------------------------------------------------------------
(* A run goes forward, which is what its end rests on.                     *)

\* Where the runner is between the end of an attempt and that of the next.
Phase(s) ==
  CASE s = "over" -> 0
    [] s = "preflight" -> 1
    [] s \in {"configure", "global_nav"} -> 2
    [] s = "open" -> 3
    [] s = "anchor" -> 4
    [] s \in Loop -> 5
    [] s = "finish" -> 6
    [] s = "next" -> 7
    [] s = "done" -> 8
    [] s = "interrupted" -> 9

\* Where it is in a step of the main loop, recovery after the verification.
Place(s) ==
  CASE s = "move" -> 1
    [] s = "moved" -> 2
    [] s = "guard" -> 3
    [] s = "decide" -> 4
    [] s = "verify" -> 5
    [] s = "recover" -> 6
    [] s = "content" -> 7
    [] s = "overlay" -> 8
    [] OTHER -> 0

\* Within a phase the steps are counted, then the candidates that were tried,
\* then the places; and a restart of TalkBack uses up a process id.
Onward ==
  \/ step' > step
  \/ /\ step' = step
     /\ \/ tried \subseteq tried' /\ tried' # tried
        \/ /\ tried' = tried
           /\ Place(stage') > Place(stage) \/ (stage' = stage /\ pid' > pid)

\* Scenarios, the attempts at one, the phases of an attempt, in this order.
Forward ==
  \/ index' > index
  \/ index' = index /\ Len(attempts'[index]) > Len(attempts[index])
  \/ /\ index' = index /\ attempts' = attempts
     /\ Phase(stage') > Phase(stage) \/ (Phase(stage') = Phase(stage) /\ Onward)

LEMMA Phases ==
  /\ Phase("over") = 0 /\ Phase("preflight") = 1
  /\ Phase("configure") = 2 /\ Phase("global_nav") = 2
  /\ Phase("open") = 3 /\ Phase("anchor") = 4
  /\ \A s \in Loop : Phase(s) = 5
  /\ Phase("finish") = 6 /\ Phase("next") = 7 /\ Phase("done") = 8 /\ Phase("interrupted") = 9
BY DEF Phase, Loop

LEMMA Places ==
  /\ Place("move") = 1 /\ Place("moved") = 2 /\ Place("guard") = 3 /\ Place("decide") = 4
  /\ Place("verify") = 5 /\ Place("recover") = 6 /\ Place("content") = 7 /\ Place("overlay") = 8
  /\ Place("step") = 0
BY DEF Place

\* The steps of the main loop.
LEMMA LoopGoesOn ==
  ASSUME PlaceInv, BeginStep \/ Move \/ CaptureMove \/ Guard \/ Decide \/ Recover \/ Verify
                \/ Persist \/ Overlay
  PROVE  Forward
<1> step \in Nat
  BY Numbers, RunAssumption
<1>1. CASE BeginStep
  BY <1>1, Phases, Places DEF BeginStep, NoStepLeft, RestartAborts, LeaveLoop, mainVars, Forward, Onward, Loop
<1>2. CASE Move
  BY <1>2, Phases, Places DEF Move, mainVars, Forward, Onward, Loop
<1>3. CASE CaptureMove
  BY <1>3, Phases, Places DEF CaptureMove, RestartAborts, LeaveLoop, mainVars, Forward, Onward, Loop
<1>4. CASE Guard
  <2>1. /\ stage = "guard" /\ stage' \in {"decide", "finish"}
        /\ UNCHANGED <<index, attempts, step, tried>>
    BY <1>4 DEF Guard, LeaveLoop, mainVars
  <2> QED BY <2>1, Phases, Places DEF Forward, Onward, Loop
<1>5. CASE Decide
  BY <1>5, Phases, Places DEF Decide, mainVars, Forward, Onward, Loop
<1>6. CASE Recover
  BY <1>6, Phases, Places DEF Recover, Eligible, mainVars, Forward, Onward, Loop
<1>7. CASE Verify
  BY <1>7, Phases, Places DEF Verify, mainVars, Forward, Onward, Loop
<1>8. CASE Persist
  BY <1>8, Phases, Places DEF Persist, RestartAborts, LeaveLoop, mainVars, Forward, Onward, Loop
<1>9. CASE Overlay
  BY <1>9, Phases, Places DEF Overlay, Breaks, RestartAborts, LeaveLoop, mainVars, Forward, Onward, Loop
<1> QED BY <1>1, <1>2, <1>3, <1>4, <1>5, <1>6, <1>7, <1>8, <1>9

\* An attempt that ends is one more.
LEMMA EndGoesOn ==
  ASSUME Types, index \in 1..N, index' = index, NEW why \in Reasons, EndAttempt(why)
  PROVE  Forward
<1>1. attempts[index] \in Seq(Reasons) /\ attempts'[index] = Append(attempts[index], why)
  BY DEF Types, TypesOfPlan, EndAttempt
<1>2. Len(attempts'[index]) = Len(attempts[index]) + 1 /\ Len(attempts[index]) \in Nat
  BY <1>1, AppendProperties, LenProperties
<1> QED BY <1>2 DEF Forward

\* The end of an attempt.
LEMMA OnAttempt ==
  ASSUME PlaceInv, stage \in InContent \cup {"global_nav"}, index' = index
  PROVE  \A why \in Reasons : EndAttempt(why) => Forward
<1>1. index \in 1..N
  BY DEF PlaceInv, PlaceOK, Idle, InContent, Loop
<1>2. Types
  BY DEF PlaceInv
<1> QED BY <1>1, <1>2, EndGoesOn

LEMMA ConfigureGoesForward == ASSUME PlaceInv, Configure PROVE Forward
<1>1. stage = "configure" /\ index' = index /\ attempts' = attempts
  BY DEF Configure, mainVars
<1>2. stage' \in {"open", "finish"}
  BY DEF Configure, NotOpened, LeaveLoop
<1> QED BY <1>1, <1>2, Phases DEF Forward

LEMMA OpenGoesForward == ASSUME PlaceInv, Open PROVE Forward
<1>1. stage = "open" /\ index' = index /\ attempts' = attempts
  BY DEF Open, mainVars
<1>2. stage' \in {"anchor", "finish"}
  BY DEF Open, NotOpened, LeaveLoop
<1> QED BY <1>1, <1>2, Phases DEF Forward

LEMMA AnchorGoesForward == ASSUME PlaceInv, Anchor PROVE Forward
<1>1. stage = "anchor" /\ index' = index /\ attempts' = attempts
  BY DEF Anchor, mainVars
<1>2. stage' \in {"step", "finish"}
  BY DEF Anchor, NotOpened, LeaveLoop
<1> QED BY <1>1, <1>2, Phases DEF Forward, Loop

LEMMA FinishGoesForward == ASSUME PlaceInv, Finish PROVE Forward
<1>1. stage = "finish" /\ index' = index /\ EndAttempt(stopReason)
  BY DEF Finish, mainVars
<1>2. stopReason \in Reasons
  BY <1>1 DEF PlaceInv, PlaceOK
<1> QED BY <1>1, <1>2, OnAttempt DEF InContent

LEMMA GlobalNavigationGoesForward == ASSUME PlaceInv, GlobalNavigation PROVE Forward
<1>1. stage = "global_nav" /\ index' = index /\ \E why \in Reasons : EndAttempt(why)
  BY DEF GlobalNavigation, mainVars, Reasons
<1> QED BY <1>1, OnAttempt

\* The steps of main().
LEMMA PreflightGoesForward == ASSUME Preflight PROVE Forward
<1>1. stage = "preflight" /\ UNCHANGED <<index, attempts>>
  BY DEF Preflight
<1>2. stage' \in {"configure", "global_nav", "next"}
  <2>1. PICK reason \in Failures \cup {"ok"} :
          \/ stage' = Stage(plan[index])
          \/ Settle(0, IF reason = "ok" THEN "recovery_preflight_passed"
                       ELSE "recovery_preflight_failed", reason)
    BY DEF Preflight
  <2>2. ASSUME NEW again, NEW result, NEW failure, Settle(again, result, failure)
        PROVE  stage' = "next"
    BY <2>2 DEF Settle
  <2> QED BY <2>1, <2>2 DEF Stage
<1> QED BY <1>1, <1>2, Phases DEF Forward

LEMMA AfterRetryGoesForward == ASSUME AfterRetry PROVE Forward
<1>1. stage = "over" /\ UNCHANGED <<index, attempts>>
  BY DEF AfterRetry
<1>2. stage' = "next"
  <2>1. Settle(0, "crash_recovered", "ok") \/ Settle(signal, "crash_repeated", "ok")
    BY DEF AfterRetry
  <2>2. ASSUME NEW again, NEW result, NEW failure, Settle(again, result, failure)
        PROVE  stage' = "next"
    BY <2>2 DEF Settle
  <2> QED BY <2>1, <2>2
<1> QED BY <1>1, <1>2, Phases DEF Forward

LEMMA MainGoesForward == ASSUME PlaceInv, Main PROVE Forward
<1>1. CASE NextScenario
  <2>1. index \in Nat
    BY Sizes, RunAssumption DEF PlaceInv, Types, TypesOfPlan
  <2> QED BY <1>1, <2>1 DEF NextScenario, Forward
<1>2. CASE EndRun
  BY <1>2, Phases DEF EndRun, mainVars, Forward
<1>3. CASE AfterAttempt
  BY <1>3, Phases DEF AfterAttempt, Forward
<1> QED BY <1>1, <1>2, <1>3, PreflightGoesForward, AfterRetryGoesForward DEF Main

LEMMA StageTypes == PlaceInv => stage \in Stages
BY DEF PlaceInv, Types, TypesOfAttempt

\* Exceptions and restarts of TalkBack.
LEMMA OthersGoForward == ASSUME PlaceInv, Interrupt \/ TalkBackRestarts PROVE Forward
<1>0. stage \in Stages
  BY StageTypes
<1>1. CASE Interrupt
  <2>1. Phase(stage) < 9
    BY <1>0, <1>1, Phases DEF Interrupt, Stages, Loop
  <2> QED BY <1>1, <2>1, Phases DEF Interrupt, mainVars, Forward
<1>2. CASE TalkBackRestarts
  <2>1. pid \in Nat
    BY Numbers, RunAssumption
  <2> QED BY <1>2, <2>1 DEF TalkBackRestarts, mainVars, attemptVars, Forward, Onward
<1> QED BY <1>1, <1>2

\* A run never goes in a circle: every step moves it on to a later scenario,
\* another attempt, a later phase of it, a later step, an untried candidate,
\* a later place of the step or, when TalkBack restarts, to a new process.
\* The scenarios, steps and candidates are given, and there are at most two
\* attempts (main, _collect_tab_rows).
THEOREM RunGoesForward == RunSpec => [][Forward]_runVars
<1>1. PlaceInv /\ [RunNext]_runVars => [Forward]_runVars
  <2> SUFFICES ASSUME PlaceInv, RunNext PROVE Forward
    OBVIOUS
  <2> QED
    BY LoopGoesOn, ConfigureGoesForward, OpenGoesForward, AnchorGoesForward, FinishGoesForward,
       GlobalNavigationGoesForward, MainGoesForward, OthersGoForward
    DEF RunNext, Collect
<1> QED BY <1>1, PlaceInvariant, RunAssumption, PTL DEF RunSpec

=============================================================================
