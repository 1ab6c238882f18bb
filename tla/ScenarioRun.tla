---------------------------- MODULE ScenarioRun ----------------------------
(***************************************************************************)
(* One run of the runner: the scenarios of the selection in their order,   *)
(* the attempts at each of them, and what a crash of the app or a restart  *)
(* of TalkBack does to an attempt and to the run.                          *)
(*                                                                         *)
(* A crash found by the guard ends the attempt and leaves an event on disk *)
(* (crash_context.json) and a signal on the client.  main() reads the      *)
(* signal when the attempt is over, brings the app back, tries the         *)
(* scenario once more, writes what came of it into the contexts and counts *)
(* it, and gives up the run when it has counted enough.  A restart of      *)
(* TalkBack is seen by a recorder that compares process ids at the capture *)
(* points of an attempt, and invalidates the attempt.                      *)
(*                                                                         *)
(* What the app shows is left open: an inspection finds the app in front,  *)
(* left or terminated, and a step ends in any reason to stop or in none.   *)
(* The latch of the guard is left out: a detection ends the attempt, and   *)
(* the next one resets the latch before any inspection.  The hand-over of  *)
(* the food scenario to a second loop is left out too.                     *)
(***************************************************************************)
EXTENDS Naturals, Sequences, FiniteSets

CONSTANTS
  N,            \* number of scenarios selected
  Kinds,        \* of "content", "global_nav", "disabled": the plans considered
  MaxSteps,     \* max_steps of a scenario
  Candidates,   \* of identity recovery: rows of the inventory not visited
  StopReasons,  \* reasons to stop other than the repeat reasons
  Threshold,    \* TB_CRASH_ABORT_THRESHOLD (5 by default)
  Failures,     \* reasons for which a recovery preflight fails
  CoverageProbe, \* TB_V8_COVERAGE_PROBE: an attempt is probed when it is over
  MaxRestarts   \* bound: restarts of TalkBack

NonRecoverable == {"helper_not_ready", "talkback_not_ready", "talkback_off",
                   "foreground_not_confirmed"}

ASSUME RunAssumption ==
  /\ N \in Nat /\ MaxSteps \in Nat /\ MaxRestarts \in Nat
  /\ Threshold \in Nat \ {0} /\ CoverageProbe \in BOOLEAN
  /\ Kinds \subseteq {"content", "global_nav", "disabled"}
  /\ Failures \subseteq NonRecoverable \cup {"wake_screen_failed", "external_popup_contamination"}
  /\ StopReasons \cap {"none", "talkback_restarted", "possible_crash", "app_terminated",
                       "repeat_no_progress", "safety_limit"} = {}

MaxRetries == 1
CrashTypes == {"POSSIBLE_CRASH", "APP_TERMINATED"}
ReasonOf(type) == IF type = "POSSIBLE_CRASH" THEN "possible_crash" ELSE "app_terminated"

\* The repeat reasons: any of the four that identity recovery may answer.
Repeat == "repeat_no_progress"

VARIABLES
  plan,       \* the kind of each scenario
  \* the device
  pid,        \* the process id of TalkBack
  \* the client
  recorder,   \* the lifecycle recorder: the id last seen (or 0), a restart seen
  signal,     \* last_crash_terminal_signal: an event, or 0
  \* disk
  contexts,   \* crash_context.json of event 1, 2, ...
  \* the attempt under way
  stage,
  rows,       \* its rows
  step, current,  \* its step, and the row being made (0: none)
  stop,       \* why the current step stops the loop
  stopReason, \* state.stop_reason: why the attempt ended
  tried,      \* recovery_attempted_candidate_ids
  \* main()
  index,      \* the scenario
  handling,   \* the event being recovered from, or 0
  processed,  \* processed_crash_event_ids
  stats,      \* crash_run_stats
  abort,      \* crash_policy_abort
  attempts,   \* of each scenario: why its attempts ended
  unread      \* history: the last capture points of the attempt at which no
              \* id could be read, in a row (2: there were two once)

device == <<plan, pid>>
watch == <<recorder, unread>>
client == <<watch, signal>>
attemptVars == <<rows, step, current, stop, stopReason, tried>>
mainVars == <<index, handling, processed, stats, abort>>
runVars == <<device, client, contexts, stage, attemptVars, mainVars, attempts>>

Attempt == Len(attempts[index])  \* number of the attempt under way, from 0
Events == 1..Len(contexts)

-----------------------------------------------------------------------------
(* The recorder of TalkBack's process id.                                  *)

\* Mutant: a capture only reports what it sees itself.
SeenLatest(rec) == [pid |-> pid, restart |-> rec.pid \notin {0, pid}]

\* An id that was read is compared with the last one, if any, and a change
\* is remembered.
Seen(rec) == [pid |-> pid, restart |-> rec.restart \/ rec.pid \notin {0, pid}]

Read(rec) == recorder' = Seen(rec) /\ unread' = IF unread = 2 THEN 2 ELSE 0

\* A capture point: adb may fail or know of no process, in all the captures
\* made there, and then nothing is compared and nothing is said.
Capture == \/ Read(recorder)
           \/ unread' = (IF unread = 2 THEN 2 ELSE unread + 1) /\ UNCHANGED recorder

\* Some phases only capture when they act on the device.
CaptureOrNot == Read(recorder) \/ UNCHANGED watch

\* A new recorder takes over the id its predecessor has seen; the captures
\* at the start of the scenario follow.
ConfigureRecorder ==
  LET new == [recorder EXCEPT !.restart = FALSE]
  IN \/ recorder' = Seen(new) /\ unread' = 0
     \/ recorder' = new /\ unread' = 1

-----------------------------------------------------------------------------
(* Ends of an attempt.                                                     *)

Row(kind, p, end) == [kind |-> kind, pid |-> p, end |-> end]

EndAttempt(why) ==
  /\ attempts' = [attempts EXCEPT ![index] = Append(@, why)]
  /\ stage' = "over"

\* The reason is final; what is left is the end of the attempt.
LeaveLoop(why) ==
  /\ stopReason' = why
  /\ stage' = "finish"

\* The tab was not opened: one terminal row stands for the attempt.
NotOpened(why) ==
  /\ rows' = <<Row("terminal", pid, TRUE)>>
  /\ LeaveLoop(why)

\* Mutant: a reason the attempt already has is kept.
RestartAbortsFirst ==
  recorder'.restart /\ LeaveLoop(IF stopReason = "" THEN "talkback_restarted" ELSE stopReason)

\* Leave the loop on account of a restart.
RestartAborts == recorder'.restart /\ LeaveLoop("talkback_restarted")

-----------------------------------------------------------------------------
(* The crash guard.                                                        *)

\* A detection is recorded as an event and leaves its signal.
Detect(type) ==
  /\ contexts' = Append(contexts, [scenario |-> index, attempt |-> Attempt, type |-> type,
                                   result |-> "captured", failure |-> "", policy |-> "none"])
  /\ signal' = Len(contexts) + 1

\* Nothing detected: the signal is withdrawn.
NoDetection == signal' = 0 /\ UNCHANGED contexts

\* Mutant: the signal of the last attempt is left.
ResetNothing == UNCHANGED signal

\* What is reset before an attempt at a content scenario.
ResetSignal == signal' = 0

-----------------------------------------------------------------------------
(* The start of an attempt.                                                *)

Configure ==
  /\ stage = "configure"
  /\ step' = 0 /\ current' = 0 /\ stop' = "none" /\ tried' = {}
  /\ ResetSignal
  /\ ConfigureRecorder
  /\ \/ recorder'.restart /\ NotOpened("talkback_restarted")
     \/ /\ ~recorder'.restart
        /\ stage' = "open" /\ rows' = <<>> /\ stopReason' = ""
  /\ UNCHANGED <<device, contexts, mainVars, attempts>>

\* The scenario is opened, or it is not, and a failure of the tab's
\* stabilisation is inspected for a crash.  A restart overrules the outcome.
Open ==
  /\ stage = "open"
  /\ Capture
  /\ \E outcome \in {"opened", "special_state_handled", "optional_not_available",
                     "tab_or_anchor_failed"} \cup CrashTypes :
       /\ \/ outcome \in CrashTypes /\ Detect(outcome)
          \/ outcome = "tab_or_anchor_failed" /\ NoDetection
          \/ outcome \notin CrashTypes /\ UNCHANGED <<signal, contexts>>
       /\ \/ recorder'.restart /\ NotOpened("talkback_restarted")
          \/ ~recorder'.restart /\ outcome \in CrashTypes /\ NotOpened(ReasonOf(outcome))
          \/ ~recorder'.restart /\ outcome \notin CrashTypes \cup {"opened"} /\ NotOpened(outcome)
          \/ /\ ~recorder'.restart /\ outcome = "opened"
             /\ stage' = "anchor"
             /\ UNCHANGED <<rows, stopReason>>
  /\ UNCHANGED <<device, step, current, stop, tried, mainVars, attempts>>

\* The focus after opening and the anchor are read: the anchor is the first
\* row, unless TalkBack restarted before it was captured.
Anchor ==
  /\ stage = "anchor"
  /\ Capture
  /\ UNCHANGED signal
  /\ \/ recorder'.restart /\ NotOpened("talkback_restarted")
     \/ /\ ~recorder'.restart
        /\ rows' = <<Row("anchor", pid, FALSE)>>
        /\ stage' = "step"
        /\ UNCHANGED stopReason
  /\ step' = 1
  /\ UNCHANGED <<device, contexts, current, stop, tried, mainVars, attempts>>

-----------------------------------------------------------------------------
(* A step of the main loop.                                                *)

\* Mutant: one step more.
NoStepLeftLate == step > MaxSteps + 1

\* The loop over the steps is through.
NoStepLeft == step > MaxSteps

\* The next step begins with a capture; a restart seen before or by it ends
\* the loop, as does the last step.
BeginStep ==
  /\ stage = "step"
  /\ \/ NoStepLeft /\ LeaveLoop("safety_limit") /\ UNCHANGED watch
     \/ /\ ~NoStepLeft
        /\ Capture
        /\ \/ RestartAborts
           \/ ~recorder'.restart /\ stage' = "move" /\ UNCHANGED stopReason
  /\ UNCHANGED <<device, signal, contexts, rows, step, current, stop, tried, mainVars, attempts>>

\* collect_focus_step: TalkBack is moved on and the new focus is read.
Move ==
  /\ stage = "move"
  /\ current' = pid
  /\ stage' = "moved"
  /\ UNCHANGED <<device, client, contexts, rows, step, stop, stopReason, tried, mainVars, attempts>>

\* The capture after the move: a row read across a restart is dropped.
CaptureMove ==
  /\ stage = "moved"
  /\ Capture
  /\ \/ RestartAborts
     \/ ~recorder'.restart /\ stage' = "guard" /\ UNCHANGED stopReason
  /\ UNCHANGED <<device, signal, contexts, rows, step, current, stop, tried, mainVars, attempts>>

\* A crash makes the row the last one of the attempt.
Guard ==
  /\ stage = "guard"
  /\ \/ /\ NoDetection
        /\ stage' = "decide"
        /\ UNCHANGED <<rows, stopReason>>
     \/ \E type \in CrashTypes :
          /\ Detect(type)
          /\ rows' = Append(rows, Row("step", current, TRUE))
          /\ LeaveLoop(ReasonOf(type))
  /\ UNCHANGED <<device, watch, step, current, stop, tried, mainVars, attempts>>

\* The evaluation of the step and the phases that suppress a stop.
Decide ==
  /\ stage = "decide"
  /\ stop' \in {"none", Repeat} \cup StopReasons
  /\ stage' = IF stop' = Repeat THEN "recover" ELSE "content"
  /\ UNCHANGED <<device, client, contexts, rows, step, current, stopReason, tried, mainVars, attempts>>

\* Mutant: what has been tried is forgotten.
EligibleAgain == Candidates

\* Candidates that recovery may still try.
Eligible == Candidates \ tried

\* Identity recovery: the focus is put on a candidate it has not tried, or
\* there is none (eligible), which leaves the stop as it is.
Recover ==
  /\ stage = "recover"
  /\ \/ stage' = "content" /\ UNCHANGED <<watch, tried>>
     \/ \E c \in Eligible : tried' = tried \cup {c} /\ CaptureOrNot /\ stage' = "verify"
  /\ UNCHANGED <<device, signal, contexts, rows, step, current, stop, stopReason, mainVars,
                 attempts>>

\* The focus is read: when it is known to have moved the row is replaced and
\* its stop with it (a repeat reason is lifted); else the next is tried.
Verify ==
  /\ stage = "verify"
  /\ \/ /\ current' = pid
        /\ stop' \in {"none"} \cup StopReasons
        /\ stage' = "content"
     \/ stage' = "recover" /\ UNCHANGED <<current, stop>>
  /\ UNCHANGED <<device, client, contexts, rows, step, stopReason, tried, mainVars, attempts>>

\* The rest of the decision (escape, popup, boundaries, content terminal)
\* may lift the stop or set another; the row is kept unless a restart has
\* been seen, and may only be suppressed when the loop goes on.
Persist ==
  /\ stage = "content"
  /\ CaptureOrNot
  /\ stop' \in {stop, "none"} \cup StopReasons
  /\ \/ RestartAborts /\ UNCHANGED rows
     \/ /\ ~recorder'.restart
        /\ stage' = "overlay"
        /\ stopReason' = IF stop' = "none" THEN stopReason ELSE stop'
        /\ LET kept == Append(rows, Row("step", current, stop' # "none"))
           IN rows' \in {kept} \cup (IF stop' = "none" THEN {rows} ELSE {})
  /\ UNCHANGED <<device, signal, contexts, step, current, tried, mainVars, attempts>>

\* Mutant: the loop goes on after an overlay.
BreaksUnlessWalked == stop # "none" /\ rows' = rows

\* The loop is left after the step.
Breaks == stop # "none"

\* An overlay of the row is walked, after an END row too; a restart seen
\* there replaces the reason, but not the one in the row.
Overlay ==
  /\ stage = "overlay"
  /\ CaptureOrNot
  /\ rows' \in {rows, Append(rows, Row("overlay", pid, FALSE))}
  /\ \/ RestartAborts /\ UNCHANGED step
     \/ /\ ~recorder'.restart
        /\ \/ Breaks /\ stage' = "finish" /\ UNCHANGED step
           \/ ~Breaks /\ stage' = "step" /\ step' = step + 1
        /\ UNCHANGED stopReason
  /\ UNCHANGED <<device, signal, contexts, current, stop, tried, mainVars, attempts>>

\* The summary of the attempt carries its reason.  The coverage probe, where
\* it is on, scrolls the screens once more and so captures: a restart seen
\* there comes too late for the reason.
Finish ==
  /\ stage = "finish"
  /\ EndAttempt(stopReason)
  /\ IF CoverageProbe THEN CaptureOrNot ELSE UNCHANGED watch
  /\ UNCHANGED <<device, signal, contexts, attemptVars, mainVars>>

\* A global navigation scenario neither resets the signal nor looks for a
\* crash; what it does to the device may be captured by the last recorder.
GlobalNavigation ==
  /\ stage = "global_nav"
  /\ CaptureOrNot
  /\ rows' = <<Row("terminal", pid, FALSE)>>
  /\ \E why \in {"global_nav_verified", "global_nav_incomplete", "global_nav_safety_limit"} :
       stopReason' = why /\ EndAttempt(why)
  /\ UNCHANGED <<device, signal, contexts, step, current, stop, tried, mainVars>>

-----------------------------------------------------------------------------
(* main(): from scenario to scenario.                                      *)

Stage(kind) == IF kind = "content" THEN "configure" ELSE "global_nav"

NextScenario ==
  /\ stage = "next" /\ index < N /\ ~abort
  /\ index' = index + 1
  /\ stage' = IF plan[index'] = "disabled" THEN "next" ELSE Stage(plan[index'])
  /\ UNCHANGED <<device, client, contexts, attemptVars, handling, processed, stats, abort,
                 attempts>>

\* The rows are reconciled and saved.
EndRun ==
  /\ stage = "next" /\ (index = N \/ abort)
  /\ stage' = "done"
  /\ UNCHANGED <<device, client, contexts, attemptVars, mainVars, attempts>>

\* Mutant: a possible crash counts whatever became of it.
CountConsumed(st, e, result) ==
  IF e \in st.seen \cup {0} THEN st
  ELSE [seen |-> st.seen \cup {e},
        counted |-> st.counted + (IF contexts[e].type = "POSSIBLE_CRASH" THEN 1 ELSE 0)]

\* update_crash_run_stats: an event is counted once, and a possible crash
\* counts unless it is said to be recovered from.
Count(st, e, result) ==
  IF e \in st.seen \cup {0} THEN st
  ELSE [seen |-> st.seen \cup {e},
        counted |-> st.counted + (IF contexts[e].type = "POSSIBLE_CRASH" /\ result # "crash_recovered"
                                  THEN 1 ELSE 0)]

\* should_abort_for_crash_policy
Policy(st, failure) ==
  IF failure \in NonRecoverable \/ st.counted >= Threshold THEN "abort" ELSE "continue"

\* The outcome of the crash at hand, and of the one that its retry ended in
\* ("again", or 0), is written, counted and put to the policy.
Settle(again, result, failure) ==
  LET st == Count(Count(stats, handling, result), again, result)
      policy == Policy(st, failure)
  IN /\ contexts' = [e \in Events |->
                      IF e \in {handling, again}
                      THEN [contexts[e] EXCEPT !.result = result, !.failure = failure,
                                               !.policy = policy]
                      ELSE contexts[e]]
     /\ stats' = st
     /\ abort' = (policy = "abort")
     /\ handling' = 0
     /\ stage' = "next"

\* Mutant: a signal is not remembered.
MarkNothing == UNCHANGED processed

\* should_process_crash_recovery
MarkProcessed == processed' = processed \cup {signal}

\* After the first attempt: a signal that has not been processed yet is.
AfterAttempt ==
  /\ stage = "over" /\ handling = 0
  /\ \/ /\ signal \in processed \cup {0}
        /\ stage' = "next"
        /\ UNCHANGED <<processed, handling>>
     \/ /\ signal \notin processed \cup {0}
        /\ MarkProcessed
        /\ handling' = signal
        /\ stage' = "preflight"
  /\ UNCHANGED <<device, client, contexts, attemptVars, index, stats, abort, attempts>>

\* run_recovery_preflight: the app is brought back and checked.  One that
\* passes is followed by another attempt, unless the crash was one of that.
Preflight ==
  /\ stage = "preflight"
  /\ \E reason \in Failures \cup {"ok"} :
       IF reason = "ok" /\ contexts[handling].attempt < MaxRetries
       THEN /\ contexts' = [contexts EXCEPT ![handling].result = "recovery_preflight_passed"]
            /\ stage' = Stage(plan[index])
            /\ UNCHANGED <<handling, stats, abort>>
       ELSE Settle(0, IF reason = "ok" THEN "recovery_preflight_passed"
                      ELSE "recovery_preflight_failed", reason)
  /\ UNCHANGED <<device, client, attemptVars, index, processed, attempts>>

\* After the second attempt: no signal means that the crash was recovered
\* from, whatever became of the attempt.
AfterRetry ==
  /\ stage = "over" /\ handling # 0
  /\ \/ signal = 0 /\ Settle(0, "crash_recovered", "ok") /\ UNCHANGED processed
     \/ signal # 0 /\ Settle(signal, "crash_repeated", "ok") /\ MarkProcessed
  /\ UNCHANGED <<device, client, attemptVars, index, attempts>>

\* An exception of any call, or the end of the process.
Interrupt ==
  /\ stage \notin {"done", "interrupted"}
  /\ stage' = "interrupted"
  /\ UNCHANGED <<device, client, contexts, attemptVars, mainVars, attempts>>

TalkBackRestarts ==
  /\ stage \notin {"done", "interrupted"}
  /\ pid <= MaxRestarts
  /\ pid' = pid + 1
  /\ UNCHANGED <<plan, client, contexts, stage, attemptVars, mainVars, attempts>>

-----------------------------------------------------------------------------

RunInit ==
  /\ plan \in [1..N -> Kinds]
  /\ pid = 1
  /\ recorder \in {[pid |-> id, restart |-> FALSE] : id \in 0..1}
  /\ signal = 0
  /\ contexts = <<>>
  /\ stage = "next"
  /\ rows = <<>> /\ step = 0 /\ current = 0
  /\ stop = "none" /\ stopReason = "" /\ tried = {}
  /\ index = 0 /\ handling = 0 /\ processed = {}
  /\ stats = [seen |-> {}, counted |-> 0]
  /\ abort = FALSE
  /\ attempts = [s \in 1..N |-> <<>>]
  /\ unread = 0

Collect == Configure \/ Open \/ Anchor \/ BeginStep \/ Move \/ CaptureMove \/ Guard
           \/ Decide \/ Recover \/ Verify \/ Persist \/ Overlay \/ Finish \/ GlobalNavigation
Main == NextScenario \/ EndRun \/ AfterAttempt \/ Preflight \/ AfterRetry
RunNext == Collect \/ Main \/ Interrupt \/ TalkBackRestarts

\* The runner is one thread and does not stop by itself.
RunSpec == RunInit /\ [][RunNext]_runVars /\ WF_runVars(Collect \/ Main)

-----------------------------------------------------------------------------
(* Properties.                                                             *)

Context == [scenario : 1..N, attempt : 0..MaxRetries, type : CrashTypes,
            result : {"captured", "recovery_preflight_passed", "recovery_preflight_failed",
                      "crash_recovered", "crash_repeated"},
            failure : Failures \cup {"", "ok"}, policy : {"none", "continue", "abort"}]
Reasons == StopReasons \cup {"safety_limit", "talkback_restarted", "possible_crash", "app_terminated",
  Repeat, "special_state_handled", "optional_not_available", "tab_or_anchor_failed",
  "global_nav_verified", "global_nav_incomplete", "global_nav_safety_limit"}

Stages == {"next", "configure", "open", "anchor", "step", "move", "moved", "guard", "decide",
  "recover", "verify", "content", "overlay", "finish", "global_nav", "over", "preflight", "done",
  "interrupted"}
Rows == Seq([kind : {"terminal", "anchor", "step", "overlay"}, pid : 1..pid, end : BOOLEAN])

\* The shape of the state.
RunTypeOK ==
  /\ plan \in [1..N -> Kinds]
  /\ pid \in 1..(MaxRestarts + 1)
  /\ recorder \in [pid : 0..pid, restart : BOOLEAN] /\ unread \in 0..2
  /\ contexts \in Seq(Context)
  /\ signal \in Events \cup {0}
  /\ stage \in Stages
  /\ rows \in Rows
  /\ step \in 0..(MaxSteps + 1) /\ current \in 0..pid
  /\ stop \in StopReasons \cup {"none", Repeat}
  /\ stopReason \in Reasons \cup {""}
  /\ tried \subseteq Candidates
  /\ index \in 0..N /\ handling \in Events \cup {0}
  /\ processed \subseteq Events
  /\ stats \in [seen : SUBSET Events, counted : Nat]
  /\ abort \in BOOLEAN
  /\ attempts \in [1..N -> Seq(Reasons)]

\* main() is between two scenarios, or at the end.
Resting == stage \in {"next", "done"}

\* The attempt of scenario s crashed.
Crashed(s, attempt) ==
  \E e \in Events : contexts[e].scenario = s /\ contexts[e].attempt = attempt

\* Between scenarios every crash on disk has an outcome, and it is that of
\* the attempts at the scenario it happened in: recovered when there was
\* another attempt without a crash, repeated when that crashed as well, and
\* a failed preflight when there was none.
OutcomeOnDisk ==
  Resting =>
    \A e \in Events :
      LET s == contexts[e].scenario
      IN /\ Len(attempts[s]) \in 1..2
         /\ contexts[e].result =
              CASE Len(attempts[s]) = 1 -> "recovery_preflight_failed"
                [] Len(attempts[s]) = 2 /\ ~Crashed(s, 1) -> "crash_recovered"
                [] OTHER -> "crash_repeated"

\* Possible crashes on disk that were not recovered from.
Unrecovered == {e \in Events : /\ contexts[e].type = "POSSIBLE_CRASH"
                               /\ contexts[e].result # "crash_recovered"}

\* The counter in memory is that of the crashes on disk, each counted once,
\* and the run is given up when they reach the threshold or when the device
\* could not be brought back, and for no other reason.
AbortWhenDue ==
  Resting =>
    /\ stats.counted = Cardinality(Unrecovered)
    /\ abort <=> \/ Cardinality(Unrecovered) >= Threshold
                 \/ \E e \in Events : contexts[e].failure \in NonRecoverable

\* While a crash is being recovered from, the scenario at hand is the one
\* that crashed, no other crash is open, and it is tried at most once more.
RecoveryInScenario ==
  handling # 0 =>
    /\ contexts[handling].scenario = index
    /\ contexts[handling].attempt = 0
    /\ Attempt \in 1..2
    /\ plan[index] = "content"

IsMain(k) == k \in DOMAIN rows /\ rows[k].kind # "overlay"

\* The main loop does not go on from a row that was read with another
\* process of TalkBack than the rows before it: such a row is the last one.
\* One capture point at which the id cannot be read does not change that, nor
\* do any number of them that are not next to each other; two in a row may.
ContinuousRows ==
  unread < 2 =>
    \A j, k, l \in DOMAIN rows :
      j < k /\ k < l /\ IsMain(j) /\ IsMain(k) /\ IsMain(l) => rows[j].pid = rows[k].pid

\* When the reason of an attempt is final, it is that TalkBack restarted if
\* and only if the recorder has seen it restart, at whatever point before,
\* also after the END row or a crash.
RestartInvalidates ==
  stage = "finish" => (recorder.restart <=> stopReason = "talkback_restarted")

\* Nothing but overlays follows the END row, an attempt that ran out of steps
\* has none, and one without it ran out of steps or was invalidated.
EndRowIsLast ==
  LET ended == \E k \in DOMAIN rows : rows[k].end
  IN /\ \A j, k \in DOMAIN rows : j < k /\ rows[j].end => ~IsMain(k)
     /\ stage = "over" /\ plan[index] = "content" =>
          /\ ended => stopReason # "safety_limit"
          /\ ~ended => stopReason \in {"safety_limit", "talkback_restarted"}

\* A retry that is said to have recovered the scenario went past its start:
\* it completed without a crash or went on to the next step
\* (docs/crash-capture-design.md:405).
RecoveredMeansResumed ==
  \A e \in Events : contexts[e].result = "crash_recovered" =>
    attempts[contexts[e].scenario][2] \notin {"tab_or_anchor_failed", "talkback_restarted"}

\* Every run ends.
RunEnds == <>(stage \in {"done", "interrupted"})

=============================================================================
