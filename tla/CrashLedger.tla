------------------------------ MODULE CrashLedger ------------------------------
(***************************************************************************)
(* What a run promises of the crashes it meets, with no step, signal, event*)
(* id or recorder in sight: scenarios in their order, an attempt at each   *)
(* and a second one only after a crash of the first; a crash is of one     *)
(* attempt, stays open while its scenario is at hand, and is settled once, *)
(* with the outcome of the attempts; the run is given up when a crash is   *)
(* settled and too many were not recovered from, or the device is lost.    *)
(* A run may be cut off anywhere.                                          *)
(***************************************************************************)
EXTENDS Naturals, FiniteSets

CONSTANTS N, Kinds, Threshold

CrashTypes == {"POSSIBLE_CRASH", "APP_TERMINATED"}

VARIABLES
  plan,      \* the kind of each scenario
  scenario,  \* the one at hand
  tries,     \* the attempts at each that are over
  crashes,   \* the crashes of those attempts
  givenUp

ledger == <<plan, scenario, tries, crashes, givenUp>>

Init ==
  /\ plan \in [1..N -> Kinds]
  /\ scenario = 0
  /\ tries = [s \in 1..N |-> 0]
  /\ crashes = {}
  /\ givenUp = FALSE

Open == {c \in crashes : c.outcome = "open"}
Unrecovered == {c \in crashes : c.type = "POSSIBLE_CRASH" /\ c.outcome # "crash_recovered"}

Advance ==
  /\ scenario < N
  /\ ~givenUp
  /\ Open = {}
  /\ scenario # 0 /\ plan[scenario] # "disabled" => tries[scenario] > 0
  /\ scenario' = scenario + 1
  /\ UNCHANGED <<plan, tries, crashes, givenUp>>

\* The scenario is due: it has not been tried, or once with a crash.
Due ==
  /\ scenario # 0
  /\ plan[scenario] # "disabled"
  /\ ~givenUp
  /\ IF tries[scenario] = 0 THEN Open = {} ELSE tries[scenario] = 1 /\ Open # {}

Attempt ==
  /\ Due
  /\ tries' = [tries EXCEPT ![scenario] = @ + 1]
  /\ UNCHANGED <<plan, scenario, crashes, givenUp>>

AttemptCrashes(type) ==
  /\ Due
  /\ plan[scenario] = "content"
  /\ crashes' = crashes \cup {[scenario |-> scenario, attempt |-> tries[scenario],
                               type |-> type, outcome |-> "open"]}
  /\ tries' = [tries EXCEPT ![scenario] = @ + 1]
  /\ UNCHANGED <<plan, scenario, givenUp>>

\* What came of the scenario that crashed.
Outcome ==
  IF tries[scenario] = 1 THEN "recovery_preflight_failed"
  ELSE IF \E c \in Open : c.attempt = 1 THEN "crash_repeated" ELSE "crash_recovered"

\* The device can only be lost (lost) where the app is brought back.
Settle(lost) ==
  /\ Open # {}
  /\ lost => tries[scenario] = 1
  /\ crashes' = (crashes \ Open) \cup {[c EXCEPT !.outcome = Outcome] : c \in Open}
  /\ givenUp' = (lost \/ Cardinality(Unrecovered') >= Threshold)
  /\ UNCHANGED <<plan, scenario, tries>>

Next ==
  \/ Advance \/ Attempt
  \/ \E type \in CrashTypes : AttemptCrashes(type)
  \/ \E lost \in BOOLEAN : Settle(lost)

Spec == Init /\ [][Next]_ledger

=============================================================================
