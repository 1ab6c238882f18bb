---------------------------- MODULE FocusRequest ----------------------------
(***************************************************************************)
(* What the transport promises of a focus-moving request, with no adb, no  *)
(* broadcast, no worker and no logcat in sight: once asked for, it is      *)
(* performed at most once or refused for good, is given its result at most *)
(* once and only then, and the caller gets that result or an error, once.  *)
(***************************************************************************)
EXTENDS Naturals

CONSTANTS Req, None

VARIABLES
  asked,    \* the requests made
  acts,     \* how often each was performed
  outcome,  \* how it went
  results,  \* how many results it was given
  answer    \* what its caller got

request == <<asked, acts, outcome, results, answer>>

Init ==
  /\ asked = {}
  /\ acts = [r \in Req |-> 0]
  /\ outcome = [r \in Req |-> None]
  /\ results = [r \in Req |-> 0]
  /\ answer = [r \in Req |-> None]

Ask(r) ==
  /\ r \notin asked
  /\ asked' = asked \cup {r}
  /\ UNCHANGED <<acts, outcome, results, answer>>

Open(r) == r \in asked /\ outcome[r] = None /\ acts[r] = 0 /\ results[r] = 0

Perform(r, v) ==
  /\ Open(r)
  /\ acts' = [acts EXCEPT ![r] = 1]
  /\ outcome' = [outcome EXCEPT ![r] = v]
  /\ UNCHANGED <<asked, results, answer>>

\* A refusal is a result at once.
Refuse(r) ==
  /\ Open(r)
  /\ outcome' = [outcome EXCEPT ![r] = "refused"]
  /\ results' = [results EXCEPT ![r] = 1]
  /\ UNCHANGED <<asked, acts, answer>>

Give(r) ==
  /\ acts[r] = 1
  /\ results[r] = 0
  /\ results' = [results EXCEPT ![r] = 1]
  /\ UNCHANGED <<asked, acts, outcome, answer>>

\* The caller may give up at any time, with the result there or still to come.
Answer(r, a) ==
  /\ r \in asked
  /\ answer[r] = None
  /\ a = "error" \/ (results[r] = 1 /\ a = outcome[r])
  /\ answer' = [answer EXCEPT ![r] = a]
  /\ UNCHANGED <<asked, acts, outcome, results>>

Next ==
  \E r \in Req :
     \/ Ask(r) \/ Refuse(r) \/ Give(r)
     \/ \E v \in {"moved", "failed"} : Perform(r, v)
     \/ \E a \in {"moved", "failed", "refused", "error"} : Answer(r, a)

Spec == Init /\ [][Next]_request

=============================================================================
