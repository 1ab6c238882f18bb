--------------------------- MODULE BaselineLifecycle ---------------------------
(***************************************************************************)
(* What the baseline repository promises of an approved baseline, with no  *)
(* log, lock, package or process in sight: it becomes active once, in the  *)
(* same step as the one it replaces stops being active, and it only ever   *)
(* moves on, to superseded and then to archived.                           *)
(***************************************************************************)
VARIABLES active, superseded, archived   \* sets of identifiers with a field "key"

lifecycle == <<active, superseded, archived>>

Init == active = {} /\ superseded = {} /\ archived = {}

\* A new baseline replaces the active one of its key, when there is one.
Approve(b) ==
  LET old == {x \in active : x.key = b.key} IN
  /\ b \notin active \cup superseded \cup archived
  /\ \A x, y \in old : x = y
  /\ active' = (active \ old) \cup {b}
  /\ superseded' = superseded \cup old
  /\ UNCHANGED archived

Supersede(b) ==
  /\ b \in active
  /\ active' = active \ {b}
  /\ superseded' = superseded \cup {b}
  /\ UNCHANGED archived

Archive(b) ==
  /\ b \in active \cup superseded
  /\ active' = active \ {b}
  /\ superseded' = superseded \ {b}
  /\ archived' = archived \cup {b}

\* Identifiers are whatever the implementation makes them: the new one is the
\* one that has just appeared in the set it moves to.
Next ==
  \/ \E b \in active' : Approve(b)
  \/ \E b \in superseded' : Supersede(b)
  \/ \E b \in archived' : Archive(b)

Spec == Init /\ [][Next]_lifecycle

=============================================================================
