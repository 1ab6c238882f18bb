---------------------------- MODULE FreshLookup ----------------------------
(***************************************************************************)
(* What looking up a relation of the accessibility tree promises, with no  *)
(* cache, generation or event in sight.  The tree changes at any time, and *)
(* the helper learns of it later.  A lookup returns what was read while it *)
(* was being made, or what was read when nothing that the helper knows of  *)
(* had yet to change.                                                      *)
(***************************************************************************)
EXTENDS Naturals

CONSTANT None

VARIABLES
  tree,   \* the number of changes of the tree
  known,  \* how many of them the helper knows of
  asked,  \* the tree when the lookup in progress began, or None
  answer  \* the tree whose relation the last lookup returned, or None

lookup == <<tree, known, asked, answer>>

Init ==
  /\ tree = 0
  /\ known = 0
  /\ asked = None
  /\ answer = None

Change ==
  /\ tree' = tree + 1
  /\ UNCHANGED <<known, asked, answer>>

Learn ==
  /\ known' = tree
  /\ UNCHANGED <<tree, asked, answer>>

Ask ==
  /\ asked = None
  /\ asked' = tree
  /\ UNCHANGED <<tree, known, answer>>

\* Older than the call and older than a change the helper knows of is too old.
Answer ==
  /\ asked # None
  /\ asked' = None
  /\ answer' \in 0 .. tree
  /\ answer' >= asked \/ answer' >= known
  /\ UNCHANGED <<tree, known>>

\* The lookup ends in an exception.
Fail ==
  /\ asked # None
  /\ asked' = None
  /\ UNCHANGED <<tree, known, answer>>

Next == Change \/ Learn \/ Ask \/ Answer \/ Fail

Spec == Init /\ [][Next]_lookup

=============================================================================
