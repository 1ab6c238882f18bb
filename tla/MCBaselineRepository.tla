------------------------ MODULE MCBaselineRepository ------------------------
(* Instances of BaselineRepository, and of its refinement, for TLC. *)
EXTENDS BaselineRefinement, TLC

CONSTANTS p1, p2, c1, c2, c3, k1, k2, a1, a2

\* Every candidate competes for one key, or two for one and one for another.
OneKey == [c \in Cand |-> k1]
TwoKeys == c1 :> k1 @@ c2 :> k1 @@ c3 :> k2

\* a1 is required of every candidate, or of none.
NeedA1 == [c \in Cand |-> {a1}]
NeedNone == [c \in Cand |-> {}]

\* IInv over the infinite sets it ranges over, cut down to what can occur.
Named == {q.id : q \in packages} \cup {log[i].id : i \in 1..Len(log)} \cup
         {log[i].rel : i \in 1..Len(log)}

IInvChecked ==
  /\ RequestOK
  /\ ApprovalInProgress
  /\ PinningInProgress
  /\ ReplacementInProgress
  /\ \A i \in 1..Len(log) : \A x \in Named \cap BaselineId :
       Affects(log[i], x) => HasPackage(x)

OpsSymmetric == Permutations(Proc) \cup Permutations({c1, c2})
Symmetric == Permutations(Proc) \cup Permutations(Cand)
===========================================================================
