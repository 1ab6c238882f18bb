----------------------- MODULE ContentTerminalProofs -----------------------
(***************************************************************************)
(* Proofs about ContentTerminal for lists of every length, with every      *)
(* repetition of looks, every size of the screen and all limits.           *)
(***************************************************************************)
EXTENDS ContentTerminal, FiniteSetTheorems, TLAPS

USE ListAssumption, LimitAssumption

-----------------------------------------------------------------------------
(* Frames and moves.                                                       *)

\* A frame holds instances.
LEMMA FrameType ==
  ASSUME layout \in Layouts, NEW t \in Top
  PROVE  /\ Frame(t) \subseteq Key
         /\ \A i \in Visible(t) : i \in Item /\ KeyAt(i, t) \in Key
<1>1. Items \in Nat /\ Rows \in Nat /\ Rows <= Items /\ t \in Nat /\ t <= Items - Rows
  BY DEF Top
<1>2. layout \in [1..Items -> Looks]
  OBVIOUS
<1>3. ASSUME NEW i \in Visible(t) PROVE i \in Item /\ i - t \in 1..Rows
  BY <1>1, <1>3 DEF Visible, Item
<1>4. ASSUME NEW i \in Visible(t) PROVE KeyAt(i, t) \in Key
  BY <1>2, <1>3 DEF KeyAt, Key, Item
<1> QED BY <1>3, <1>4 DEF Frame

\* A move joins an instance that went to one that came, of the same look.
LEMMA CohortMoves ==
  ASSUME NEW before, NEW after, NEW p \in RelocationCohort(before, after)
  PROVE  /\ p[1] \in before \ after /\ p[2] \in after \ before
         /\ p[1][1] = p[2][1]
         /\ \A other \in before : other[1] = p[1][1] => other = p[1]
         /\ \A other \in after : other[1] = p[2][1] => other = p[2]
BY DEF RelocationCohort, Moves, Unique

\* What is covered has the look of something witnessed, if aliases keep looks.
LEMMA CoveredLook ==
  ASSUME NEW al, NEW w, \A k \in DOMAIN al : al[k][1] = k[1],
         NEW k \in LogicalCovered(al, w)
  PROVE  \E x \in w : x[1] = k[1]
<1> DEFINE ends == {al[x] : x \in DOMAIN al}
           same == {x \in ends : \E y \in w : y[1] = x[1]}
<1>1. CASE k \in w
  BY <1>1
<1>2. CASE k \notin w
  <2>1. \A x \in DOMAIN al : x \in w \cup same => al[x] \in same
    OBVIOUS
  <2>2. k \in same
    BY <1>2, <2>1 DEF LogicalCovered
  <2> QED BY <2>2
<1> QED BY <1>1, <1>2

-----------------------------------------------------------------------------
(* One frame more.                                                         *)

\* The aliases after a frame: those of the rows that are not in it, and of
\* the rows that have moved to it.
LEMMA LifecycleKeeps ==
  ASSUME layout \in Layouts, scope \in BOOLEAN, AliasesOK, RowsStayActive,
         previous \subseteq records, DOMAIN aliases \subseteq records,
         aliases \in [DOMAIN aliases -> records],
         NEW t \in Top, NEW f \in {{}, Frame(t)}, NEW c,
         records' = records \cup f, scope' = scope, layout' = layout,
         ObserveLifecycle(f, c, t)
  PROVE  /\ DOMAIN aliases' \subseteq records' /\ aliases' \in [DOMAIN aliases' -> records']
         /\ previous' \subseteq records' /\ previousScope' \in {"none", "list"}
         /\ previousTop' = t /\ previous' \in {{}, Frame(t)}
         /\ AliasesOK' /\ RowsStayActive'
<1>0. previousTop' = t
  BY DEF ObserveLifecycle
<1>1. CASE ~(scope /\ f # {})
  <2>1. previous' = {} /\ previousScope' = "none" /\ aliases' = aliases
    BY <1>1 DEF ObserveLifecycle
  <2>2. AliasesOK'
    BY <2>1 DEF AliasesOK
  <2>3. ASSUME NEW k \in records' PROVE \E other \in records' \ DOMAIN aliases' : other[1] = k[1]
    <3>1. CASE k \in records
      BY <2>1, <3>1 DEF RowsStayActive
    <3>2. CASE k \in f
      <4>1. DOMAIN aliases = {}
        BY <1>1, <3>2 DEF AliasesOK
      <4> QED BY <2>1, <3>2, <4>1
    <3> QED BY <3>1, <3>2
  <2>4. RowsStayActive'
    BY <2>3 DEF RowsStayActive
  <2> QED BY <1>0, <2>1, <2>2, <2>4
<1>2. CASE scope /\ f # {}
  <2> DEFINE pairs == IF previous # {} /\ previousScope = ScopeOf(c) /\ c # "unknown"
                      THEN RelocationCohort(previous, f) ELSE {}
             kept == DOMAIN aliases \ f
             moved == {p[1] : p \in pairs}
             to(k) == (CHOOSE p \in pairs : p[1] = k)[2]
  <2>1. /\ aliases' = [k \in kept \cup moved |-> IF k \in moved THEN to(k) ELSE aliases[k]]
        /\ previous' = f /\ previousScope' = ScopeOf(c)
    BY <1>2 DEF ObserveLifecycle
  <2>2. ASSUME NEW p \in pairs
        PROVE  /\ p[1] \in previous \ f /\ p[2] \in f \ previous /\ p[1][1] = p[2][1]
               /\ \A other \in previous : other[1] = p[1][1] => other = p[1]
    BY CohortMoves
  <2>3. ASSUME NEW k \in moved
        PROVE  k \in previous \ f /\ to(k) \in f /\ to(k)[1] = k[1]
    <3>1. PICK p \in pairs : p[1] = k
      OBVIOUS
    <3>2. \E q \in pairs : q[1] = k
      BY <3>1
    <3> DEFINE q == CHOOSE q \in pairs : q[1] = k
    <3>3. q \in pairs /\ q[1] = k
      BY <3>2
    <3> HIDE DEF q
    <3>4. q[1] \in previous \ f /\ q[2] \in f \ previous /\ q[1][1] = q[2][1]
      BY <2>2, <3>3
    <3>5. to(k) = q[2]
      BY DEF q
    <3> QED BY <3>3, <3>4, <3>5
  <2>4. /\ DOMAIN aliases' = kept \cup moved
        /\ \A k \in moved : aliases'[k] = to(k)
        /\ \A k \in kept \ moved : aliases'[k] = aliases[k]
    BY <2>1
  <2> HIDE DEF to, pairs
  <2>5. DOMAIN aliases' \subseteq records' /\ DOMAIN aliases' \cap f = {}
    BY <2>3, <2>4
  <2>6. \A k \in DOMAIN aliases' : aliases'[k] \in records' /\ aliases'[k][1] = k[1]
    BY <2>3, <2>4 DEF AliasesOK
  <2>7. aliases' \in [DOMAIN aliases' -> records']
    BY <2>1, <2>6
  <2>8. AliasesOK'
    BY <1>2, <2>1, <2>5, <2>6 DEF AliasesOK
  <2>9. ASSUME NEW k \in records' PROVE \E other \in records' \ DOMAIN aliases' : other[1] = k[1]
    <3>1. CASE \E other \in f : other[1] = k[1]
      BY <2>5, <3>1
    <3>2. CASE ~ \E other \in f : other[1] = k[1]
      <4>1. k \in records
        BY <3>2
      <4>2. PICK other \in records \ DOMAIN aliases : other[1] = k[1]
        BY <4>1 DEF RowsStayActive
      <4>3. other \notin moved
        BY <2>3, <3>2, <4>2
      <4> QED BY <2>4, <4>2, <4>3
    <3> QED BY <3>1, <3>2
  <2>10. RowsStayActive'
    BY <2>9 DEF RowsStayActive
  <2> QED BY <1>0, <2>1, <2>5, <2>7, <2>8, <2>10 DEF ScopeOf
<1> QED BY <1>1, <1>2

\* What a frame establishes of the ledger, whatever is decided of it.
LedgerOK ==
  /\ records \subseteq Key /\ visited \subseteq focusKeys /\ semantic \subseteq records
  /\ signature \in (SUBSET Key) \X (Cap \cup {"none"}) /\ stable \in 0..2
  /\ noProgress \in 0..NoProgressLimit /\ noFocus \in 0..NoFocusLimit
  /\ attempted \subseteq SUBSET Key /\ tried \subseteq Key
  /\ previous \subseteq records /\ previousScope \in {"none", "list"}
  /\ previousTop \in Top
  /\ DOMAIN aliases \subseteq records /\ aliases \in [DOMAIN aliases -> records]
  /\ unseen \subseteq records \ (DOMAIN aliases \cup visited)
  /\ AliasesOK /\ CreditOK /\ RowsStayActive
  /\ previous \in {{}, Frame(previousTop)}

\* observe keeps the ledger sound; the verdict is left to the action.
LEMMA ObserveKeeps ==
  ASSUME ContentInv, NEW t \in Top, NEW f \in {{}, Frame(t)}, NEW c \in Cap,
         NEW scroll \in ScrollMade,
         NEW again \in BOOLEAN,
         scope' = scope, layout' = layout, focusKeys' = focusKeys, readings' = readings,
         Observe(f, c, t, scroll, again)
  PROVE  LedgerOK'
<1>0. layout \in Layouts /\ ContentTypeOK /\ AliasesOK /\ CreditOK /\ RowsStayActive
  BY DEF ContentInv, ContentTypeOK
<1>1. f \subseteq Key
  BY <1>0, FrameType
<1>2. /\ records' = records \cup f /\ ObserveLifecycle(f, c, t)
      /\ visited' = visited \cup focusKeys
      /\ semantic' = semantic \cup (readings \cap records')
      /\ signature' = <<f, c>> /\ stable' \in {1, 2}
      /\ attempted' = attempted \cup scroll.before /\ tried' = tried \cup row.target
      /\ unseen' = (records' \ DOMAIN aliases') \
                   LogicalCovered(aliases', visited' \cup {k \in semantic' : Readable(k)})
  BY DEF Observe
<1>3. /\ DOMAIN aliases' \subseteq records' /\ aliases' \in [DOMAIN aliases' -> records']
      /\ previous' \subseteq records' /\ previousScope' \in {"none", "list"}
      /\ previousTop' = t /\ previous' \in {{}, Frame(t)}
      /\ AliasesOK' /\ RowsStayActive'
  <2>1. /\ scope \in BOOLEAN /\ previous \subseteq records
        /\ DOMAIN aliases \subseteq records /\ aliases \in [DOMAIN aliases -> records]
    BY <1>0 DEF ContentTypeOK
  <2> QED BY <1>0, <1>2, <2>1, LifecycleKeeps
<1>4. /\ records' \subseteq Key /\ visited' \subseteq focusKeys' /\ semantic' \subseteq records'
      /\ semantic' \subseteq readings'
  BY <1>0, <1>1, <1>2 DEF ContentTypeOK, CreditOK
<1>5. signature' \in (SUBSET Key) \X (Cap \cup {"none"}) /\ stable' \in 0..2
  BY <1>1, <1>2
<1>6. noProgress' \in 0..NoProgressLimit /\ noFocus' \in 0..NoFocusLimit
  <2>1. /\ noProgress' \in {0, noProgress, AtMost(noProgress + 1, NoProgressLimit)}
        /\ noFocus' \in {0, noFocus, AtMost(noFocus + 1, NoFocusLimit)}
    BY DEF Observe
  <2> QED BY <1>0, <2>1 DEF ContentTypeOK, AtMost
<1>7. attempted' \subseteq SUBSET Key /\ tried' \subseteq Key
  BY <1>0, <1>2 DEF ContentTypeOK, ScrollMade
<1>8. \A al, w : w \subseteq LogicalCovered(al, w)
  BY DEF LogicalCovered
<1>9. unseen' \subseteq records' \ (DOMAIN aliases' \cup visited')
  BY <1>2, <1>8
<1>10. CreditOK'
  BY <1>2, <1>4 DEF CreditOK, Readable
<1>11. previous' \in {{}, Frame(previousTop)'}
  BY <1>3 DEF Frame, KeyAt, Visible
<1> QED BY <1>3, <1>4, <1>5, <1>6, <1>7, <1>9, <1>10, <1>11 DEF LedgerOK

-----------------------------------------------------------------------------
(* The steps.                                                              *)

LEMMA ContentInitOK == ContentInit => ContentInv
<1> SUFFICES ASSUME ContentInit PROVE ContentInv
  OBVIOUS
<1>1. layout \in Layouts /\ top \in Top /\ DOMAIN aliases = {} /\ visited = {} /\ semantic = {}
  BY DEF ContentInit
<1>2. records \in {{}, Frame(top)} /\ records \subseteq Key /\ unseen = records
  BY <1>1, FrameType DEF ContentInit
<1>3. previous \in {{}, records} /\ previousScope \in {"none", "list"}
  BY DEF ContentInit, ScopeOf
<1>4. CapsAt(top) \subseteq Cap
  BY DEF CapsAt, Cap
<1>5. signature \in (SUBSET Key) \X (Cap \cup {"none"})
  BY <1>2, <1>4 DEF ContentInit
<1>6. /\ stable \in 0..2 /\ noProgress \in 0..NoProgressLimit /\ noFocus \in 0..NoFocusLimit
      /\ scope \in BOOLEAN
  <2>1. /\ stable \in {0, 1} /\ noProgress \in {0, 1} /\ noFocus \in {0, 1}
        /\ scope \in BOOLEAN
    BY DEF ContentInit
  <2> QED BY <2>1
<1>7. aliases \in [DOMAIN aliases -> records]
  <2>1. aliases = [k \in {} |-> NoKey]
    BY DEF ContentInit
  <2>2. [k \in {} |-> NoKey] \in [{} -> records]
    OBVIOUS
  <2> QED BY <1>1, <2>1, <2>2
<1>a. row \in [target : SUBSET Key, scroll : ScrollMade]
  BY DEF ContentInit, NewRow, NoScroll, ScrollMade
<1>b. previousTop \in Top /\ planner = {NoKey} /\ stage = "walk" /\ verdict = "continue" /\ plans = 0
      /\ focusKeys = {} /\ readings = {} /\ attempted = {} /\ tried = {}
  BY <1>1 DEF ContentInit
<1>8. ContentTypeOK
  BY <1>1, <1>2, <1>3, <1>5, <1>6, <1>7, <1>a, <1>b DEF ContentTypeOK
<1>9. AliasesOK /\ RowsStayActive
  BY <1>1 DEF AliasesOK, RowsStayActive
<1>10. LogicalCovered(aliases, {}) = {}
  BY <1>1 DEF LogicalCovered
<1>11. CreditOK
  BY <1>1, <1>2, <1>10 DEF CreditOK, ContentInit
<1>12. FrameOK
  BY <1>2, <1>3 DEF FrameOK, ContentInit
<1> QED BY <1>8, <1>9, <1>11, <1>12 DEF ContentInv

\* A step that leaves the ledger and the verdict alone.
LEMMA LedgerAlone ==
  ASSUME ContentInv, scope' = scope, layout' = layout, UNCHANGED ledger, UNCHANGED verdict,
         focusKeys \subseteq focusKeys', readings \subseteq readings'
  PROVE  AliasesOK' /\ CreditOK' /\ FrameOK' /\ RowsStayActive'
<1>1. AliasesOK' /\ RowsStayActive'
  BY DEF ContentInv, AliasesOK, RowsStayActive, ledger
<1>2. CreditOK'
  BY DEF ContentInv, CreditOK, ledger, Readable
<1>3. FrameOK'
  BY DEF ContentInv, FrameOK, ledger, Frame, KeyAt, Visible
<1> QED BY <1>1, <1>2, <1>3

\* A verdict of completion is reached over an empty ledger only.
LEMMA DecisionOwesNothing ==
  ASSUME NEW pending \in BOOLEAN
  PROVE  /\ Decision(pending)' = "content_completed" => unseen' = {}
         /\ Decision(pending)' \in Verdict \cup {"continue"}
<1>1. /\ ContentDecision' = "content_completed" => unseen' = {}
      /\ ContentDecision' \in Verdict \cup {"continue"}
  BY DEF ContentDecision, Plateau, Verdict
<1> QED BY <1>1 DEF Decision, Verdict

LEMMA WalkKeeps ==
  ASSUME ContentInv, NEW t \in Top, NEW focus \in Singles(Visible(t)),
         NEW read \in Singles(Passive(t)), Walk(t, focus, read)
  PROVE  ContentInv'
<1>1. layout \in Layouts /\ focus \subseteq Visible(t) /\ read \subseteq Visible(t)
  BY DEF ContentInv, ContentTypeOK, Singles, Passive
<1>2. focusKeys' \subseteq Key /\ readings' \subseteq Key
  BY <1>1, FrameType DEF Walk, ContentInv, ContentTypeOK
<1>3. AliasesOK' /\ CreditOK' /\ FrameOK' /\ RowsStayActive'
  BY LedgerAlone DEF Walk
<1>4. ContentTypeOK'
  BY <1>2 DEF Walk, ContentInv, ContentTypeOK, ledger, NewRow, NoScroll, ScrollMade
<1> QED BY <1>3, <1>4 DEF ContentInv

LEMMA PlanKeeps ==
  ASSUME ContentInv, NEW pool \in {{}, {KeyAt(i, top) : i \in Visible(top) \ Passive(top)}},
         Plan(pool)
  PROVE  ContentInv'
<1>1. pool \subseteq Key
  BY FrameType DEF ContentInv, ContentTypeOK
<1>2. AliasesOK' /\ CreditOK' /\ FrameOK' /\ RowsStayActive'
  BY LedgerAlone DEF Plan, walked
<1>3. ContentTypeOK'
  BY <1>1 DEF Plan, ContentInv, ContentTypeOK, ledger, walked
<1> QED BY <1>2, <1>3 DEF ContentInv

LEMMA AttemptTargetKeeps ==
  ASSUME ContentInv, NEW k \in Prioritized, NEW focus \in Singles(Visible(top)),
         AttemptTarget(k, focus)
  PROVE  ContentInv'
<1>1. layout \in Layouts /\ focus \subseteq Visible(top) /\ top \in Top
  BY DEF ContentInv, ContentTypeOK, Singles
<1>2. focusKeys' \subseteq Key
  BY <1>1, FrameType DEF AttemptTarget, ContentInv, ContentTypeOK
<1>3. k \in Key
  BY DEF AttemptTarget, Prioritized, ContentInv, ContentTypeOK
<1>4. AliasesOK' /\ CreditOK' /\ FrameOK' /\ RowsStayActive'
  BY LedgerAlone DEF AttemptTarget
<1>5. ContentTypeOK'
  BY <1>2, <1>3 DEF AttemptTarget, ContentInv, ContentTypeOK, ledger
<1> QED BY <1>4, <1>5 DEF ContentInv

LEMMA FallbackScrollKeeps ==
  ASSUME ContentInv, NEW t \in Top, NEW ok \in BOOLEAN, FallbackScroll(t, ok)
  PROVE  ContentInv'
<1>1. Frame(top) \subseteq Key
  BY FrameType DEF ContentInv, ContentTypeOK
<1>2. row' \in [target : SUBSET Key, scroll : ScrollMade]
  <2> DEFINE made == [ok |-> ok, moved |-> ok /\ Frame(t) # Frame(top), before |-> {Frame(top)}]
  <2>1. made \in ScrollMade
    BY <1>1 DEF ScrollMade
  <2>2. row' = [row EXCEPT !.scroll = made]
    BY DEF FallbackScroll
  <2> HIDE DEF made
  <2> QED BY <2>1, <2>2 DEF ContentInv, ContentTypeOK
<1>3. AliasesOK' /\ CreditOK' /\ FrameOK' /\ RowsStayActive'
  BY LedgerAlone DEF FallbackScroll
<1>4. ContentTypeOK'
  BY <1>2 DEF FallbackScroll, ContentInv, ContentTypeOK, ledger
<1> QED BY <1>3, <1>4 DEF ContentInv

\* Finishing after a frame was observed.
LEMMA FinishKeeps ==
  ASSUME ContentInv, LedgerOK', top' \in Top,
         scope' = scope, layout' = layout, focusKeys' = focusKeys, readings' = readings,
         row' = row, plans' = plans, planner' = planner,
         \/ stage' = "scroll" /\ verdict' = verdict /\ stage # "done"
         \/ \E r \in Verdict \cup {"continue"} :
              Finish(r) /\ (r = "content_completed" => unseen' = {})
  PROVE  ContentInv'
<1>1. /\ stage' \in {"walk", "settle", "planned", "ready", "scroll", "done"}
      /\ verdict' \in Verdict \cup {"continue"} /\ stage' # "planned"
      /\ stage' = "done" <=> verdict' # "continue"
      /\ verdict' = "content_completed" => unseen' = {}
  BY DEF Finish, ContentInv, ContentTypeOK
<1>2. /\ layout' \in Layouts /\ focusKeys' \subseteq Key /\ readings' \subseteq Key
      /\ row' \in [target : SUBSET Key, scroll : ScrollMade]
      /\ plans' \in 0..MaxPlan /\ scope' \in BOOLEAN
      /\ planner' \subseteq Key \/ planner' = {NoKey}
  BY DEF ContentInv, ContentTypeOK
<1>3. ContentTypeOK'
  BY <1>1, <1>2 DEF ContentTypeOK, LedgerOK
<1>4. FrameOK'
  BY <1>1 DEF FrameOK, LedgerOK
<1> QED BY <1>3, <1>4 DEF ContentInv, LedgerOK

LEMMA EvaluateKeeps ==
  ASSUME ContentInv, NEW f \in {{}, Frame(top)}, NEW c \in CapsAt(top),
         NEW pending \in BOOLEAN, NEW error \in BOOLEAN, Evaluate(f, c, pending, error)
  PROVE  ContentInv'
<1>1. top \in Top /\ c \in Cap /\ FALSE \in BOOLEAN
      /\ row.scroll \in ScrollMade
  BY DEF ContentInv, ContentTypeOK, CapsAt, Cap
<1>2. /\ scope' = scope /\ layout' = layout /\ focusKeys' = focusKeys /\ readings' = readings
      /\ row' = row /\ plans' = plans /\ planner' = planner /\ top' \in Top
  BY <1>1 DEF Evaluate, walked
<1>3. LedgerOK'
  <2>1. \E t \in Top : t = top
    BY <1>1
  <2>2. PICK t \in Top : t = top
    BY <2>1
  <2>3. Observe(f, c, t, row.scroll, FALSE) /\ f \in {{}, Frame(t)}
    BY <2>2 DEF Evaluate
  <2>4. \E scroll \in ScrollMade : scroll = row.scroll
    BY <1>1
  <2>5. PICK scroll \in ScrollMade : scroll = row.scroll
    BY <2>4
  <2>6. Observe(f, c, t, scroll, FALSE)
    BY <2>3, <2>5
  <2> QED BY <1>1, <1>2, <2>3, <2>6, ObserveKeeps
<1>4. /\ Decision(pending)' = "content_completed" => unseen' = {}
      /\ Decision(pending)' \in Verdict \cup {"continue"}
  BY DecisionOwesNothing
<1>5. \/ stage' = "scroll" /\ verdict' = verdict /\ stage # "done"
      \/ \E r \in Verdict \cup {"continue"} :
           Finish(r) /\ (r = "content_completed" => unseen' = {})
  <2>1. CASE error
    BY <2>1 DEF Evaluate, Verdict
  <2>2. CASE ~error /\ ~row.scroll.ok
    BY <2>2 DEF Evaluate, Verdict, FailedScrollReason
  <2>3. CASE ~error /\ row.scroll.ok
    BY <1>4, <2>3 DEF Evaluate
  <2> QED BY <2>1, <2>2, <2>3
<1> QED BY <1>2, <1>3, <1>5, FinishKeeps

LEMMA VerifiedScrollKeeps ==
  ASSUME ContentInv, NEW t \in Top, NEW ok \in BOOLEAN, NEW f \in {{}, Frame(t)},
         NEW c \in CapsAt(t), VerifiedScroll(f, c, t, ok)
  PROVE  ContentInv'
<1> DEFINE made == [ok |-> ok, moved |-> ok /\ f # {} /\ f # signature[1],
                    before |-> {signature[1]}]
<1>1. c \in Cap /\ signature[1] \subseteq Key /\ stage = "scroll"
  BY DEF ContentInv, ContentTypeOK, CapsAt, Cap, VerifiedScroll
<1>2. made \in ScrollMade
  BY <1>1 DEF ScrollMade
<1>3. /\ scope' = scope /\ layout' = layout /\ focusKeys' = focusKeys /\ readings' = readings
      /\ row' = row /\ plans' = plans /\ planner' = planner /\ top' \in Top
      /\ Observe(f, c, t, made, TRUE)
  BY DEF VerifiedScroll
<1> HIDE DEF made
<1>4. LedgerOK'
  <2>1. PICK scroll \in ScrollMade : scroll = made
    BY <1>2
  <2>2. Observe(f, c, t, scroll, TRUE)
    BY <1>3, <2>1
  <2> QED BY <1>1, <1>3, <2>2, ObserveKeeps
<1>5. /\ Decision(FALSE)' = "content_completed" => unseen' = {}
      /\ Decision(FALSE)' \in Verdict \cup {"continue"}
  BY DecisionOwesNothing
<1>6. \E r \in Verdict \cup {"continue"} :
        Finish(r) /\ (r = "content_completed" => unseen' = {})
  <2>1. CASE ok
    BY <1>5, <2>1 DEF VerifiedScroll
  <2>2. CASE ~ok
    BY <2>2 DEF VerifiedScroll, Verdict, FailedScrollReason
  <2> QED BY <2>1, <2>2
<1> QED BY <1>3, <1>4, <1>6, FinishKeeps

\* Finishing without a frame.
LEMMA FinishAloneKeeps ==
  ASSUME ContentInv, NEW reason \in Verdict \ {"content_completed"}, Finish(reason),
         UNCHANGED <<layout, scope, walked, row, plans, ledger, planner>>
  PROVE  ContentInv'
<1>1. stage' = "done" /\ verdict' = reason
  BY DEF Finish, Verdict
<1>2. AliasesOK' /\ CreditOK' /\ RowsStayActive'
  BY DEF ContentInv, AliasesOK, CreditOK, RowsStayActive, ledger, walked, Readable
<1>3. FrameOK'
  BY <1>1 DEF ContentInv, FrameOK, ledger, Frame, KeyAt, Visible
<1>4. ContentTypeOK'
  BY <1>1 DEF ContentInv, ContentTypeOK, ledger, walked, Verdict
<1> QED BY <1>2, <1>3, <1>4 DEF ContentInv

LEMMA ContentNextKeeps == ContentInv /\ [ContentNext]_contentVars => ContentInv'
<1> SUFFICES ASSUME ContentInv, [ContentNext]_contentVars PROVE ContentInv'
  OBVIOUS
<1>1. ASSUME NEW t \in Top, NEW focus \in Singles(Visible(t)), NEW read \in Singles(Passive(t)),
             Walk(t, focus, read)
      PROVE  ContentInv'
  BY <1>1, WalkKeeps
<1>2. ASSUME NEW pool \in {{}, {KeyAt(i, top) : i \in Visible(top) \ Passive(top)}}, Plan(pool)
      PROVE  ContentInv'
  BY <1>2, PlanKeeps
<1>3. ASSUME NEW k \in Prioritized, NEW focus \in Singles(Visible(top)), AttemptTarget(k, focus)
      PROVE  ContentInv'
  BY <1>3, AttemptTargetKeeps
<1>4. ASSUME NEW t \in Top, NEW ok \in BOOLEAN, FallbackScroll(t, ok) PROVE ContentInv'
  BY <1>4, FallbackScrollKeeps
<1>5. ASSUME NEW f \in {{}, Frame(top)}, NEW c \in CapsAt(top), NEW pending \in BOOLEAN,
             NEW error \in BOOLEAN, Evaluate(f, c, pending, error)
      PROVE  ContentInv'
  BY <1>5, EvaluateKeeps
<1>6. ASSUME NEW t \in Top, NEW ok \in BOOLEAN, NEW f \in {{}, Frame(t)}, NEW c \in CapsAt(t),
             VerifiedScroll(f, c, t, ok)
      PROVE  ContentInv'
  BY <1>6, VerifiedScrollKeeps
<1>7. CASE EvaluationRaises
  <2>1. "content_error" \in Verdict \ {"content_completed"}
    BY DEF Verdict
  <2> QED BY <1>7, <2>1, FinishAloneKeeps DEF EvaluationRaises
<1>8. CASE StepLimit
  <2>1. "safety_limit" \in Verdict \ {"content_completed"}
    BY DEF Verdict
  <2> QED BY <1>8, <2>1, FinishAloneKeeps DEF StepLimit
<1>9. CASE UNCHANGED contentVars
  <2>1. ContentTypeOK'
    BY <1>9 DEF ContentInv, ContentTypeOK, contentVars, ledger, walked
  <2>2. AliasesOK' /\ CreditOK' /\ FrameOK' /\ RowsStayActive'
    BY <1>9, LedgerAlone DEF contentVars, walked
  <2> QED BY <2>1, <2>2 DEF ContentInv
<1> QED BY <1>1, <1>2, <1>3, <1>4, <1>5, <1>6, <1>7, <1>8, <1>9 DEF ContentNext

-----------------------------------------------------------------------------
(* The theorems.                                                           *)

LEMMA ContentInvHolds == ContentSpec => []ContentInv
BY ContentInitOK, ContentNextKeeps, PTL DEF ContentSpec

\* Every variable keeps its type, and the loop is over exactly when there is
\* a reason.
THEOREM ContentTypesHold == ContentSpec => []ContentTypeOK
<1>1. ContentInv => ContentTypeOK
  BY DEF ContentInv
<1> QED BY <1>1, ContentInvHolds, PTL

\* Aliases never retire all the instances of a row.
THEOREM RowsRemain == ContentSpec => []RowsStayActive
<1>1. ContentInv => RowsStayActive
  BY DEF ContentInv
<1> QED BY <1>1, ContentInvHolds, PTL

\* A traversal that is called completed has reached every row it was shown.
THEOREM CompletionIsSound == ContentSpec => []CompletedMeansReached
<1>1. ContentInv => CompletedMeansReached
  <2> SUFFICES ASSUME ContentInv, verdict = "content_completed", NEW k \in records
               PROVE  Witnessed(k[1])
    BY DEF CompletedMeansReached
  <2> DEFINE w == visited \cup {x \in semantic : Readable(x)}
  <2>1. unseen = {} /\ unseen = (records \ DOMAIN aliases) \ LogicalCovered(aliases, w)
    BY DEF ContentInv, FrameOK, CreditOK
  <2>2. PICK other \in records \ DOMAIN aliases : other[1] = k[1]
    BY DEF ContentInv, RowsStayActive
  <2>3. other \in LogicalCovered(aliases, w)
    BY <2>1
  <2>4. \A x \in DOMAIN aliases : aliases[x][1] = x[1]
    BY DEF ContentInv, AliasesOK
  <2>5. PICK x \in w : x[1] = other[1]
    BY <2>3, <2>4, CoveredLook
  <2>6. x \in focusKeys \/ (x \in readings /\ Readable(x))
    BY <2>5 DEF ContentInv, CreditOK
  <2> QED BY <2>2, <2>5, <2>6 DEF Witnessed, Readable
<1> QED BY <1>1, ContentInvHolds, PTL

-----------------------------------------------------------------------------
(* Aliases join places of one row.                                         *)

Repeated == {i \in Item : \E k \in Item \ {i} : SameLook(i, k)}

\* The looks that occur more than once are finitely many.
LEMMA RepeatedFinite == IsFiniteSet({layout[i] : i \in Repeated})
<1>1. IsFiniteSet(Repeated)
  <2>1. Items \in Int /\ 1 \in Int
    OBVIOUS
  <2>2. IsFiniteSet(1..Items)
    BY <2>1, FS_Interval
  <2>3. Repeated \in SUBSET (1..Items)
    BY DEF Repeated, Item
  <2> QED BY <2>2, <2>3, FS_Subset
<1> DEFINE looks == {layout[i] : i \in Repeated}
           look == [i \in Repeated |-> layout[i]]
<1>2. look \in Surjection(Repeated, looks)
  BY DEF Surjection
<1> HIDE DEF look, looks
<1>3. IsFiniteSet(looks)
  BY <1>1, <1>2, FS_Surjection
<1> QED BY <1>3 DEF looks

\* Of a cohort that has moved by another distance than the list, every pair
\* joins two rows that look the same.
LEMMA StrayLook ==
  ASSUME layout \in Layouts, NEW s \in Top, NEW t \in Top,
         NEW p \in Moves(Frame(s), Frame(t)), NEW q \in Moves(Frame(s), Frame(t)),
         Shift(q) = Shift(p), ItemAt(p[1], s) # ItemAt(p[2], t)
  PROVE  q[1][1] \in {layout[i] : i \in Repeated}
<1>1. s \in Int /\ t \in Int
  BY DEF Top
<1>2. PICK i \in Visible(s) : q[1] = KeyAt(i, s)
  BY DEF Moves, Frame
<1>3. PICK j \in Visible(t) : q[2] = KeyAt(j, t)
  BY DEF Moves, Frame
<1>4. PICK m \in Visible(s) : p[1] = KeyAt(m, s)
  BY DEF Moves, Frame
<1>5. PICK n \in Visible(t) : p[2] = KeyAt(n, t)
  BY DEF Moves, Frame
<1>6. i \in Item /\ j \in Item /\ m \in Item /\ n \in Item
  BY FrameType
<1>7. (j - t) - (i - s) = (n - t) - (m - s)
  BY <1>2, <1>3, <1>4, <1>5 DEF Shift, KeyAt
<1>8. m # n
  <2>1. p[1][2] = m - s /\ p[2][2] = n - t
    BY <1>4, <1>5 DEF KeyAt
  <2>2. s + (m - s) # t + (n - t)
    BY <2>1 DEF ItemAt
  <2> QED BY <1>1, <1>6, <2>2 DEF Item
<1>9. i # j
  BY <1>1, <1>6, <1>7, <1>8 DEF Item
<1>10. layout[i] = layout[j] /\ q[1][1] = layout[i]
  BY <1>2, <1>3 DEF Moves, KeyAt
<1> QED BY <1>6, <1>9, <1>10 DEF Repeated, SameLook

\* So with fewer repeated looks than a cohort has rows, the pairs of a
\* cohort join the places of one row.
LEMMA CohortSound ==
  ASSUME layout \in Layouts, FewRepeats, NEW s \in Top, NEW t \in Top,
         NEW p \in RelocationCohort(Frame(s), Frame(t))
  PROVE  ItemAt(p[1], s) = ItemAt(p[2], t)
<1> DEFINE moves == Moves(Frame(s), Frame(t))
           along == {q \in moves : Shift(q) = Shift(p)}
           looks == {layout[i] : i \in Repeated}
           look == [q \in along |-> q[1][1]]
<1>1. p \in moves /\ Cardinality(along) >= MinCohort
  BY DEF RelocationCohort
<1> SUFFICES ASSUME ItemAt(p[1], s) # ItemAt(p[2], t) PROVE FALSE
  OBVIOUS
<1>2. \A q \in along : q[1][1] \in looks
  BY <1>1, StrayLook
<1>3. ASSUME NEW q \in along, NEW r \in along, q[1][1] = r[1][1] PROVE q = r
  <2>1. q[1] = r[1]
    BY <1>3 DEF Moves, Unique
  <2>2. q[2] = r[2]
    BY <1>3 DEF Moves, Unique
  <2>3. q = <<q[1], q[2]>> /\ r = <<r[1], r[2]>>
    BY DEF Moves
  <2> QED BY <2>1, <2>2, <2>3
<1>4. look \in Injection(along, looks)
  BY <1>2, <1>3 DEF Injection, IsInjective
<1>5. IsFiniteSet(looks)
  BY RepeatedFinite
<1>6. looks = {layout[i] : i \in {j \in Item : \E k \in Item \ {j} : SameLook(j, k)}}
  BY DEF Repeated
<1>7. Cardinality(looks) < MinCohort
  BY <1>6 DEF FewRepeats
<1> HIDE DEF along, looks, look
<1>8. IsFiniteSet(along) /\ Cardinality(along) <= Cardinality(looks)
  BY <1>4, <1>5, FS_Injection
<1>9. Cardinality(along) \in Nat /\ Cardinality(looks) \in Nat
  BY <1>5, <1>8, FS_CardinalityType
<1> QED BY <1>1, <1>7, <1>8, <1>9

\* The aliases that one observation adds.
LEMMA LifecycleSound ==
  ASSUME ContentInv, FewRepeats, NEW t \in Top, NEW f \in {{}, Frame(t)}, NEW c,
         ObserveLifecycle(f, c, t), NEW k \in DOMAIN aliases'
  PROVE  \/ k \in DOMAIN aliases /\ aliases'[k] = aliases[k]
         \/ ItemAt(k, previousTop) = ItemAt(aliases'[k], previousTop')
<1>1. /\ layout \in Layouts /\ previousTop \in Top
      /\ previous \in {{}, Frame(previousTop)}
  BY DEF ContentInv, ContentTypeOK, FrameOK
<1>2. CASE ~(scope /\ f # {})
  BY <1>2 DEF ObserveLifecycle
<1>3. CASE scope /\ f # {}
  <2> DEFINE pairs == IF previous # {} /\ previousScope = ScopeOf(c) /\ c # "unknown"
                      THEN RelocationCohort(previous, f) ELSE {}
             kept == DOMAIN aliases \ f
             moved == {p[1] : p \in pairs}
             chosen(x) == CHOOSE p \in pairs : p[1] = x
  <2>1. /\ aliases' = [x \in kept \cup moved |->
                         IF x \in moved THEN chosen(x)[2] ELSE aliases[x]]
        /\ previousTop' = t
    BY <1>3 DEF ObserveLifecycle
  <2>2. CASE k \notin moved
    BY <2>1, <2>2
  <2>3. CASE k \in moved
    <3>1. \E p \in pairs : p[1] = k
      BY <2>3
    <3>2. chosen(k) \in pairs /\ chosen(k)[1] = k
      BY <3>1
    <3>3. aliases'[k] = chosen(k)[2]
      BY <2>1, <2>3
    <3>4. chosen(k) \in RelocationCohort(Frame(previousTop), Frame(t))
      BY <1>1, <1>3, <3>2
    <3> HIDE DEF chosen, pairs
    <3>5. \E s \in Top : s = previousTop
      BY <1>1
    <3>6. PICK s \in Top : s = previousTop
      BY <3>5
    <3>7. PICK p \in RelocationCohort(Frame(s), Frame(t)) : p = chosen(k)
      BY <3>4, <3>6
    <3>8. ItemAt(p[1], s) = ItemAt(p[2], t)
      BY <1>1, CohortSound
    <3> QED BY <2>1, <3>2, <3>3, <3>6, <3>7, <3>8
  <2> QED BY <2>2, <2>3
<1> QED BY <1>2, <1>3

\* The claim about one step.
AliasStepSound ==
  \A k \in DOMAIN aliases' :
    \/ k \in DOMAIN aliases /\ aliases'[k] = aliases[k]
    \/ ItemAt(k, previousTop) = ItemAt(aliases'[k], previousTop')

LEMMA ContentStepSound ==
  ASSUME ContentInv, FewRepeats, ContentNext
  PROVE  AliasStepSound
<1>1. CASE aliases' = aliases
  BY <1>1 DEF AliasStepSound
<1>2. ASSUME NEW f \in {{}, Frame(top)}, NEW c \in CapsAt(top), NEW pending \in BOOLEAN,
             NEW error \in BOOLEAN, Evaluate(f, c, pending, error)
      PROVE  AliasStepSound
  <2>1. \E t \in Top : t = top
    BY DEF ContentInv, ContentTypeOK
  <2>2. PICK t \in Top : t = top
    BY <2>1
  <2>3. ObserveLifecycle(f, c, t) /\ f \in {{}, Frame(t)}
    BY <1>2, <2>2 DEF Evaluate, Observe
  <2> QED BY <2>3, LifecycleSound DEF AliasStepSound
<1>3. ASSUME NEW t \in Top, NEW ok \in BOOLEAN, NEW f \in {{}, Frame(t)}, NEW c \in CapsAt(t),
             VerifiedScroll(f, c, t, ok)
      PROVE  AliasStepSound
  <2>1. ObserveLifecycle(f, c, t)
    BY <1>3 DEF VerifiedScroll, Observe
  <2> QED BY <2>1, LifecycleSound DEF AliasStepSound
<1>4. \/ aliases' = aliases
      \/ \E f \in {{}, Frame(top)}, c \in CapsAt(top), pending, error \in BOOLEAN :
           Evaluate(f, c, pending, error)
      \/ \E t \in Top, ok \in BOOLEAN : \E f \in {{}, Frame(t)}, c \in CapsAt(t) :
           VerifiedScroll(f, c, t, ok)
  BY DEF ContentNext, Walk, Plan, AttemptTarget, FallbackScroll, EvaluationRaises,
         StepLimit, ledger
<1> QED BY <1>1, <1>2, <1>3, <1>4

\* An alias joins two places of one row, as long as fewer looks than a
\* cohort has rows are repeated in the list.
THEOREM AliasesAreSound == ContentSpec => AliasSound
<1>1. ContentInv /\ [ContentNext]_contentVars =>
        [FewRepeats =>
           \A k \in DOMAIN aliases' :
             \/ k \in DOMAIN aliases /\ aliases'[k] = aliases[k]
             \/ ItemAt(k, previousTop) = ItemAt(aliases'[k], previousTop')]_contentVars
  BY ContentStepSound DEF AliasStepSound
<1> QED BY <1>1, ContentInvHolds, PTL DEF ContentSpec, AliasSound

=============================================================================
