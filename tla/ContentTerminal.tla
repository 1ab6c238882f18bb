------------------------- MODULE ContentTerminal -------------------------
(***************************************************************************)
(* When may the traversal of a bottom-tab screen stop?                     *)
(*                                                                         *)
(* ContentTerminal keeps a ledger of what it has seen on a scrolling list: *)
(* an instance is a resource id at a place of the screen, so that the same *)
(* row is another instance after the list has moved.  CandidateLifecycle   *)
(* joins the two by an alias when enough rows have moved together.  After  *)
(* every step of the main loop _apply_content_terminal_phase feeds the     *)
(* ledger with a fresh frame and the focus evidence and decides whether    *)
(* the content is completed, stalled, unverified or in error.              *)
(*                                                                         *)
(* The screen is a list of Items rows of equal height, Rows of them at a   *)
(* time; what identifies a row apart from its place (resource id, label,   *)
(* class) is its look.  Rows that share a resource id but not a label are  *)
(* left out: their instances differ by place only.                         *)
(***************************************************************************)
EXTENDS Naturals, Integers, FiniteSets

CONSTANTS
  Items,           \* number of rows of the list
  Rows,            \* number of rows on the screen
  Looks,           \* what a row looks like
  Layouts,         \* the lists considered: functions from rows to looks
  Actionable,      \* looks that are focusable or clickable
  OddCaps,         \* faults of the capability: "unknown", "contradictory"
  MinCohort,       \* rows that must have moved together (3 in the code)
  NoProgressLimit, \* steps without any progress (4 in the code)
  NoFocusLimit,    \* steps without progress of the focus (8 in the code)
  MaxPlan,         \* bound: steps in which the main loop plans a target
  NoKey            \* an absent value

ASSUME ListAssumption ==
  /\ Items \in Nat \ {0}
  /\ Rows \in 1..Items
  /\ Layouts \subseteq [1..Items -> Looks]
  /\ OddCaps \subseteq {"unknown", "contradictory"}
  /\ NoKey \notin Looks \X (1..Rows)

ASSUME LimitAssumption ==
  /\ MinCohort \in Nat \ {0}
  /\ NoProgressLimit \in Nat \ {0}
  /\ NoFocusLimit \in Nat
  /\ NoProgressLimit <= NoFocusLimit
  /\ MaxPlan \in Nat

Item == 1..Items
Key == Looks \X (1..Rows)
Top == 0..(Items - Rows)
Cap == {"forward", "end", "unknown", "contradictory"}
Verdict == {"content_completed", "content_no_progress", "content_dynamic_unsettled",
            "content_scroll_unverified", "content_scope_unverified",
            "content_error", "runtime_error", "safety_limit"}

VARIABLES
  \* the device
  layout,         \* the list shown
  top,            \* how far it is scrolled
  \* the evidence that the main loop collects
  focusKeys,      \* reliability_metrics.focus_observations
  readings,       \* semantically covered ids of the focusable inventory
  row,            \* the current row: its target and its scroll
  plans,          \* steps with a plan so far
  \* the ledger
  scope,          \* scope_verified
  records, visited, semantic,
  signature,      \* of the last frame and its capability
  stable,         \* stable_observations, up to 2
  noProgress,     \* no_progress_steps, up to its limit
  noFocus,        \* no_focus_progress_steps, up to its limit
  attempted,      \* scroll_attempted_viewports
  tried,          \* target_attempted_ids
  planner,        \* planner_candidate_ids
  unseen,         \* latest.unseen_candidate_ids
  \* its lifecycle of candidates
  previous, previousScope, aliases,
  previousTop,    \* where the list was when "previous" was taken
  \* the main loop
  stage,          \* where in the step it is
  verdict         \* why it stopped

walked == <<top, focusKeys, readings>>
ledger == <<records, visited, semantic, signature, stable, noProgress,
            noFocus, attempted, tried, unseen, previous, previousScope,
            aliases, previousTop>>
contentVars == <<layout, scope, walked, row, plans, ledger, planner,
                 stage, verdict>>

-----------------------------------------------------------------------------
(* Frames, and what becomes of an instance when the list moves.            *)

\* The rows on the screen, and their instances, when the list is at t.
Visible(t) == (t + 1)..(t + Rows)
KeyAt(i, t) == <<layout[i], i - t>>
Frame(t) == {KeyAt(i, t) : i \in Visible(t)}
ItemAt(k, t) == t + k[2]

\* Rows that can only be read.
Passive(t) == {i \in Visible(t) : layout[i] \notin Actionable}

\* What the container says of itself when the list is at t.
CapsAt(t) == OddCaps \cup {IF t < Items - Rows THEN "forward" ELSE "end"}

\* The container of a capability: the unknown one has none.
ScopeOf(c) == IF c = "unknown" THEN "none" ELSE "list"

\* The look of k is that of one instance of frame f only.
Unique(k, f) == \A other \in f : other[1] = k[1] => other = k

\* Pairs of instances that may be the same row before and after.
Moves(before, after) ==
  {p \in (before \ after) \X (after \ before) :
     p[1][1] = p[2][1] /\ Unique(p[1], before) /\ Unique(p[2], after)}

Shift(p) == p[2][2] - p[1][2]

\* Mutant: it is not checked that the rows moved together.
RelocationLoose(before, after) == Moves(before, after)

\* The pairs that agree with each other: MinCohort of them, and 60 percent.
RelocationCohort(before, after) ==
  LET moves == Moves(before, after)
      Along(p) == {q \in moves : Shift(q) = Shift(p)}
  IN {p \in moves : /\ Cardinality(Along(p)) >= MinCohort
                    /\ 5 * Cardinality(Along(p)) >= 3 * Cardinality(moves)}

\* Instances covered by the witnessed ones, along the aliases.  (The code
\* keeps the ends of the chains only: what lies within is no longer active.)
LogicalCovered(al, witnessed) ==
  LET ends == {al[k] : k \in DOMAIN al}
      closed == {s \in SUBSET ends : \A k \in DOMAIN al : k \in witnessed \cup s => al[k] \in s}
  IN witnessed \cup {k \in ends : \A s \in closed : k \in s}

Readable(k) == k[1] \notin Actionable

-----------------------------------------------------------------------------
(* The ledger's observe: frame f with capability c, the list being at t.   *)

\* Mutant: instances that come back on the screen keep their alias.
ObserveLifecycleStale(f, c, t) ==
  /\ IF scope /\ f # {}
     THEN LET pairs == IF previous # {} /\ previousScope = ScopeOf(c) /\ c # "unknown"
                       THEN RelocationCohort(previous, f) ELSE {}
              moved == {p[1] : p \in pairs}
          IN /\ aliases' = [k \in DOMAIN aliases \cup moved |->
                              IF k \in moved
                              THEN (CHOOSE p \in pairs : p[1] = k)[2]
                              ELSE aliases[k]]
             /\ previous' = f
             /\ previousScope' = ScopeOf(c)
     ELSE /\ previous' = {}
          /\ previousScope' = "none"
          /\ UNCHANGED aliases
  /\ previousTop' = t

ObserveLifecycle(f, c, t) ==
  /\ IF scope /\ f # {}
     THEN LET pairs == IF previous # {} /\ previousScope = ScopeOf(c) /\ c # "unknown"
                       THEN RelocationCohort(previous, f) ELSE {}
              kept == DOMAIN aliases \ f
              moved == {p[1] : p \in pairs}
          IN /\ aliases' = [k \in kept \cup moved |->
                              IF k \in moved
                              THEN (CHOOSE p \in pairs : p[1] = k)[2]
                              ELSE aliases[k]]
             /\ previous' = f
             /\ previousScope' = ScopeOf(c)
     ELSE /\ previous' = {}
          /\ previousScope' = "none"
          /\ UNCHANGED aliases
  /\ previousTop' = t

AtMost(n, limit) == IF n < limit THEN n ELSE limit

\* scroll is the scroll made since the last frame; again tells a second
\* frame of the same step.
Observe(f, c, t, scroll, again) ==
  /\ records' = records \cup f
  /\ visited' = visited \cup focusKeys
  /\ semantic' = semantic \cup (readings \cap records')
  /\ signature' = <<f, c>>
  /\ stable' = IF signature' = signature THEN 2 ELSE 1
  /\ LET focused == \/ (visited' \ visited) \cap records' # {}
                    \/ semantic' # semantic
                    \/ scroll.moved
         progress == focused \/ records' # records
     IN IF again
        THEN /\ noProgress' = IF progress THEN 0 ELSE noProgress
             /\ noFocus' = IF progress THEN 0 ELSE noFocus
        ELSE /\ noProgress' = IF progress THEN 0 ELSE AtMost(noProgress + 1, NoProgressLimit)
             /\ noFocus' = IF focused THEN 0 ELSE AtMost(noFocus + 1, NoFocusLimit)
  /\ attempted' = attempted \cup scroll.before
  /\ ObserveLifecycle(f, c, t)
  /\ unseen' = (records' \ DOMAIN aliases') \
                 LogicalCovered(aliases', visited' \cup {k \in semantic' : Readable(k)})
  /\ tried' = tried \cup row.target

-----------------------------------------------------------------------------
(* What the ledger decides of its last frame.                              *)

Unattempted == LET left == unseen \ tried
               IN IF planner = {NoKey} THEN left ELSE left \cap planner

\* target_attempt_contract_active, or a planner that has reported.
MustAttempt == (planner # {NoKey} \/ tried # {}) /\ Unattempted # {}

ScrollOpportunity(pending) ==
  /\ scope /\ ~pending
  /\ stable = 2 /\ signature[2] = "forward"
  /\ signature[1] # {} /\ signature[1] \notin attempted
  /\ \/ unseen = {}
     \/ noProgress >= NoProgressLimit
     \/ noFocus >= NoFocusLimit

Plateau ==
  IF stable = 2 /\ noProgress >= NoProgressLimit THEN "content_no_progress"
  ELSE IF noFocus >= NoFocusLimit THEN "content_dynamic_unsettled"
  ELSE "continue"

\* Mutant: completion without a look at what is still unseen.
ContentDecisionUnlooked ==
  IF MustAttempt THEN "continue"
  ELSE IF signature[2] = "forward" /\ signature[1] \in attempted /\ stable = 2
  THEN "content_scroll_unverified"
  ELSE IF signature[2] = "end" /\ stable = 2 THEN "content_completed"
  ELSE Plateau

\* The end of decision: the frame is valid, in scope and has a known end.
ContentDecision ==
  IF MustAttempt THEN "continue"
  ELSE IF signature[2] = "forward" /\ signature[1] \in attempted /\ stable = 2
  THEN "content_scroll_unverified"
  ELSE IF unseen = {} /\ signature[2] = "end" /\ stable = 2 THEN "content_completed"
  ELSE Plateau

Decision(pending) ==
  IF signature[1] = {} THEN "content_error"
  ELSE IF pending
  THEN IF noFocus >= NoFocusLimit THEN "content_no_progress" ELSE "continue"
  ELSE IF ~scope
  THEN IF noFocus >= NoProgressLimit THEN "content_scope_unverified" ELSE "continue"
  ELSE IF signature[2] \in {"unknown", "contradictory"}
  THEN IF (stable = 2 /\ unseen = {}) \/ noFocus >= NoProgressLimit
       THEN "content_scroll_unverified" ELSE "continue"
  ELSE IF ScrollOpportunity(pending) THEN "continue"
  ELSE ContentDecision

FailedScrollReason == {"content_error", "content_scroll_unverified"}

-----------------------------------------------------------------------------
(* The main loop: a step walks, plans and evaluates.                       *)

\* A verified scroll: the frame it began with is a set of at most one.
ScrollMade == [ok : BOOLEAN, moved : BOOLEAN, before : SUBSET SUBSET Key]
NoScroll == [ok |-> TRUE, moved |-> FALSE, before |-> {}]
NewRow == [target |-> {}, scroll |-> NoScroll]

\* _initialize_content_terminal: the ledger observes the first frame, which
\* may be empty; or the hierarchy could not be read, and there is none.
ContentInit ==
  /\ layout \in Layouts /\ top \in Top
  /\ focusKeys = {} /\ readings = {}
  /\ row = NewRow /\ plans = 0
  /\ visited = {} /\ semantic = {} /\ attempted = {} /\ tried = {}
  /\ planner = {NoKey}
  /\ aliases = [k \in {} |-> NoKey]
  /\ previousTop = top
  /\ stage = "walk" /\ verdict = "continue"
  /\ \/ /\ scope = FALSE
        /\ records = {} /\ unseen = {}
        /\ signature = <<{}, "none">> /\ stable = 0 /\ noProgress = 0 /\ noFocus = 0
        /\ previous = {} /\ previousScope = "none"
     \/ /\ scope \in BOOLEAN
        /\ records \in {{}, Frame(top)} /\ unseen = records
        /\ \E c \in CapsAt(top) :
             /\ signature = <<records, c>>
             /\ previous = (IF scope THEN records ELSE {})
             /\ previousScope = (IF scope /\ records # {} THEN ScopeOf(c) ELSE "none")
        /\ stable = 1 /\ noFocus = 1
        /\ noProgress = (IF records = {} THEN 1 ELSE 0)

\* One step of SMART_NEXT: the focus goes to a row, and may take the list
\* along, or is not confirmed; what is read may cover another row.  (A row
\* with progress_status PROGRESS is on an instance new to the run, which the
\* frame of the evaluation holds: it is progress of the focus as well.)
Walk(t, focus, read) ==
  /\ stage = "walk"
  /\ t # top => focus # {}
  /\ top' = t
  /\ focusKeys' = focusKeys \cup {KeyAt(i, t) : i \in focus}
  /\ readings' = readings \cup {KeyAt(i, t) : i \in read}
  /\ row' = NewRow
  /\ stage' = "settle"
  /\ UNCHANGED <<layout, scope, plans, ledger, planner, verdict>>

\* _record_content_terminal_planner_inventory
Plan(pool) ==
  /\ stage = "settle"
  /\ plans < MaxPlan
  /\ plans' = plans + 1
  /\ planner' = pool
  /\ stage' = "planned"
  /\ UNCHANGED <<layout, scope, walked, row, ledger, verdict>>

\* Candidates of the planner that the ledger still lacks come first.
Prioritized ==
  LET eligible == (unseen \ (tried \cup visited \cup semantic \cup DOMAIN aliases))
                    \cap planner
  IN IF eligible # {} THEN eligible ELSE planner

\* A focus request for the representative; wherever the focus goes, the
\* attempt is on the row for the ledger.
AttemptTarget(k, focus) ==
  /\ stage = "planned"
  /\ k \in Prioritized
  /\ row' = [row EXCEPT !.target = {k}]
  /\ focusKeys' = focusKeys \cup {KeyAt(i, top) : i \in focus}
  /\ stage' = "ready"
  /\ UNCHANGED <<layout, scope, top, readings, plans, ledger, planner, verdict>>

\* The planner found nothing to select and scrolls.
FallbackScroll(t, ok) ==
  /\ stage = "planned"
  /\ top' = t
  /\ row' = [row EXCEPT !.scroll = [ok |-> ok, moved |-> ok /\ Frame(t) # Frame(top),
                                   before |-> {Frame(top)}]]
  /\ stage' = "ready"
  /\ UNCHANGED <<layout, scope, focusKeys, readings, plans, ledger, planner, verdict>>

\* Mutant: the verdict is recorded, and the loop goes on.
FinishOpen(reason) ==
  /\ verdict' = reason
  /\ stage' = "walk"

Finish(reason) ==
  /\ verdict' = reason
  /\ stage' = IF reason = "continue" THEN "walk" ELSE "done"

\* _apply_content_terminal_phase up to the scroll.  A reason of the main
\* loop itself is dropped, unless it is an error of the run; pending tells of
\* a transition that the planner has begun.
Evaluate(f, c, pending, error) ==
  /\ stage \in {"settle", "planned", "ready"}
  /\ pending => stage # "settle"
  /\ UNCHANGED <<layout, scope, walked, row, plans, planner>>
  /\ Observe(f, c, top, row.scroll, FALSE)
  /\ IF error THEN Finish("runtime_error")
     ELSE IF ~row.scroll.ok THEN \E r \in FailedScrollReason : Finish(r)
     ELSE IF ScrollOpportunity(pending)' /\ Decision(pending)' = "continue"
     THEN stage' = "scroll" /\ UNCHANGED verdict
     ELSE Finish(Decision(pending)')

\* ... and the verified scroll, whose frame is observed in the same step.
VerifiedScroll(f, c, t, ok) ==
  /\ stage = "scroll"
  /\ top' = t
  /\ UNCHANGED <<layout, scope, focusKeys, readings, row, plans, planner>>
  /\ Observe(f, c, t, [ok |-> ok, moved |-> ok /\ f # {} /\ f # signature[1],
                       before |-> {signature[1]}], TRUE)
  /\ IF ok THEN Finish(Decision(FALSE)')
     ELSE \E r \in FailedScrollReason : Finish(r)

\* Anything that raises within the phase.
EvaluationRaises ==
  /\ stage \in {"settle", "planned", "ready", "scroll"}
  /\ Finish("content_error")
  /\ UNCHANGED <<layout, scope, walked, row, plans, ledger, planner>>

\* max_steps of the scenario.
StepLimit ==
  /\ stage = "walk"
  /\ Finish("safety_limit")
  /\ UNCHANGED <<layout, scope, walked, row, plans, ledger, planner>>

Singles(s) == {{}} \cup {{x} : x \in s}

ContentNext ==
  \/ \E t \in Top : \E focus \in Singles(Visible(t)), read \in Singles(Passive(t)) :
       Walk(t, focus, read)
  \/ \E pool \in {{}, {KeyAt(i, top) : i \in Visible(top) \ Passive(top)}} : Plan(pool)
  \/ \E k \in Prioritized, focus \in Singles(Visible(top)) : AttemptTarget(k, focus)
  \/ \E t \in Top, ok \in BOOLEAN : t >= top /\ FallbackScroll(t, ok)
  \/ \E f \in {{}, Frame(top)}, c \in CapsAt(top), pending, error \in BOOLEAN :
       (f # {} \/ ~(pending \/ error)) /\ Evaluate(f, c, pending, error)
  \/ \E t \in Top, ok \in BOOLEAN : \E f \in {{}, Frame(t)}, c \in CapsAt(t) :
       t >= top /\ VerifiedScroll(f, c, t, ok)
  \/ EvaluationRaises
  \/ StepLimit

ContentSpec == ContentInit /\ [][ContentNext]_contentVars

-----------------------------------------------------------------------------
(* What must hold.                                                         *)

\* Every variable has its type; the loop is over exactly when there is a
\* reason, and nothing is owed for an instance that is aliased or witnessed.
ContentTypeOK ==
  /\ layout \in Layouts /\ top \in Top /\ previousTop \in Top
  /\ focusKeys \subseteq Key /\ readings \subseteq Key
  /\ records \subseteq Key /\ visited \subseteq focusKeys /\ semantic \subseteq records
  /\ row \in [target : SUBSET Key, scroll : ScrollMade]
  /\ plans \in 0..MaxPlan
  /\ scope \in BOOLEAN
  /\ signature \in (SUBSET Key) \X (Cap \cup {"none"})
  /\ stable \in 0..2
  /\ noProgress \in 0..NoProgressLimit /\ noFocus \in 0..NoFocusLimit
  /\ attempted \subseteq SUBSET Key /\ tried \subseteq Key
  /\ planner \subseteq Key \/ (planner = {NoKey} /\ stage # "planned")
  /\ previous \subseteq records /\ previousScope \in {"none", "list"}
  /\ DOMAIN aliases \subseteq records
  /\ aliases \in [DOMAIN aliases -> records]
  /\ unseen \subseteq records \ (DOMAIN aliases \cup visited)
  /\ stage \in {"walk", "settle", "planned", "ready", "scroll", "done"}
  /\ verdict \in Verdict \cup {"continue"}
  /\ stage = "done" <=> verdict # "continue"

SameLook(i, j) == layout[i] = layout[j]

\* A look has been witnessed once the focus was on a row that has it, or a
\* reading covered one and it cannot be acted on.
Witnessed(look) ==
  \/ \E k \in focusKeys : k[1] = look
  \/ look \notin Actionable /\ \E k \in readings : k[1] = look

\* content_completed is said only when every row that a frame of the ledger
\* has held is witnessed, or one that looks the same: no row is lost on the
\* way through its instances and their aliases.
CompletedMeansReached ==
  verdict = "content_completed" => \A k \in records : Witnessed(k[1])

\* Aliases never retire all the instances of a row: one of its looks stays
\* active, to be covered or owed.
RowsStayActive ==
  \A k \in records : \E other \in records \ DOMAIN aliases : other[1] = k[1]

\* Fewer looks occur more than once than the rows of a cohort.
FewRepeats ==
  Cardinality({layout[i] : i \in {j \in Item : \E k \in Item \ {j} : SameLook(j, k)}})
    < MinCohort

\* An alias joins two places of one row, also when the list holds rows that
\* look the same, as long as fewer than a cohort of them do.
AliasSound ==
  [][FewRepeats =>
       \A k \in DOMAIN aliases' :
         \/ k \in DOMAIN aliases /\ aliases'[k] = aliases[k]
         \/ ItemAt(k, previousTop) = ItemAt(aliases'[k], previousTop')]_contentVars

-----------------------------------------------------------------------------
(* The invariant behind them.                                              *)

\* Aliases keep the look, lead to recorded instances and are never those of
\* the rows in the last frame; without a verified scope there are none.
AliasesOK ==
  /\ \A k \in DOMAIN aliases : aliases[k][1] = k[1]
  /\ previous \cap DOMAIN aliases = {}
  /\ ~scope => DOMAIN aliases = {}

\* The ledger credits what the main loop has seen and nothing else.
CreditOK ==
  /\ visited \subseteq focusKeys /\ semantic \subseteq readings
  /\ unseen = (records \ DOMAIN aliases) \
               LogicalCovered(aliases, visited \cup {k \in semantic : Readable(k)})

\* The last frame is one of the list, and a completed ledger owes nothing.
FrameOK ==
  /\ previous \in {{}, Frame(previousTop)}
  /\ verdict = "content_completed" => unseen = {}

ContentInv == ContentTypeOK /\ AliasesOK /\ CreditOK /\ FrameOK /\ RowsStayActive

=============================================================================
