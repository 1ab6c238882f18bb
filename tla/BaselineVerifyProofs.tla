------------------------- MODULE BaselineVerifyProofs -------------------------
(***************************************************************************)
(* Proofs about what `verify` reports of a BaselineRepository: that links  *)
(* to superseding baselines go forward, and that a repository without      *)
(* faults is consistent whenever nobody writes to it.                      *)
(***************************************************************************)
EXTENDS BaselineRepositoryProofs

-----------------------------------------------------------------------------
(* Supersession links.                                                     *)

\* A link of an event leads to a later revision of its key, or to itself.
Forward(e) ==
  e.rel # None =>
    /\ e.type = "APPROVED" => e.id.key = e.rel.key /\ e.id.rev > e.rel.rev
    /\ e.type = "SUPERSEDED" => /\ e.rel.key = e.id.key
                                /\ e.rel.rev > e.id.rev \/ e.rel = e.id

\* What an approval will link is behind it.
Ahead(p) ==
  (Approving(p) \/ pc[p] = "superseded") /\ req[p].rel # None =>
    /\ req[p].rel.key = work[p].id.key
    /\ work[p].id.rev > req[p].rel.rev

ForwardInv ==
  /\ \A i \in 1..Len(log) : Forward(log[i])
  /\ \A p \in Proc : Ahead(p)

\* The next revision is above that of the baseline to be replaced.
LEMMA AcceptedAhead ==
  ASSUME IInv, NEW p \in Proc, ApproveAccepted(p)
  PROVE  Ahead(p)'
<1> DEFINE k == KeyOf[req[p].cand]
           s == req[p].rel
           b == [key |-> k, rev |-> NextRevision(k)]
<1>1. packages \subseteq Package /\ RevisionsBounded
  BY DEF IInv, TypeOK
<1>2. req' = req /\ work'[p].id = b /\ (s # None => s \in Active(b.key))
  BY AcceptedChecks
<1>3. \A r \in Revisions(k) : r < NextRevision(k)
  BY <1>1, NextRevisionType
<1>4. NextRevision(k) \in Nat /\ Revisions(k) \subseteq Nat
  BY <1>1, NextRevisionType DEF Revisions, Package, BaselineId
<1>5. s # None => s.key = k /\ s.rev \in Revisions(k)
  BY <1>2 DEF Active, Revisions
<1> HIDE DEF k
<1>6. s # None => s.key = b.key /\ b.rev > s.rev
  BY <1>3, <1>4, <1>5
<1> QED BY <1>2, <1>6 DEF Ahead

\* An approval keeps what it will link behind it.
LEMMA AheadStep ==
  ASSUME IInv, ForwardInv, NEW p \in Proc, StepOf(p), NEW q \in Proc
  PROVE  Ahead(q)'
<1>1. TypeOK /\ work[p] \in Work /\ p \in DOMAIN work /\ p \in DOMAIN pc /\ Ahead(p) /\ Ahead(q)
  BY DEF IInv, TypeOK, ForwardInv
<1>2. CASE q # p
  BY <1>1, <1>2, OthersKeep DEF Ahead, Approving
<1>3. ASSUME q = p, Approving(p)'
      PROVE  Ahead(p)'
  <2>1. CASE ApproveAccepted(p)
    BY <2>1, AcceptedAhead
  <2>2. CASE \/ \E a \in Artifact : PinArtifact(p, a) \/ SkipOptional(p, a) \/ AppendPinned(p, a)
             \/ StagePackage(p) \/ PublishPackage(p) \/ AppendValidated(p)
    <3>1. Approving(p) /\ req' = req /\ work'[p].id = work[p].id
      BY <1>1, <2>2 DEF PinArtifact, SkipOptional, AppendPinned, StagePackage, PublishPackage,
         AppendValidated, Approving, Goto, Work, files
    <3> QED BY <1>1, <3>1 DEF Ahead
  <2> QED BY <1>3, <2>1, <2>2, ApprovingShape
<1>4. ASSUME q = p, pc'[p] = "superseded"
      PROVE  Ahead(p)'
  <2>1. AppendApproved(p)
    BY <1>4, SupersededShape
  <2>2. Approving(p) /\ req' = req /\ work' = work
    BY <2>1 DEF AppendApproved, Goto, Approving
  <2> QED BY <1>1, <2>2 DEF Ahead
<1> QED BY <1>2, <1>3, <1>4 DEF Ahead

\* Every event that is appended links forward.
LEMMA LinkStep ==
  ASSUME IInv, ForwardInv, NEW p \in Proc, StepOf(p)
  PROVE  \/ UNCHANGED log
         \/ \E e \in Event : log' = Append(log, e) /\ Forward(e)
<1> USE DEF files
<1>1. /\ TypeOK /\ RequestOK /\ req[p] \in Request /\ work[p] \in Work
      /\ log \in Seq(Event) /\ Ahead(p)
  BY DEF IInv, TypeOK, ForwardInv
<1>0. /\ {req[p].id, req[p].rel, work[p].id} \subseteq BaselineId \cup {None}
      /\ req[p].cand \in Cand \cup {None}
      /\ {"REJECTED", "ARCHIVED", "SUPERSEDED"} \subseteq EventType
  BY <1>1 DEF EventType, Request, Work
<1>2. CASE \/ AskSome(p) \/ AcquireLock(p) \/ LockTimeout(p) \/ ReadTornLog(p) \/ Unlock(p)
           \/ Rebuild(p) \/ ReadSnapshot(p) \/ WriteCatalog(p) \/ WriteIndex(p)
           \/ Crash(p) \/ RaiseError(p) \/ LockWriteFails(p)
  BY <1>1, <1>2, AskShape DEF Ask, AcquireLock, LockTimeout, ReadTornLog, Unlock, Rebuild,
    ReadSnapshot, WriteCatalog, WriteIndex, Crash, RaiseError, LockWriteFails
<1>3. CASE Reject(p) \/ Archive(p)
  <2> DEFINE r == EventOf("REJECTED", None, req[p].cand, None)
             a == EventOf("ARCHIVED", req[p].id, req[p].cand, None)
  <2>1. r \in Event /\ r.rel = None
    BY <1>0 DEF EventOf, Event
  <2>2. a \in Event /\ a.rel = None
    BY <1>0 DEF EventOf, Event
  <2>3. log' = log \/ log' = Append(log, r) \/ log' = Append(log, a)
    BY <1>3 DEF Reject, Archive, Record, Append1
  <2> HIDE DEF r, a
  <2> QED BY <2>1, <2>2, <2>3 DEF Forward
<1>4. CASE Supersede(p)
  <2> DEFINE b == req[p].id
             s == req[p].rel
             e == EventOf("SUPERSEDED", b, None, s)
  <2>1. e \in Event /\ e.type = "SUPERSEDED" /\ e.id = b /\ e.rel = s
    BY <1>0 DEF EventOf, Event
  <2>2. \/ UNCHANGED log
        \/ /\ log' = Append(log, e) /\ HasPackage(b) /\ HasPackage(s) /\ b.key = s.key
           /\ InState(log, b, "APPROVED") /\ InState(log, s, "APPROVED")
    BY <1>4 DEF Supersede, Record, Append1
  <2> HIDE DEF e, b, s
  <2>3. ASSUME HasPackage(b), HasPackage(s), b.key = s.key,
               InState(log, b, "APPROVED"), InState(log, s, "APPROVED")
        PROVE  b = s
    BY <2>3 DEF IInv, OneActivePerKey, HasPackage
  <2> QED BY <2>1, <2>2, <2>3 DEF Forward
<1>5. CASE \/ ApproveInvalid(p) \/ PinFailed(p) \/ PrivacyFailed(p) \/ AppendValidated(p)
           \/ \E a \in Artifact : AppendPinned(p, a)
  BY <1>1, <1>5, NeutralStep DEF Neutral, Forward
<1>6. CASE \/ ApproveRefused(p) \/ ApproveAccepted(p) \/ StagePackage(p) \/ PublishPackage(p)
           \/ \E a \in Artifact : PinArtifact(p, a) \/ SkipOptional(p, a)
  BY <1>6 DEF ApproveRefused, ApproveAccepted, StagePackage, PublishPackage, PinArtifact,
    SkipOptional
<1>7. CASE AppendApproved(p)
  <2>1. PICK e \in Event : /\ log' = Append(log, e)
                           /\ e.type = "APPROVED" /\ e.id = work[p].id /\ e.rel = req[p].rel
    BY <1>7, AtApproved
  <2>2. Approving(p)
    BY <1>7 DEF AppendApproved, Goto, Approving
  <2> QED BY <1>1, <2>1, <2>2 DEF Forward, Ahead
<1>8. CASE AppendSuperseded(p)
  <2> DEFINE e == EventOf("SUPERSEDED", req[p].rel, req[p].cand, work[p].id)
  <2>1. e \in Event /\ e.type = "SUPERSEDED" /\ e.id = req[p].rel /\ e.rel = work[p].id
    BY <1>0 DEF EventOf, Event
  <2>2. log' = Append(log, e) /\ pc[p] = "superseded"
    BY <1>8 DEF AppendSuperseded, Append1, Goto
  <2>3. req[p].rel \in BaselineId /\ req[p].rel # None
    BY <2>2, RepositoryAssumption DEF IInv, ReplacementInProgress
  <2> HIDE DEF e
  <2> QED BY <1>1, <2>1, <2>2, <2>3 DEF Forward, Ahead
<1> QED BY <1>2, <1>3, <1>4, <1>5, <1>6, <1>7, <1>8 DEF StepOf, Step, Approve

LEMMA ForwardInvStep ==
  ASSUME IInv, ForwardInv, [Next]_vars
  PROVE  ForwardInv'
<1>1. log \in Seq(Event)
  BY DEF IInv, TypeOK
<1>2. ASSUME NEW p \in Proc, StepOf(p)
      PROVE  ForwardInv'
  <2>1. \A q \in Proc : Ahead(q)'
    BY <1>2, AheadStep
  <2>2. ASSUME NEW e \in Event, log' = Append(log, e), Forward(e)
        PROVE  \A i \in 1..Len(log') : Forward(log'[i])
    <3>1. /\ Len(log') = Len(log) + 1 /\ Len(log) \in Nat
          /\ log'[Len(log) + 1] = e
          /\ \A i \in 1..Len(log) : log'[i] = log[i]
      BY <1>1, <2>2
    <3>2. \A i \in 1..Len(log') : i \in 1..Len(log) \/ i = Len(log) + 1
      BY <3>1
    <3> QED BY <2>2, <3>1, <3>2 DEF ForwardInv
  <2>3. \A i \in 1..Len(log') : Forward(log'[i])
    BY <1>2, <2>2, LinkStep DEF ForwardInv
  <2> QED BY <2>1, <2>3 DEF ForwardInv, Forward
<1>3. ASSUME RemoveStaleLock \/ UNCHANGED vars
      PROVE  ForwardInv'
  <2>1. UNCHANGED <<log, pc, req, work>>
    BY <1>3 DEF RemoveStaleLock, vars, files
  <2> QED BY <2>1 DEF ForwardInv, Forward, Ahead, Approving
<1> QED BY <1>2, <1>3 DEF Next, StepOf

\* Every superseded_by link leads to a later revision of the same key, except
\* that of a baseline named as its own replacement, for any number of revisions
\* (supersede, approve; lifecycle_relation_cycle in verify).
THEOREM SupersessionGoesForwardHolds == Spec => []SupersessionGoesForward
<1>1. Init => ForwardInv
  BY DEF Init, ForwardInv, Ahead, Approving
<1>2. IInv /\ ForwardInv /\ [Next]_vars => ForwardInv'
  BY ForwardInvStep
<1>3. ASSUME IInv, ForwardInv
      PROVE  SupersessionGoesForward
  <2> SUFFICES ASSUME NEW q \in packages, NEW r \in packages, SupersededBy(log, q.id, r.id)
               PROVE  r.id.key = q.id.key /\ (r.id.rev > q.id.rev \/ r.id = q.id)
    BY DEF SupersessionGoesForward
  <2>1. PICK i \in 1..Len(log) :
          /\ Links(log[i], q.id)
          /\ r.id = (IF log[i].type = "APPROVED" THEN log[i].id ELSE log[i].rel)
    BY DEF SupersededBy
  <2>2. Forward(log[i])
    BY <1>3 DEF ForwardInv
  <2> QED BY <2>1, <2>2 DEF Links, Forward
<1> QED BY <1>1, <1>2, <1>3, InductiveInvariant, PTL DEF Spec

-----------------------------------------------------------------------------
(* Consistency without faults.                                             *)

\* The places from which a writer has yet to bring the catalog up to date.
Pending == {"pinned", "superseded", "rebuild", "catalog"}

\* The catalog has seen every event but validation failures.
Seen ==
  /\ catalog # None => catalog.active = AllActive
  /\ \A i \in 1..Len(log) :
       (catalog # None => i > catalog.count) => log[i].type = "VALIDATION_FAILED"

\* A package whose candidate is not approved is just being approved.
InApproval(c) == \E p \in Proc : pc[p] \in {"validated", "pinned"} /\ req[p].cand = c

Steady ==
  /\ ~torn
  /\ staged = 0
  /\ \A q \in packages : AlreadyApproved(q.cand) \/ InApproval(q.cand)
  /\ Seen \/ \E p \in Proc : pc[p] \in Pending

SteadyInv == faults = 0 => Steady

\* A step after which there is no fault is none, and was taken without one.
LEMMA CalmStep ==
  ASSUME IInv, NEW p \in Proc, StepOf(p), faults' = 0
  PROVE  faults = 0 /\ (AskSome(p) \/ Step(p)) /\ UNCHANGED <<torn, staged>>
<1> USE DEF files, Begin
<1>0. faults \in Nat /\ TypeOK
  BY DEF IInv, TypeOK
<1>1. CASE AskSome(p)
  BY <1>0, <1>1, AskShape DEF Ask
<1>2. CASE Approve(p)
  BY <1>2 DEF Approve, ApproveInvalid, ApproveRefused, ApproveAccepted, PinArtifact,
    SkipOptional, PinFailed, PrivacyFailed, StagePackage, PublishPackage,
    AppendValidated, AppendPinned, AppendApproved, AppendSuperseded, Step
<1>3. CASE Reject(p) \/ Supersede(p) \/ Archive(p)
  BY <1>3 DEF Reject, Supersede, Archive, Record, Step
<1>4. CASE AcquireLock(p) \/ LockTimeout(p) \/ ReadTornLog(p) \/ Unlock(p) \/ Rebuild(p)
           \/ ReadSnapshot(p) \/ WriteCatalog(p) \/ WriteIndex(p)
  BY <1>4 DEF AcquireLock, LockTimeout, ReadTornLog, Unlock, Rebuild, ReadSnapshot,
    WriteCatalog, WriteIndex, Step
<1>5. ~(Crash(p) \/ RaiseError(p) \/ LockWriteFails(p))
  BY <1>0 DEF Crash, RaiseError, LockWriteFails
<1> QED BY <1>1, <1>2, <1>3, <1>4, <1>5 DEF StepOf, Step

\* What an event or a package changes of the active baselines.
LEMMA ActiveKeeps ==
  ASSUME IInv, NEW p \in Proc, StepOf(p),
         \/ UNCHANGED <<log, packages>>
         \/ PublishPackage(p)
         \/ UNCHANGED packages /\ \E e \in Event : log' = Append(log, e) /\ e.type \in Neutral
  PROVE  AllActive' = AllActive
<1>0. TypeOK /\ log \in Seq(Event)
  BY DEF IInv, TypeOK
<1>1. CASE UNCHANGED <<log, packages>>
  BY <1>1 DEF AllActive, InState
<1>2. CASE PublishPackage(p)
  <2>1. PICK q \in Package : packages' = packages \cup {q} /\ NoEventAffects(q.id) /\ log' = log
    BY <1>2, AtPublish
  <2>2. ~InState(log, q.id, "APPROVED")
    BY <2>1, StateHasEvent DEF NoEventAffects
  <2>3. \A x : InState(log, x, "APPROVED")' <=> InState(log, x, "APPROVED")
    BY <2>1 DEF InState
  <2> QED BY <2>1, <2>2, <2>3 DEF AllActive
<1>3. ASSUME NEW e \in Event, UNCHANGED packages, log' = Append(log, e), e.type \in Neutral
      PROVE  AllActive' = AllActive
  <2>1. \A x : InState(log, x, "APPROVED")' <=> InState(log, x, "APPROVED")
    BY <1>0, <1>3, NeutralKeeps
  <2> QED BY <1>3, <2>1 DEF AllActive
<1> QED BY <1>1, <1>2, <1>3

\* Whoever is pending brings the catalog up to date, and nobody else appends
\* anything but a validation failure (rebuild_indexes after every append).
LEMMA PendingShape ==
  ASSUME IInv, NEW p \in Proc, AskSome(p) \/ Step(p), pc'[p] \notin Pending
  PROVE  \/ WriteCatalog(p)
         \/ /\ pc[p] \notin Pending
            /\ catalog' = catalog
            /\ \/ UNCHANGED <<log, packages>>
               \/ PublishPackage(p)
               \/ /\ UNCHANGED packages
                  /\ \E e \in Event : log' = Append(log, e) /\ e.type = "VALIDATION_FAILED"
<1> USE DEF files, Begin, Goto, Pending
<1>0. /\ TypeOK /\ p \in DOMAIN pc /\ packages \subseteq Package /\ OneActivePerKey
      /\ req[p] \in Request
  BY DEF IInv, TypeOK
<1>1. CASE AskSome(p)
  BY <1>0, <1>1, AskShape DEF Ask
<1>2. CASE Approve(p)
  <2>1. ~(ApproveInvalid(p) \/ PinFailed(p) \/ AppendValidated(p) \/ AppendApproved(p)
          \/ AppendSuperseded(p) \/ \E a \in Artifact : AppendPinned(p, a))
    BY <1>0 DEF ApproveInvalid, PinFailed, AppendValidated, AppendApproved, AppendSuperseded,
      AppendPinned
  <2>2. CASE ApproveRefused(p) \/ ApproveAccepted(p) \/ StagePackage(p)
             \/ \E a \in Artifact : PinArtifact(p, a) \/ SkipOptional(p, a)
    BY <2>2 DEF ApproveRefused, ApproveAccepted, StagePackage, PinArtifact, SkipOptional
  <2>3. CASE PublishPackage(p)
    BY <2>3 DEF PublishPackage
  <2>4. CASE PrivacyFailed(p)
    <3> DEFINE e == EventOf("VALIDATION_FAILED", None, req[p].cand, None)
    <3>1. e \in Event /\ e.type = "VALIDATION_FAILED"
      BY <1>0 DEF EventOf, Event, EventType, Request
    <3>2. log' = Append(log, e)
      BY <2>4 DEF PrivacyFailed, Append1
    <3> HIDE DEF e
    <3> QED BY <2>4, <3>1, <3>2 DEF PrivacyFailed
  <2> QED BY <1>2, <2>1, <2>2, <2>3, <2>4 DEF Approve
<1>3. CASE Reject(p) \/ Supersede(p) \/ Archive(p)
  BY <1>0, <1>3 DEF Reject, Supersede, Archive, Record
<1>4. ~(Rebuild(p) \/ ReadSnapshot(p))
  <2>1. \A b1, b2 \in AllActive : b1.key = b2.key => b1 = b2
    BY <1>0 DEF OneActivePerKey, AllActive
  <2> QED BY <1>0, <2>1 DEF Rebuild, ReadSnapshot
<1>5. CASE AcquireLock(p) \/ LockTimeout(p) \/ ReadTornLog(p) \/ Unlock(p) \/ WriteIndex(p)
  BY <1>0, <1>5 DEF AcquireLock, LockTimeout, ReadTornLog, Unlock, WriteIndex
<1> QED BY <1>1, <1>2, <1>3, <1>4, <1>5 DEF Step

\* Unless somebody is pending, the catalog has seen all that matters.
LEMMA SeenStep ==
  ASSUME IInv, CatalogInv, Steady, NEW p \in Proc, StepOf(p), AskSome(p) \/ Step(p)
  PROVE  Seen' \/ \E q \in Proc : pc'[q] \in Pending
<1> SUFFICES ASSUME \A q \in Proc : pc'[q] \notin Pending PROVE Seen'
  OBVIOUS
<1>0. TypeOK /\ log \in Seq(Event) /\ pc \in [Proc -> PC] /\ catalog \in Snapshot \cup {None}
  BY DEF IInv, TypeOK
<1>1. CASE WriteCatalog(p)
  <2>1. /\ catalog' = [count |-> Len(log), active |-> AllActive]
        /\ UNCHANGED <<log, packages>>
    BY <1>1 DEF WriteCatalog, Goto, CatalogInv, SnapshotIsFresh
  <2>2. AllActive' = AllActive
    BY <1>1, <2>1, ActiveKeeps
  <2>3. Len(log) \in Nat /\ \A i \in 1..Len(log') : ~(i > Len(log))
    BY <1>0, <2>1
  <2>4. AllActive \subseteq BaselineId
    BY <1>0 DEF AllActive, TypeOK, Package
  <2>5. catalog' # None
    BY <2>1, <2>3, <2>4, RepositoryAssumption DEF Snapshot
  <2> QED BY <2>1, <2>2, <2>3, <2>5 DEF Seen
<1>2. CASE ~WriteCatalog(p)
  <2>1. /\ pc[p] \notin Pending
        /\ catalog' = catalog
        /\ \/ UNCHANGED <<log, packages>>
           \/ PublishPackage(p)
           \/ /\ UNCHANGED packages
              /\ \E e \in Event : log' = Append(log, e) /\ e.type = "VALIDATION_FAILED"
    BY <1>2, PendingShape
  <2>2. \A q \in Proc : pc[q] \notin Pending
    BY <1>0, <2>1, OthersKeep
  <2>3. Seen
    BY <2>2 DEF Steady
  <2>4. AllActive' = AllActive
    BY <2>1, ActiveKeeps DEF Neutral
  <2>5. PublishPackage(p) => log' = log
    BY DEF PublishPackage
  <2>6. CASE log' = log
    BY <2>1, <2>3, <2>4, <2>6 DEF Seen
  <2>7. ASSUME NEW e \in Event, log' = Append(log, e), e.type = "VALIDATION_FAILED"
        PROVE  Seen'
    <3>1. /\ Len(log') = Len(log) + 1 /\ Len(log) \in Nat
          /\ log'[Len(log) + 1] = e
          /\ \A i \in 1..Len(log) : log'[i] = log[i]
      BY <1>0, <2>7
    <3>2. \A i \in 1..Len(log') : i \in 1..Len(log) \/ i = Len(log) + 1
      BY <3>1
    <3> QED BY <2>1, <2>3, <2>4, <2>7, <3>1, <3>2 DEF Seen
  <2> QED BY <2>1, <2>5, <2>6, <2>7
<1> QED BY <1>1, <1>2

\* An approval in progress ends in its APPROVED event.
LEMMA ApprovalEnds ==
  ASSUME IInv, NEW p \in Proc, AskSome(p) \/ Step(p), pc[p] \in {"validated", "pinned"}
  PROVE  /\ req'[p].cand = req[p].cand /\ UNCHANGED packages
         /\ pc'[p] \in {"validated", "pinned"} \/ AppendApproved(p)
<1> USE DEF files, Begin, Goto
<1>0. TypeOK /\ p \in DOMAIN pc
  BY DEF IInv, TypeOK
<1>1. ~AskSome(p)
  BY <1>0, AskShape DEF Ask
<1>2. ~(AcquireLock(p) \/ LockTimeout(p) \/ ReadTornLog(p) \/ Unlock(p) \/ Rebuild(p)
        \/ ReadSnapshot(p) \/ WriteCatalog(p) \/ WriteIndex(p))
  BY <1>0 DEF AcquireLock, LockTimeout, ReadTornLog, Unlock, Rebuild, ReadSnapshot,
    WriteCatalog, WriteIndex
<1>3. ~(Reject(p) \/ Supersede(p) \/ Archive(p))
  BY <1>0 DEF Reject, Supersede, Archive, Record
<1>4. Approve(p)
  BY <1>1, <1>2, <1>3 DEF Step
<1>5. AppendValidated(p) \/ AppendApproved(p) \/ \E a \in Artifact : AppendPinned(p, a)
  BY <1>0, <1>4 DEF Approve, ApproveInvalid, ApproveRefused, ApproveAccepted, PinArtifact,
    SkipOptional, PinFailed, PrivacyFailed, StagePackage, PublishPackage, AppendSuperseded
<1> QED BY <1>0, <1>5 DEF AppendValidated, AppendApproved, AppendPinned

\* No package is left without its approval.
LEMMA ApprovedStep ==
  ASSUME IInv, Steady, NEW p \in Proc, StepOf(p), AskSome(p) \/ Step(p),
         NEW q \in packages'
  PROVE  AlreadyApproved(q.cand)' \/ InApproval(q.cand)'
<1>0. TypeOK /\ log \in Seq(Event) /\ pc \in [Proc -> PC]
  BY DEF IInv, TypeOK
<1>1. ASSUME NEW e \in Event, log' = Append(log, e)
      PROVE  /\ \A c : AlreadyApproved(c) => AlreadyApproved(c)'
             /\ e.type = "APPROVED" => AlreadyApproved(e.cand)'
  <2>1. /\ Len(log') = Len(log) + 1 /\ Len(log) \in Nat
        /\ log'[Len(log) + 1] = e
        /\ \A i \in 1..Len(log) : log'[i] = log[i]
    BY <1>0, <1>1
  <2>2. Len(log) + 1 \in 1..Len(log') /\ \A i \in 1..Len(log) : i \in 1..Len(log')
    BY <2>1
  <2> QED BY <2>1, <2>2 DEF AlreadyApproved
<1>2. \A c : AlreadyApproved(c) => AlreadyApproved(c)'
  <2>1. log' = log \/ \E e \in Event : log' = Append(log, e)
    BY FilesStep, AtApproved DEF PublishPackage
  <2> QED BY <1>1, <2>1 DEF AlreadyApproved
<1>3. ASSUME q \in packages, ~AlreadyApproved(q.cand)
      PROVE  AlreadyApproved(q.cand)' \/ InApproval(q.cand)'
  <2>1. PICK r \in Proc : pc[r] \in {"validated", "pinned"} /\ req[r].cand = q.cand
    BY <1>3 DEF Steady, InApproval
  <2>2. CASE r # p
    BY <1>0, <2>1, <2>2, OthersKeep DEF InApproval
  <2>3. CASE r = p /\ AppendApproved(p)
    <3>1. PICK e \in Event, s \in packages :
            /\ log' = Append(log, e) /\ e.type = "APPROVED" /\ e.id = work[p].id
            /\ s.id = e.id /\ s.cand = e.cand
      BY <2>3, AtApproved
    <3>2. [id |-> work[p].id, cand |-> req[p].cand, refs |-> work[p].refs] \in packages
      BY <2>1, <2>3 DEF IInv, ApprovalInProgress, Approving
    <3>3. s.cand = req[p].cand
      BY <3>1, <3>2 DEF IInv, PackagesDistinct
    <3> QED BY <1>1, <2>1, <2>3, <3>1, <3>3
  <2>4. CASE r = p /\ ~AppendApproved(p)
    BY <2>1, <2>4, ApprovalEnds DEF InApproval
  <2> QED BY <2>2, <2>3, <2>4
<1>4. ASSUME q \notin packages
      PROVE  InApproval(q.cand)'
  <2>1. PublishPackage(p)
    BY <1>4, FilesStep, AtApproved
  <2>2. pc'[p] = "validated" /\ req' = req /\ q.cand = req[p].cand
    BY <1>0, <1>4, <2>1 DEF PublishPackage, Goto
  <2> QED BY <2>2 DEF InApproval
<1> QED BY <1>2, <1>3, <1>4

LEMMA SteadyStep ==
  ASSUME IInv, CatalogInv, SteadyInv, [Next]_vars
  PROVE  SteadyInv'
<1> SUFFICES ASSUME faults' = 0 PROVE Steady'
  BY DEF SteadyInv
<1>1. ASSUME NEW p \in Proc, StepOf(p)
      PROVE  Steady'
  <2>1. faults = 0 /\ (AskSome(p) \/ Step(p)) /\ UNCHANGED <<torn, staged>>
    BY <1>1, CalmStep
  <2>2. Steady
    BY <2>1 DEF SteadyInv
  <2>3. Seen' \/ \E q \in Proc : pc'[q] \in Pending
    BY <1>1, <2>1, <2>2, SeenStep
  <2>4. \A q \in packages' : AlreadyApproved(q.cand)' \/ InApproval(q.cand)'
    BY <1>1, <2>1, <2>2, ApprovedStep
  <2> QED BY <2>1, <2>2, <2>3, <2>4 DEF Steady
<1>2. ASSUME RemoveStaleLock \/ UNCHANGED vars
      PROVE  Steady'
  <2>1. UNCHANGED <<files, pc, req, faults>>
    BY <1>2 DEF RemoveStaleLock, vars
  <2>2. Steady
    BY <2>1 DEF SteadyInv
  <2> QED BY <2>1, <2>2 DEF files, Steady, Seen, AlreadyApproved, InApproval, AllActive, InState
<1> QED BY <1>1, <1>2 DEF Next, StepOf

\* Without faults, and with the lock free, the repository has no orphan,
\* abandoned directory or incomplete line, and the catalog lists the active
\* baselines, for any number of operators (verify).
THEOREM QuiescentConsistentHolds == Spec => []QuiescentConsistent
<1>1. Init => CatalogInv /\ SteadyInv
  BY DEF Init, CatalogInv, SnapshotIsFresh, CatalogSeen, SteadyInv, Steady, Seen
<1>2. IInv /\ CatalogInv /\ SteadyInv /\ [Next]_vars => CatalogInv' /\ SteadyInv'
  BY CatalogInvStep, SteadyStep
<1>3. ASSUME IInv, SteadyInv
      PROVE  QuiescentConsistent
  <2> SUFFICES ASSUME lock = None, faults = 0 PROVE QuiescentConsistent
    BY DEF QuiescentConsistent
  <2>1. \A p \in Proc : pc[p] \notin Holding
    BY <1>3, RepositoryAssumption DEF IInv, MutualExclusion
  <2>2. Steady
    BY <1>3 DEF SteadyInv
  <2> QED BY <2>1, <2>2 DEF Steady, Seen, InApproval, Holding, Pending, QuiescentConsistent
<1> QED BY <1>1, <1>2, <1>3, InductiveInvariant, PTL DEF Spec

===============================================================================
