----------------------- MODULE BaselineRepositoryProofs -----------------------
(***************************************************************************)
(* Proofs about BaselineRepository for every set of processes, candidates, *)
(* keys and artifacts, and every bound.                                    *)
(***************************************************************************)
EXTENDS BaselineRefinement, WellFoundedInduction, TLAPS

-----------------------------------------------------------------------------
(* Lemmas about numbers and about the reduction of the log.                *)

\* A nonempty set of naturals has a least element.
LEMMA LeastNatural ==
  ASSUME NEW T, T \subseteq Nat, T # {}
  PROVE  \E x \in T : \A y \in T : x <= y
<1>1. PICK x \in T : \A y \in T : ~(<<y, x>> \in OpToRel(<, Nat))
  BY WFMin, NatLessThanWellFounded, Zenon
<1>2. \A y \in T : ~(y < x)
  BY <1>1, Zenon DEF OpToRel
<1>3. \A y \in T : x <= y
  BY <1>2
<1> QED BY <1>3

\* The next revision of a key is a number above those on disk (_next_revision).
LEMMA NextRevisionType ==
  ASSUME NEW k, packages \subseteq Package, RevisionsBounded
  PROVE  NextRevision(k) \in Nat /\ \A r \in Revisions(k) : r < NextRevision(k)
<1> DEFINE R == Revisions(k)
           T == {n \in Nat : \A r \in R : r <= n}
<1>1. R \subseteq Nat
  BY DEF Revisions, Package, BaselineId
<1>2. T # {} /\ T \subseteq Nat
  BY DEF RevisionsBounded, Revisions
<1>3. PICK m \in T : \A y \in T : m <= y
  BY <1>2, LeastNatural
<1>4. m \in R \cup {0}
  <2> SUFFICES ASSUME m \notin R, m # 0 PROVE FALSE
    OBVIOUS
  <2>1. m - 1 \in Nat /\ \A r \in R : r <= m - 1
    BY <1>1, <1>3
  <2>2. m - 1 \in T
    BY <2>1
  <2> QED BY <1>3, <2>2
<1>5. \E n \in R \cup {0} : \A r \in R : r <= n
  BY <1>3, <1>4
<1>6. MaxRevision(k) \in R \cup {0} /\ \A r \in R : r <= MaxRevision(k)
  BY <1>5 DEF MaxRevision
<1> QED BY <1>1, <1>6 DEF NextRevision

\* Appending one event changes the reduced state of what it affects and of
\* nothing else (_reduce_states).
LEMMA ReduceAppend ==
  ASSUME NEW l \in Seq(Event), NEW e \in Event, NEW x, NEW s
  PROVE  InState(Append(l, e), x, s) <=>
           \/ Affects(e, x) /\ Effect(e, x) = s
           \/ ~Affects(e, x) /\ InState(l, x, s)
<1> DEFINE m == Append(l, e)
           n == Len(l)
<1>1. /\ n \in Nat /\ Len(m) = n + 1
      /\ m[n + 1] = e
      /\ \A i \in 1..n : m[i] = l[i]
  OBVIOUS
<1> HIDE DEF m, n
<1>2. CASE Affects(e, x)
  <2>1. ASSUME InState(m, x, s) PROVE Effect(e, x) = s
    <3>1. PICK i \in 1..Len(m) : /\ Affects(m[i], x) /\ Effect(m[i], x) = s
                                 /\ \A j \in (i+1)..Len(m) : ~Affects(m[j], x)
      BY <2>1 DEF InState
    <3>2. i = n + 1
      BY <1>1, <1>2, <3>1
    <3> QED BY <1>1, <3>1, <3>2
  <2>2. ASSUME Effect(e, x) = s PROVE InState(m, x, s)
    <3>1. n + 1 \in 1..Len(m) /\ \A j \in (n+1+1)..Len(m) : FALSE
      BY <1>1
    <3> QED BY <1>1, <1>2, <2>2, <3>1 DEF InState
  <2> QED BY <1>2, <2>1, <2>2 DEF m
<1>3. CASE ~Affects(e, x)
  <2>1. ASSUME InState(m, x, s) PROVE InState(l, x, s)
    <3>1. PICK i \in 1..Len(m) : /\ Affects(m[i], x) /\ Effect(m[i], x) = s
                                 /\ \A j \in (i+1)..Len(m) : ~Affects(m[j], x)
      BY <2>1 DEF InState
    <3>2. i \in 1..n
      BY <1>1, <1>3, <3>1
    <3>3. \A j \in (i+1)..n : ~Affects(l[j], x)
      BY <1>1, <3>1, <3>2
    <3>4. Affects(l[i], x) /\ Effect(l[i], x) = s
      BY <1>1, <3>1, <3>2
    <3> QED BY <3>2, <3>3, <3>4 DEF InState, n
  <2>2. ASSUME InState(l, x, s) PROVE InState(m, x, s)
    <3>1. PICK i \in 1..n : /\ Affects(l[i], x) /\ Effect(l[i], x) = s
                            /\ \A j \in (i+1)..n : ~Affects(l[j], x)
      BY <2>2 DEF InState, n
    <3>2. i \in 1..Len(m) /\ Affects(m[i], x) /\ Effect(m[i], x) = s
      BY <1>1, <3>1
    <3>3. ASSUME NEW j \in (i+1)..Len(m) PROVE ~Affects(m[j], x)
      <4>1. j \in (i+1)..n \/ j = n + 1
        BY <1>1
      <4> QED BY <1>1, <1>3, <3>1, <4>1
    <3> QED BY <3>2, <3>3 DEF InState
  <2> QED BY <1>3, <2>1, <2>2 DEF m
<1> QED BY <1>2, <1>3

\* No identifier is in two states.
LEMMA StateUnique ==
  ASSUME NEW l \in Seq(Event), NEW x, NEW s, NEW t,
         InState(l, x, s), InState(l, x, t)
  PROVE  s = t
<1>1. PICK i \in 1..Len(l) : /\ Affects(l[i], x) /\ Effect(l[i], x) = s
                             /\ \A j \in (i+1)..Len(l) : ~Affects(l[j], x)
  BY DEF InState
<1>2. PICK k \in 1..Len(l) : /\ Affects(l[k], x) /\ Effect(l[k], x) = t
                             /\ \A j \in (k+1)..Len(l) : ~Affects(l[j], x)
  BY DEF InState
<1>3. i = k
  <2>1. ~(i < k) /\ ~(k < i)
    BY <1>1, <1>2
  <2> QED BY <2>1
<1> QED BY <1>1, <1>2, <1>3

\* An identifier in some state is affected by some event of the log.
LEMMA StateHasEvent ==
  ASSUME NEW l, NEW x, NEW s, InState(l, x, s)
  PROVE  \E i \in 1..Len(l) : Affects(l[i], x)
BY DEF InState

-----------------------------------------------------------------------------
(* The inductive invariant.                                                *)

\* The events and requests of the specification have their types.
LEMMA EventType1 ==
  ASSUME NEW t \in EventType, NEW b \in BaselineId \cup {None},
         NEW c \in Cand \cup {None}, NEW r \in BaselineId \cup {None}
  PROVE  /\ EventOf(t, b, c, r) \in Event
         /\ EventOf(t, b, c, r).type = t
         /\ EventOf(t, b, c, r).id = b
         /\ EventOf(t, b, c, r).cand = c
         /\ EventOf(t, b, c, r).rel = r
BY DEF EventOf, Event

\* The initial values of a process's request and locals have their types.
LEMMA InitialTypes == NoRequest \in Request /\ NoWork \in Work /\ NoWork.todo = {}
BY DEF NoRequest, Request, NoWork, Work

\* The program starts in the inductive invariant.
LEMMA InitInvariant == Init => IInv
<1> SUFFICES ASSUME Init PROVE IInv
  OBVIOUS
<1> USE RepositoryAssumption DEF Init
<1>1. TypeOK
  <2>1. log \in Seq(Event)
    OBVIOUS
  <2>2. req \in [Proc -> Request] /\ work \in [Proc -> Work]
    BY InitialTypes
  <2>3. pc \in [Proc -> PC]
    BY DEF PC
  <2> QED BY <2>1, <2>2, <2>3 DEF TypeOK
<1>2. MutualExclusion /\ ApprovalInProgress /\ PinningInProgress /\ ReplacementInProgress
  BY DEF MutualExclusion, ApprovalInProgress, PinningInProgress, ReplacementInProgress,
         Approving, Holding
<1>3. RequestOK
  BY DEF RequestOK, Complete, Approving, NoRequest
<1>4. LogIsBacked /\ RevisionsBounded /\ OneActivePerKey /\ ApprovalIsBacked /\ PackagesDistinct
  BY DEF LogIsBacked, RevisionsBounded, OneActivePerKey, ApprovalIsBacked, PackagesDistinct
<1> QED BY <1>1, <1>2, <1>3, <1>4 DEF IInv

\* The types are preserved: the part of the induction that needs a next
\* revision to exist.
LEMMA TypeStep ==
  ASSUME IInv, [Next]_vars
  PROVE  TypeOK'
<1> USE RepositoryAssumption DEF TypeOK, files, Goto, Append1, Begin
<1>0. TypeOK /\ RequestOK /\ ApprovalInProgress /\ ReplacementInProgress
  BY DEF IInv
<1>a. AllActive \subseteq BaselineId /\ KnownId \subseteq BaselineId
  BY <1>0 DEF AllActive, KnownId, Package
<1>b. ASSUME NEW p \in Proc PROVE req[p] \in Request /\ work[p] \in Work
  BY <1>0
<1>1. ASSUME NEW p \in Proc, AskSome(p) PROVE TypeOK'
  <2>1. \E r \in Request : Ask(p, r)
    BY <1>1, <1>a DEF AskSome, Request
  <2> QED BY <1>0, <2>1 DEF Ask, PC
<1>2. ASSUME NEW p \in Proc, AcquireLock(p) \/ LockTimeout(p) \/ ReadTornLog(p) \/ Unlock(p)
      PROVE  TypeOK'
  BY <1>0, <1>2, InitialTypes DEF AcquireLock, LockTimeout, ReadTornLog, Unlock, PC
<1>3. ASSUME NEW p \in Proc, Approve(p) PROVE TypeOK'
  <2>1. CASE ApproveInvalid(p) \/ PinFailed(p) \/ PrivacyFailed(p)
    <3>1. EventOf("VALIDATION_FAILED", None, req[p].cand, None) \in Event
      BY <1>b, EventType1 DEF EventType, Request
    <3>2. log' \in Seq(Event)
      <4>1. log' = Append(log, EventOf("VALIDATION_FAILED", None, req[p].cand, None))
        BY <2>1 DEF ApproveInvalid, PinFailed, PrivacyFailed
      <4> QED BY <1>0, <3>1, <4>1
    <3>3. pc' \in [Proc -> PC]
      BY <1>0, <2>1 DEF ApproveInvalid, PinFailed, PrivacyFailed, PC
    <3>4. UNCHANGED <<lock, torn, packages, staged, cas, catalog, index, req, work, faults>>
      BY <2>1 DEF ApproveInvalid, PinFailed, PrivacyFailed
    <3> QED BY <1>0, <3>2, <3>3, <3>4
  <2>2. CASE ApproveRefused(p) \/ StagePackage(p)
    BY <1>0, <2>2 DEF ApproveRefused, StagePackage, PC
  <2>3. CASE ApproveAccepted(p)
    <3>1. req[p].cand \in Cand
      BY <1>0, <2>3 DEF ApproveAccepted, RequestOK, Complete
    <3>2. NextRevision(KeyOf[req[p].cand]) \in Nat
      BY <1>0, NextRevisionType DEF IInv
    <3>3. [NoWork EXCEPT !.id = [key |-> KeyOf[req[p].cand], rev |-> NextRevision(KeyOf[req[p].cand])],
                         !.todo = Artifact] \in Work
      BY <3>1, <3>2 DEF Work, NoWork, BaselineId
    <3> QED BY <1>0, <2>3, <3>3 DEF ApproveAccepted, PC
  <2>4. ASSUME NEW a \in Artifact, PinArtifact(p, a) \/ SkipOptional(p, a)
        PROVE  TypeOK'
    <3>1. /\ [work[p] EXCEPT !.todo = @ \ {a}, !.refs = @ \cup {a}] \in Work
          /\ [work[p] EXCEPT !.todo = @ \ {a}] \in Work
      BY <1>b DEF Work
    <3>2. work' = [work EXCEPT ![p] = [work[p] EXCEPT !.todo = @ \ {a}, !.refs = @ \cup {a}]]
          \/ work' = [work EXCEPT ![p] = [work[p] EXCEPT !.todo = @ \ {a}]]
      BY <1>0, <2>4 DEF PinArtifact, SkipOptional
    <3>3. work' \in [Proc -> Work]
      BY <1>0, <3>1, <3>2
    <3> QED BY <1>0, <2>4, <3>3 DEF PinArtifact, PinInStore, SkipOptional
  <2>5. ASSUME NEW a \in Artifact, AppendPinned(p, a) PROVE TypeOK'
    <3>1. EventOf("ARTIFACT_PINNED", work[p].id, req[p].cand, None) \in Event
      BY <1>b, EventType1 DEF EventType, Request, Work
    <3>2. work' \in [Proc -> Work]
      BY <1>0, <1>b, <2>5 DEF AppendPinned, Work
    <3> QED BY <1>0, <2>5, <3>1, <3>2 DEF AppendPinned
  <2>6. CASE PublishPackage(p)
    <3>1. [id |-> work[p].id, cand |-> req[p].cand, refs |-> work[p].refs] \in Package
      BY <1>0, <1>b, <2>6 DEF PublishPackage, ApprovalInProgress, RequestOK, Complete, Approving, Package, Work
    <3> QED BY <1>0, <2>6, <3>1 DEF PublishPackage, PC
  <2>7. CASE AppendValidated(p)
    <3>1. EventOf("CANDIDATE_VALIDATED", None, req[p].cand, None) \in Event
      BY <1>b, EventType1 DEF EventType, Request
    <3>2. work' \in [Proc -> Work]
      BY <1>0, <1>b, <2>7 DEF AppendValidated, Work
    <3> QED BY <1>0, <2>7, <3>1, <3>2 DEF AppendValidated, PC
  <2>8. CASE AppendApproved(p)
    <3>1. EventOf("APPROVED", work[p].id, req[p].cand, req[p].rel) \in Event
      BY <1>b, EventType1 DEF EventType, Request, Work
    <3> QED BY <1>0, <2>8, <3>1 DEF AppendApproved, PC
  <2>9. CASE AppendSuperseded(p)
    <3>1. EventOf("SUPERSEDED", req[p].rel, req[p].cand, work[p].id) \in Event
      BY <1>b, EventType1 DEF EventType, Request, Work
    <3> QED BY <1>0, <2>9, <3>1 DEF AppendSuperseded, PC
  <2> QED BY <1>3, <2>1, <2>2, <2>3, <2>4, <2>5, <2>6, <2>7, <2>8, <2>9 DEF Approve
<1>4. ASSUME NEW p \in Proc, Reject(p) \/ Supersede(p) \/ Archive(p) PROVE TypeOK'
  <2>1. /\ EventOf("REJECTED", None, req[p].cand, None) \in Event
        /\ EventOf("SUPERSEDED", req[p].id, None, req[p].rel) \in Event
        /\ EventOf("ARCHIVED", req[p].id, req[p].cand, None) \in Event
    BY <1>b, EventType1 DEF EventType, Request
  <2>2. \E allowed \in BOOLEAN, e \in Event : Record(p, allowed, e)
    BY <1>4, <2>1 DEF Reject, Supersede, Archive
  <2> QED BY <1>0, <2>2 DEF Record, PC
<1>5. ASSUME NEW p \in Proc, Rebuild(p) \/ ReadSnapshot(p) \/ WriteCatalog(p) \/ WriteIndex(p)
      PROVE  TypeOK'
  <2>1. [count |-> Len(log), active |-> AllActive] \in Snapshot
    BY <1>0, <1>a DEF Snapshot
  <2>2. CASE ReadSnapshot(p)
    <3>1. work' \in [Proc -> Work]
      BY <1>0, <1>b, <2>1, <2>2 DEF ReadSnapshot, Work
    <3> QED BY <1>0, <2>2, <3>1 DEF ReadSnapshot, PC
  <2>3. CASE ~ReadSnapshot(p)
    BY <1>0, <1>b, <1>5, <2>3 DEF Rebuild, WriteCatalog, WriteIndex, PC, Work
  <2> QED BY <2>2, <2>3
<1>6. ASSUME NEW p \in Proc, Crash(p) \/ RaiseError(p) \/ LockWriteFails(p) PROVE TypeOK'
  <2>0. CutShort(p) => torn' \in BOOLEAN
    BY <1>0, Zenon DEF CutShort
  <2>1. CASE Crash(p)
    BY <1>0, <2>0, <2>1, InitialTypes DEF Crash, PC
  <2>2. CASE RaiseError(p)
    BY <1>0, <2>0, <2>2 DEF RaiseError, PC
  <2>3. CASE LockWriteFails(p)
    BY <1>0, <2>3, InitialTypes DEF LockWriteFails, PC
  <2> QED BY <1>6, <2>1, <2>2, <2>3
<1>7. CASE RemoveStaleLock
  BY <1>0, <1>7 DEF RemoveStaleLock
<1>8. CASE UNCHANGED vars
  BY <1>0, <1>8 DEF vars
<1> QED BY <1>1, <1>2, <1>3, <1>4, <1>5, <1>6, <1>7, <1>8 DEF Next, Step

-----------------------------------------------------------------------------
(* Who may write, and what the others keep.                                *)

\* What one process does in a step.
StepOf(p) == AskSome(p) \/ Step(p) \/ Crash(p) \/ RaiseError(p) \/ LockWriteFails(p)

\* What operators ask for is one complete request.
LEMMA AskShape ==
  ASSUME TypeOK, NEW p \in Proc, AskSome(p)
  PROVE  \E r \in Request : Ask(p, r) /\ Complete(r)
<1>1. KnownId \subseteq BaselineId
  BY DEF TypeOK, KnownId, Package
<1> DEFINE R(k, c, b, s) == [kind |-> k, cand |-> c, id |-> b, rel |-> s]
<1>2. ASSUME NEW c \in Cand, NEW s \in BaselineId \cup {None}
      PROVE  R("approve", c, None, s) \in Request /\ Complete(R("approve", c, None, s))
  BY DEF Request, Complete
<1>3. ASSUME NEW c \in Cand
      PROVE  R("reject", c, None, None) \in Request /\ Complete(R("reject", c, None, None))
  BY DEF Request, Complete
<1>4. ASSUME NEW b \in BaselineId, NEW s \in BaselineId
      PROVE  R("supersede", None, b, s) \in Request /\ Complete(R("supersede", None, b, s))
  BY DEF Request, Complete
<1>5. ASSUME NEW b \in BaselineId
      PROVE  R("archive", None, b, None) \in Request /\ Complete(R("archive", None, b, None))
  BY DEF Request, Complete
<1>6. ASSUME NEW c \in Cand
      PROVE  R("archive", c, None, None) \in Request /\ Complete(R("archive", c, None, None))
  BY DEF Request, Complete
<1>7. R("rebuild", None, None, None) \in Request /\ Complete(R("rebuild", None, None, None))
  BY DEF Request, Complete
<1>8. \/ \E c \in Cand, s \in KnownId \cup {None} : Ask(p, R("approve", c, None, s))
      \/ \E c \in Cand : Ask(p, R("reject", c, None, None))
      \/ \E b, s \in KnownId : Ask(p, R("supersede", None, b, s))
      \/ \E b \in KnownId : Ask(p, R("archive", None, b, None))
      \/ \E c \in Cand : Ask(p, R("archive", c, None, None))
      \/ Ask(p, R("rebuild", None, None, None))
  BY DEF AskSome
<1> HIDE DEF R
<1> QED BY <1>1, <1>2, <1>3, <1>4, <1>5, <1>6, <1>7, <1>8, Zenon

\* A step of one process leaves the place and the locals of the others alone.
LEMMA OthersKeep ==
  ASSUME TypeOK, NEW p \in Proc, StepOf(p), NEW q \in Proc, q # p
  PROVE  pc'[q] = pc[q] /\ req'[q] = req[q] /\ work'[q] = work[q]
<1> USE DEF TypeOK, Goto, Begin
<1>1. CASE AskSome(p)
  BY <1>1, AskShape DEF Ask
<1>2. CASE Approve(p)
  BY <1>2 DEF Approve, ApproveInvalid, ApproveRefused, ApproveAccepted, PinArtifact,
    SkipOptional, PinFailed, PrivacyFailed, StagePackage, PublishPackage,
    AppendValidated, AppendPinned, AppendApproved, AppendSuperseded
<1>3. CASE Reject(p) \/ Supersede(p) \/ Archive(p)
  BY <1>3 DEF Reject, Supersede, Archive, Record
<1>4. CASE AcquireLock(p) \/ LockTimeout(p) \/ ReadTornLog(p) \/ Unlock(p) \/ Rebuild(p)
           \/ ReadSnapshot(p) \/ WriteCatalog(p) \/ WriteIndex(p)
  BY <1>4 DEF AcquireLock, LockTimeout, ReadTornLog, Unlock, Rebuild, ReadSnapshot,
    WriteCatalog, WriteIndex
<1>5. CASE Crash(p) \/ RaiseError(p) \/ LockWriteFails(p)
  BY <1>5 DEF Crash, RaiseError, LockWriteFails
<1> QED BY <1>1, <1>2, <1>3, <1>4, <1>5 DEF StepOf, Step

\* Only the process that holds the lock writes to the log, the packages or the
\* store; the place of a process without it is "idle" or "waiting".
LEMMA WriterHolds ==
  ASSUME TypeOK, NEW p \in Proc, StepOf(p), pc[p] \notin Holding
  PROVE  /\ UNCHANGED <<log, packages, cas>>
         /\ \/ AcquireLock(p)
            \/ pc'[p] \notin Holding /\ (lock' = lock \/ lock = None)
<1> USE DEF TypeOK, Goto, Begin, Holding, files
<1>1. CASE AskSome(p)
  BY <1>1, AskShape DEF Ask
<1>2. CASE Approve(p)
  BY <1>2 DEF Approve, ApproveInvalid, ApproveRefused, ApproveAccepted, PinArtifact,
    SkipOptional, PinFailed, PrivacyFailed, StagePackage, PublishPackage,
    AppendValidated, AppendPinned, AppendApproved, AppendSuperseded
<1>3. CASE Reject(p) \/ Supersede(p) \/ Archive(p)
  BY <1>3 DEF Reject, Supersede, Archive, Record
<1>4. CASE AcquireLock(p) \/ LockTimeout(p) \/ ReadTornLog(p) \/ Unlock(p) \/ Rebuild(p)
           \/ ReadSnapshot(p) \/ WriteCatalog(p) \/ WriteIndex(p)
  BY <1>4 DEF AcquireLock, LockTimeout, ReadTornLog, Unlock, Rebuild, ReadSnapshot,
    WriteCatalog, WriteIndex
<1>5. CASE Crash(p) \/ RaiseError(p) \/ LockWriteFails(p)
  BY <1>5 DEF Crash, RaiseError, LockWriteFails
<1> QED BY <1>1, <1>2, <1>3, <1>4, <1>5 DEF StepOf, Step

\* The process that holds the lock keeps the lock file until it leaves.
LEMMA HolderKeeps ==
  ASSUME TypeOK, NEW p \in Proc, StepOf(p), pc[p] \in Holding
  PROVE  lock' = lock \/ pc'[p] \notin Holding
<1> USE DEF TypeOK, Goto, Begin, Holding
<1>1. CASE AskSome(p)
  BY <1>1, AskShape DEF Ask
<1>2. CASE Approve(p)
  BY <1>2 DEF Approve, ApproveInvalid, ApproveRefused, ApproveAccepted, PinArtifact,
    SkipOptional, PinFailed, PrivacyFailed, StagePackage, PublishPackage,
    AppendValidated, AppendPinned, AppendApproved, AppendSuperseded
<1>3. CASE Reject(p) \/ Supersede(p) \/ Archive(p)
  BY <1>3 DEF Reject, Supersede, Archive, Record
<1>4. CASE AcquireLock(p) \/ LockTimeout(p) \/ ReadTornLog(p) \/ Unlock(p) \/ Rebuild(p)
           \/ ReadSnapshot(p) \/ WriteCatalog(p) \/ WriteIndex(p)
  BY <1>4 DEF AcquireLock, LockTimeout, ReadTornLog, Unlock, Rebuild, ReadSnapshot,
    WriteCatalog, WriteIndex
<1>5. CASE Crash(p) \/ RaiseError(p) \/ LockWriteFails(p)
  BY <1>5 DEF Crash, RaiseError, LockWriteFails
<1> QED BY <1>1, <1>2, <1>3, <1>4, <1>5 DEF StepOf, Step

\* The lock excludes: whoever is past it owns the lock file (_lock).
LEMMA MutexStep ==
  ASSUME TypeOK, MutualExclusion, [Next]_vars
  PROVE  MutualExclusion'
<1> USE RepositoryAssumption
<1>1. ASSUME NEW p \in Proc, StepOf(p) PROVE MutualExclusion'
  <2> SUFFICES ASSUME NEW q \in Proc, pc'[q] \in Holding PROVE lock' = q
    BY DEF MutualExclusion
  <2>1. CASE q = p
    <3>1. CASE pc[p] \in Holding
      BY <1>1, <2>1, <3>1, HolderKeeps DEF MutualExclusion
    <3>2. CASE pc[p] \notin Holding
      BY <1>1, <2>1, <3>2, WriterHolds DEF AcquireLock
    <3> QED BY <3>1, <3>2
  <2>2. CASE q # p
    <3>1. lock = q
      BY <1>1, <2>2, OthersKeep DEF MutualExclusion
    <3>2. pc[p] \notin Holding
      BY <2>2, <3>1 DEF MutualExclusion
    <3>3. ~AcquireLock(p)
      BY <3>1 DEF AcquireLock
    <3> QED BY <1>1, <3>1, <3>2, <3>3, WriterHolds
  <2> QED BY <2>1, <2>2
<1>2. CASE RemoveStaleLock
  BY <1>2 DEF RemoveStaleLock, MutualExclusion
<1>3. CASE UNCHANGED vars
  BY <1>3 DEF vars, MutualExclusion
<1> QED BY <1>1, <1>2, <1>3 DEF Next, StepOf

-----------------------------------------------------------------------------
(* What a step does to the files.                                          *)

\* Events that no identifier's state depends on.
Neutral == {"CANDIDATE_VALIDATED", "ARTIFACT_PINNED", "VALIDATION_FAILED"}

Demoting == {"SUPERSEDED", "REJECTED", "ARCHIVED"}

\* The events that end a state, and the states they are appended in.
Demotes(e) ==
  /\ e.type \in Demoting
  /\ \A x \in BaselineId : Affects(e, x) =>
       /\ e.type # "REJECTED"
       /\ HasPackage(x)
       /\ InState(log, x, "APPROVED") \/ InState(log, x, "SUPERSEDED")

\* A neutral event affects nothing.
LEMMA NeutralAffectsNothing ==
  ASSUME NEW e \in Event, e.type \in Neutral, NEW x
  PROVE  ~Affects(e, x)
BY DEF Neutral, Affects

\* No baseline is ever in the state of a rejected candidate.
LEMMA BaselineNotRejected ==
  ASSUME TypeOK, NEW b \in BaselineId
  PROVE  ~InState(log, b, "REJECTED")
<1> SUFFICES ASSUME InState(log, b, "REJECTED") PROVE FALSE
  OBVIOUS
<1>1. PICK i \in 1..Len(log) : Affects(log[i], b) /\ Effect(log[i], b) = "REJECTED"
  BY DEF InState
<1>2. log[i] \in Event
  BY DEF TypeOK
<1>3. log[i].type = "REJECTED" /\ b = log[i].cand
  BY <1>1 DEF Affects, Effect
<1> QED BY <1>2, <1>3, RepositoryAssumption DEF Event

\* Operations that append one event with no effect on a baseline's state.
LEMMA NeutralStep ==
  ASSUME TypeOK, NEW p \in Proc,
         \/ ApproveInvalid(p) \/ PinFailed(p) \/ PrivacyFailed(p) \/ AppendValidated(p)
         \/ \E a \in Artifact : AppendPinned(p, a)
  PROVE  /\ UNCHANGED <<packages, cas>>
         /\ \E e \in Event : log' = Append(log, e) /\ e.type \in Neutral
<1>1. req[p] \in Request /\ work[p] \in Work
  BY DEF TypeOK
<1> DEFINE v == EventOf("VALIDATION_FAILED", None, req[p].cand, None)
           w == EventOf("CANDIDATE_VALIDATED", None, req[p].cand, None)
           a == EventOf("ARTIFACT_PINNED", work[p].id, req[p].cand, None)
<1>2. v \in Event /\ w \in Event /\ a \in Event
  BY <1>1, EventType1 DEF EventType, Request, Work
<1>3. v.type \in Neutral /\ w.type \in Neutral /\ a.type \in Neutral
  BY DEF EventOf, Neutral
<1>4. log' = Append(log, v) \/ log' = Append(log, w) \/ log' = Append(log, a)
  BY DEF ApproveInvalid, PinFailed, PrivacyFailed, AppendValidated, AppendPinned, Append1
<1>5. UNCHANGED <<packages, cas>>
  BY DEF ApproveInvalid, PinFailed, PrivacyFailed, AppendValidated, AppendPinned
<1> HIDE DEF v, w, a
<1> QED BY <1>2, <1>3, <1>4, <1>5

\* reject, supersede and archive append an event that ends a state, if any.
LEMMA RecordStep ==
  ASSUME IInv, NEW p \in Proc, Reject(p) \/ Supersede(p) \/ Archive(p)
  PROVE  /\ UNCHANGED <<packages, cas>>
         /\ \/ UNCHANGED log
            \/ \E e \in Event : log' = Append(log, e) /\ Demotes(e)
<1> USE RepositoryAssumption DEF Begin
<1>1. /\ TypeOK /\ Complete(req[p]) /\ LogIsBacked
      /\ req[p] \in Request
  BY DEF IInv, TypeOK, RequestOK
<1>2. CASE Reject(p)
  <2> DEFINE e == EventOf("REJECTED", None, req[p].cand, None)
  <2>1. e \in Event /\ e.type = "REJECTED" /\ e.cand = req[p].cand
    BY <1>1, EventType1 DEF EventType, Request
  <2>2. req[p].cand \in Cand
    BY <1>1, <1>2 DEF Reject, Complete
  <2> HIDE DEF e
  <2>3. Demotes(e)
    BY <2>1, <2>2 DEF Demotes, Demoting, Affects
  <2>4. UNCHANGED <<packages, cas>> /\ (UNCHANGED log \/ log' = Append(log, e))
    BY <1>2 DEF Reject, Record, Append1, e
  <2> QED BY <2>1, <2>3, <2>4
<1>3. CASE Supersede(p)
  <2> DEFINE b == req[p].id
             e == EventOf("SUPERSEDED", b, None, req[p].rel)
  <2>1. e \in Event /\ e.type = "SUPERSEDED" /\ e.id = b
    BY <1>1, EventType1 DEF EventType, Request
  <2>2. \/ UNCHANGED log
        \/ log' = Append(log, e) /\ HasPackage(b) /\ InState(log, b, "APPROVED")
    BY <1>3 DEF Supersede, Record, Append1
  <2>3. UNCHANGED <<packages, cas>>
    BY <1>3 DEF Supersede, Record
  <2> HIDE DEF e
  <2>4. HasPackage(b) /\ InState(log, b, "APPROVED") => Demotes(e)
    BY <2>1 DEF Demotes, Demoting, Affects
  <2> QED BY <2>1, <2>2, <2>3, <2>4
<1>4. CASE Archive(p)
  <2> DEFINE b == req[p].id
             e == EventOf("ARCHIVED", b, req[p].cand, None)
             x == IF b # None THEN b ELSE req[p].cand
  <2>1. e \in Event /\ e.type = "ARCHIVED" /\ e.id = b /\ e.cand = req[p].cand
    BY <1>1, EventType1 DEF EventType, Request
  <2>2. \/ UNCHANGED log
        \/ /\ log' = Append(log, e)
           /\ \/ InState(log, x, "APPROVED") \/ InState(log, x, "REJECTED")
              \/ InState(log, x, "SUPERSEDED")
    BY <1>4 DEF Archive, Record, Append1
  <2>3. UNCHANGED <<packages, cas>>
    BY <1>4 DEF Archive, Record
  <2>4. ASSUME NEW y \in BaselineId, Affects(e, y) PROVE y = x
    BY <2>1, <2>4 DEF Affects
  <2> HIDE DEF e, x
  <2>5. ASSUME NEW y \in BaselineId, Affects(e, y), log' # log
        PROVE  /\ HasPackage(y)
               /\ InState(log, y, "APPROVED") \/ InState(log, y, "SUPERSEDED")
    <3>1. InState(log, y, "APPROVED") \/ InState(log, y, "SUPERSEDED")
      BY <1>1, <2>2, <2>4, <2>5, BaselineNotRejected
    <3>2. \E i \in 1..Len(log) : Affects(log[i], y)
      BY <3>1, StateHasEvent
    <3> QED BY <1>1, <3>1, <3>2 DEF LogIsBacked
  <2>6. UNCHANGED log \/ Demotes(e)
    BY <2>1, <2>5 DEF Demotes, Demoting
  <2> QED BY <2>1, <2>2, <2>3, <2>6
<1> QED BY <1>2, <1>3, <1>4

\* Every step of a process does one of five things to log, packages and store.
LEMMA FilesStep ==
  ASSUME IInv, NEW p \in Proc, StepOf(p)
  PROVE  \/ UNCHANGED <<log, packages>> /\ cas \subseteq cas'
         \/ /\ UNCHANGED <<packages, cas>>
            /\ \E e \in Event : log' = Append(log, e) /\ e.type \in Neutral
         \/ PublishPackage(p)
         \/ AppendApproved(p)
         \/ /\ UNCHANGED <<packages, cas>>
            /\ \E e \in Event : log' = Append(log, e) /\ Demotes(e)
<1> USE DEF files
<1>1. TypeOK
  BY DEF IInv
<1>2. CASE AskSome(p)
  BY <1>1, <1>2, AskShape DEF Ask
<1>3. CASE AcquireLock(p) \/ LockTimeout(p) \/ ReadTornLog(p) \/ Unlock(p) \/ Rebuild(p)
           \/ ReadSnapshot(p) \/ WriteCatalog(p) \/ WriteIndex(p)
           \/ Crash(p) \/ RaiseError(p) \/ LockWriteFails(p)
  BY <1>3 DEF AcquireLock, LockTimeout, ReadTornLog, Unlock, Rebuild, ReadSnapshot,
    WriteCatalog, WriteIndex, Crash, RaiseError, LockWriteFails
<1>4. CASE Reject(p) \/ Supersede(p) \/ Archive(p)
  BY <1>4, RecordStep
<1>5. CASE Approve(p)
  <2>1. CASE \/ ApproveInvalid(p) \/ PinFailed(p) \/ PrivacyFailed(p) \/ AppendValidated(p)
             \/ \E a \in Artifact : AppendPinned(p, a)
    BY <1>1, <2>1, NeutralStep
  <2>2. CASE \/ ApproveRefused(p) \/ ApproveAccepted(p) \/ StagePackage(p)
             \/ \E a \in Artifact : PinArtifact(p, a) \/ SkipOptional(p, a)
    BY <2>2 DEF ApproveRefused, ApproveAccepted, StagePackage, PinArtifact, PinInStore, SkipOptional
  <2>3. CASE AppendSuperseded(p)
    <3> DEFINE b == req[p].rel
               e == EventOf("SUPERSEDED", b, req[p].cand, work[p].id)
    <3>1. req[p] \in Request /\ work[p] \in Work
      BY <1>1 DEF TypeOK
    <3>2. e \in Event /\ e.type = "SUPERSEDED" /\ e.id = b
      <4>1. /\ b \in BaselineId \cup {None} /\ work[p].id \in BaselineId \cup {None}
            /\ req[p].cand \in Cand \cup {None} /\ "SUPERSEDED" \in EventType
        BY <3>1 DEF EventType, Request, Work
      <4> QED BY <4>1 DEF EventOf, Event
    <3>3. HasPackage(b) /\ InState(log, b, "SUPERSEDED")
      BY <2>3 DEF IInv, ReplacementInProgress, AppendSuperseded, Goto
    <3>4. log' = Append(log, e) /\ UNCHANGED <<packages, cas>>
      BY <2>3 DEF AppendSuperseded, Append1
    <3> HIDE DEF e
    <3>5. Demotes(e)
      BY <3>2, <3>3 DEF Demotes, Demoting, Affects
    <3> QED BY <3>2, <3>4, <3>5
  <2> QED BY <1>5, <2>1, <2>2, <2>3 DEF Approve
<1> QED BY <1>2, <1>3, <1>4, <1>5 DEF StepOf, Step

-----------------------------------------------------------------------------
(* The parts of the invariant that speak of log, packages and store.       *)

\* What is known when a package is published (os.replace in approve).
LEMMA AtPublish ==
  ASSUME IInv, NEW p \in Proc, PublishPackage(p)
  PROVE  \E q \in Package :
           /\ q = [id |-> work[p].id, cand |-> req[p].cand, refs |-> work[p].refs]
           /\ packages' = packages \cup {q}
           /\ ~HasPackage(q.id) /\ ~PackageOf(q.cand) /\ NoEventAffects(q.id)
           /\ UNCHANGED <<log, cas>>
<1> DEFINE q == [id |-> work[p].id, cand |-> req[p].cand, refs |-> work[p].refs]
<1>1. pc[p] = "publish" /\ packages' = packages \cup {q} /\ UNCHANGED <<log, cas>>
  BY DEF PublishPackage, Goto
<1>2. /\ work[p].id \in BaselineId /\ NoEventAffects(work[p].id)
      /\ ~HasPackage(work[p].id) /\ ~PackageOf(req[p].cand)
  BY <1>1 DEF IInv, ApprovalInProgress, Approving
<1>3. req[p].cand \in Cand /\ work[p].refs \subseteq Artifact
  BY <1>1 DEF IInv, TypeOK, Work, RequestOK, Complete, Approving
<1>4. q \in Package
  BY <1>2, <1>3 DEF Package
<1> QED BY <1>1, <1>2, <1>4

\* What is known when a baseline is approved.
LEMMA AtApproved ==
  ASSUME IInv, NEW p \in Proc, AppendApproved(p)
  PROVE  \E e \in Event, q \in packages :
           /\ log' = Append(log, e) /\ UNCHANGED <<packages, cas>>
           /\ e.type = "APPROVED" /\ e.id = work[p].id /\ e.rel = req[p].rel
           /\ q.id = e.id /\ q.cand = e.cand
           /\ Required[q.cand] \subseteq q.refs /\ q.refs \subseteq cas
           /\ e.id \in BaselineId /\ NoEventAffects(e.id)
           /\ Active(e.id.key) \subseteq {e.rel}
           /\ e.rel # None => e.rel \in Active(e.id.key)
<1> DEFINE b == work[p].id
           c == req[p].cand
           s == req[p].rel
           e == EventOf("APPROVED", b, c, s)
           q == [id |-> b, cand |-> c, refs |-> work[p].refs]
<1>1. /\ pc[p] = "pinned" /\ log' = Append(log, e) /\ UNCHANGED <<packages, cas>>
  BY DEF AppendApproved, Goto, Append1
<1>2. /\ b \in BaselineId /\ NoEventAffects(b) /\ q \in packages
      /\ Active(b.key) \subseteq {s} /\ (s # None => s \in Active(b.key))
  BY <1>1 DEF IInv, ApprovalInProgress, Approving
<1>3. work[p].refs \subseteq cas /\ Required[c] \subseteq work[p].refs
  BY <1>1 DEF IInv, PinningInProgress, Approving
<1>4. /\ e \in Event /\ e.type = "APPROVED" /\ e.id = b /\ e.rel = s /\ e.cand = c
  <2>1. /\ b \in BaselineId \cup {None} /\ s \in BaselineId \cup {None}
        /\ c \in Cand \cup {None} /\ "APPROVED" \in EventType
    BY <1>2 DEF IInv, TypeOK, Request, EventType
  <2> QED BY <2>1, EventType1
<1>5. q.id = b /\ q.cand = c /\ q.refs = work[p].refs
  OBVIOUS
<1> HIDE DEF b, c, s, e, q
<1>6. e.id = work[p].id /\ e.rel = req[p].rel
  BY <1>4 DEF b, s
<1>7. Required[q.cand] \subseteq q.refs /\ q.refs \subseteq cas
  BY <1>3, <1>5
<1> QED BY <1>1, <1>2, <1>4, <1>5, <1>6, <1>7

\* The log never speaks of a baseline whose package is not on disk.
LEMMA LogIsBackedStep ==
  ASSUME IInv, NEW p \in Proc, StepOf(p)
  PROVE  LogIsBacked'
<1>1. TypeOK /\ LogIsBacked
  BY DEF IInv
<1>2. ASSUME NEW e \in Event, log' = Append(log, e), UNCHANGED packages,
             \A x \in BaselineId : Affects(e, x) => HasPackage(x)
      PROVE  LogIsBacked'
  <2>1. /\ Len(log') = Len(log) + 1 /\ Len(log) \in Nat
        /\ log'[Len(log) + 1] = e
        /\ \A i \in 1..Len(log) : log'[i] = log[i]
    BY <1>1, <1>2 DEF TypeOK
  <2>2. \A i \in 1..Len(log') : i \in 1..Len(log) \/ i = Len(log) + 1
    BY <2>1
  <2> QED BY <1>1, <1>2, <2>1, <2>2 DEF LogIsBacked, HasPackage
<1>3. CASE UNCHANGED <<log, packages>> /\ cas \subseteq cas'
  BY <1>1, <1>3 DEF LogIsBacked, HasPackage
<1>4. CASE /\ UNCHANGED <<packages, cas>>
           /\ \E e \in Event : log' = Append(log, e) /\ e.type \in Neutral
  BY <1>2, <1>4, NeutralAffectsNothing
<1>5. CASE PublishPackage(p)
  BY <1>1, <1>5, AtPublish DEF LogIsBacked, HasPackage
<1>6. CASE AppendApproved(p)
  <2>1. PICK e \in Event, q \in packages :
          /\ log' = Append(log, e) /\ UNCHANGED packages
          /\ e.type = "APPROVED" /\ q.id = e.id /\ e.id \in BaselineId
          /\ e.rel # None => e.rel \in Active(e.id.key)
    BY <1>6, AtApproved
  <2>2. \A x \in BaselineId : Affects(e, x) => HasPackage(x)
    BY <2>1 DEF Affects, HasPackage, Active
  <2> QED BY <1>2, <2>1, <2>2
<1>7. CASE /\ UNCHANGED <<packages, cas>>
           /\ \E e \in Event : log' = Append(log, e) /\ Demotes(e)
  BY <1>2, <1>7 DEF Demotes
<1> QED BY <1>3, <1>4, <1>5, <1>6, <1>7, FilesStep

\* Packages keep distinct identifiers and candidates, and bounded revisions.
LEMMA PackagesStep ==
  ASSUME IInv, NEW p \in Proc, StepOf(p)
  PROVE  PackagesDistinct' /\ RevisionsBounded'
<1>1. TypeOK /\ PackagesDistinct /\ RevisionsBounded
  BY DEF IInv
<1>2. CASE packages' = packages
  BY <1>1, <1>2 DEF PackagesDistinct, RevisionsBounded
<1>3. CASE PublishPackage(p)
  <2>1. PICK q \in Package : /\ packages' = packages \cup {q}
                             /\ ~HasPackage(q.id) /\ ~PackageOf(q.cand)
    BY <1>3, AtPublish
  <2>2. PackagesDistinct'
    BY <1>1, <2>1 DEF PackagesDistinct, HasPackage, PackageOf
  <2>3. RevisionsBounded'
    <3>1. PICK n \in Nat : \A r \in packages : r.id.rev <= n
      BY <1>1 DEF RevisionsBounded
    <3>2. q.id.rev \in Nat /\ \A r \in packages : r.id.rev \in Nat
      BY <1>1 DEF TypeOK, Package, BaselineId
    <3>3. n + q.id.rev \in Nat /\ \A r \in packages' : r.id.rev <= n + q.id.rev
      BY <2>1, <3>1, <3>2
    <3> QED BY <3>3 DEF RevisionsBounded
  <2> QED BY <2>2, <2>3
<1>4. AppendApproved(p) => UNCHANGED packages
  BY DEF AppendApproved
<1> QED BY <1>2, <1>3, <1>4, FilesStep

\* No key gets a second approved baseline.
LEMMA OneActiveStep ==
  ASSUME IInv, NEW p \in Proc, StepOf(p)
  PROVE  OneActivePerKey'
<1>1. TypeOK /\ OneActivePerKey /\ log \in Seq(Event)
  BY DEF IInv, TypeOK
<1>2. ASSUME UNCHANGED packages,
             \A x : InState(log, x, "APPROVED")' => InState(log, x, "APPROVED")
      PROVE  OneActivePerKey'
  BY <1>1, <1>2 DEF OneActivePerKey
<1>3. CASE UNCHANGED <<log, packages>> /\ cas \subseteq cas'
  BY <1>2, <1>3 DEF InState
<1>4. ASSUME NEW e \in Event, log' = Append(log, e), UNCHANGED packages,
             e.type # "APPROVED"
      PROVE  OneActivePerKey'
  <2>1. ASSUME NEW x, InState(log', x, "APPROVED") PROVE InState(log, x, "APPROVED")
    BY <1>1, <1>4, <2>1, ReduceAppend DEF Effect
  <2> QED BY <1>2, <1>4, <2>1 DEF InState
<1>5. CASE PublishPackage(p)
  <2>1. PICK q \in Package : /\ packages' = packages \cup {q} /\ NoEventAffects(q.id)
                             /\ UNCHANGED log
    BY <1>5, AtPublish
  <2>2. ~InState(log, q.id, "APPROVED")
    BY <2>1, StateHasEvent DEF NoEventAffects
  <2>3. \A x : InState(log, x, "APPROVED")' <=> InState(log, x, "APPROVED")
    BY <2>1 DEF InState
  <2> QED BY <1>1, <2>1, <2>2, <2>3 DEF OneActivePerKey
<1>6. CASE AppendApproved(p)
  <2>1. PICK e \in Event :
          /\ log' = Append(log, e) /\ UNCHANGED packages
          /\ e.type = "APPROVED"
          /\ e.id \in BaselineId
          /\ Active(e.id.key) \subseteq {e.rel}
    BY <1>6, AtApproved
  <2>2. ASSUME NEW x \in BaselineId, InState(log', x, "APPROVED")
        PROVE  x = e.id \/ (x # e.rel /\ InState(log, x, "APPROVED"))
    BY <1>1, <2>1, <2>2, ReduceAppend, RepositoryAssumption DEF Affects, Effect
  <2>3. ASSUME NEW q \in packages, q.id.key = e.id.key, InState(log', q.id, "APPROVED")
        PROVE  q.id = e.id
    <3>1. q.id \in BaselineId
      BY <1>1 DEF TypeOK, Package
    <3>2. CASE q.id # e.rel /\ InState(log, q.id, "APPROVED")
      BY <2>1, <2>3, <3>2 DEF Active
    <3> QED BY <2>2, <2>3, <3>1, <3>2
  <2>4. ASSUME NEW q1 \in packages, NEW q2 \in packages, q1.id.key = q2.id.key,
               InState(log', q1.id, "APPROVED"), InState(log', q2.id, "APPROVED")
        PROVE  q1.id = q2.id
    <3>1. CASE q1.id.key = e.id.key
      BY <2>3, <2>4, <3>1
    <3>2. CASE q1.id.key # e.id.key
      <4>1. q1.id \in BaselineId /\ q2.id \in BaselineId
        BY <1>1 DEF TypeOK, Package
      <4>2. InState(log, q1.id, "APPROVED") /\ InState(log, q2.id, "APPROVED")
        BY <2>2, <2>4, <3>2, <4>1
      <4> QED BY <1>1, <2>4, <4>2 DEF OneActivePerKey
    <3> QED BY <3>1, <3>2
  <2> QED BY <2>1, <2>4 DEF OneActivePerKey, InState
<1> QED BY <1>3, <1>4, <1>5, <1>6, FilesStep DEF Neutral, Demotes, Demoting

\* An approval keeps its package and the package its artifacts.
LEMMA ApprovalIsBackedStep ==
  ASSUME IInv, NEW p \in Proc, StepOf(p)
  PROVE  ApprovalIsBacked'
<1>1. TypeOK /\ ApprovalIsBacked
  BY DEF IInv
<1>2. ASSUME UNCHANGED log, packages \subseteq packages', cas \subseteq cas'
      PROVE  ApprovalIsBacked'
  BY <1>1, <1>2 DEF ApprovalIsBacked
<1>3. ASSUME NEW e \in Event, log' = Append(log, e), UNCHANGED <<packages, cas>>,
             e.type = "APPROVED" =>
               \E q \in packages : /\ q.id = e.id /\ q.cand = e.cand
                                   /\ Required[q.cand] \subseteq q.refs
                                   /\ q.refs \subseteq cas
      PROVE  ApprovalIsBacked'
  <2>1. /\ Len(log') = Len(log) + 1 /\ Len(log) \in Nat
        /\ log'[Len(log) + 1] = e
        /\ \A i \in 1..Len(log) : log'[i] = log[i]
    BY <1>1, <1>3 DEF TypeOK
  <2>2. \A i \in 1..Len(log') : i \in 1..Len(log) \/ i = Len(log) + 1
    BY <2>1
  <2> QED BY <1>1, <1>3, <2>1, <2>2 DEF ApprovalIsBacked
<1>4. CASE PublishPackage(p)
  BY <1>2, <1>4, AtPublish
<1>5. CASE AppendApproved(p)
  BY <1>3, <1>5, AtApproved
<1> QED BY <1>2, <1>3, <1>4, <1>5, FilesStep DEF Neutral, Demotes, Demoting

-----------------------------------------------------------------------------
(* The parts of the invariant that speak of the process at work.           *)

\* A process keeps a complete request until its operation ends.
LEMMA RequestStep ==
  ASSUME IInv, NEW p \in Proc, StepOf(p)
  PROVE  RequestOK'
<1> USE DEF Goto, Begin
<1>1. TypeOK /\ RequestOK
  BY DEF IInv
<1>2. Complete(NoRequest)
  BY DEF Complete, NoRequest
<1>3. /\ Complete(req'[p])
      /\ pc'[p] \in {"pin", "publish", "validated", "pinned", "superseded"}
           => req'[p].kind = "approve"
  <2> USE <1>1, <1>2 DEF TypeOK, RequestOK, Approving
  <2>1. CASE AskSome(p)
    BY <2>1, AskShape DEF Ask
  <2>2. CASE AcquireLock(p) \/ LockTimeout(p) \/ ReadTornLog(p) \/ Unlock(p) \/ Rebuild(p)
             \/ ReadSnapshot(p) \/ WriteCatalog(p) \/ WriteIndex(p)
    BY <2>2 DEF AcquireLock, LockTimeout, ReadTornLog, Unlock, Rebuild, ReadSnapshot,
      WriteCatalog, WriteIndex
  <2>3. CASE Approve(p)
    BY <2>3 DEF Approve, ApproveInvalid, ApproveRefused, ApproveAccepted, PinArtifact,
      SkipOptional, PinFailed, PrivacyFailed, StagePackage, PublishPackage,
      AppendValidated, AppendPinned, AppendApproved, AppendSuperseded
  <2>4. CASE Reject(p) \/ Supersede(p) \/ Archive(p)
    BY <2>4 DEF Reject, Supersede, Archive, Record
  <2>5. CASE Crash(p) \/ RaiseError(p) \/ LockWriteFails(p)
    BY <2>5 DEF Crash, RaiseError, LockWriteFails
  <2> QED BY <2>1, <2>2, <2>3, <2>4, <2>5 DEF StepOf, Step
<1>4. ASSUME NEW q \in Proc, q # p
      PROVE  req'[q] = req[q] /\ pc'[q] = pc[q]
  BY <1>1, <1>4, OthersKeep
<1> QED BY <1>1, <1>3, <1>4 DEF RequestOK, Approving

\* While one process works, the others leave log, packages and store alone.
LEMMA OthersWait ==
  ASSUME TypeOK, MutualExclusion, NEW p \in Proc, StepOf(p),
         NEW q \in Proc, q # p, pc[q] \in Holding
  PROVE  UNCHANGED <<log, packages, cas>>
BY WriterHolds DEF MutualExclusion

\* How a process comes to be pinning, publishing, or appending its events.
LEMMA ApprovingShape ==
  ASSUME IInv, NEW p \in Proc, StepOf(p), Approving(p)'
  PROVE  \/ ApproveAccepted(p)
         \/ \E a \in Artifact : PinArtifact(p, a) \/ SkipOptional(p, a) \/ AppendPinned(p, a)
         \/ StagePackage(p) \/ PublishPackage(p) \/ AppendValidated(p)
<1> USE DEF TypeOK, Goto, Begin, Approving
<1>0. TypeOK
  BY DEF IInv
<1>1. ~AskSome(p)
  BY <1>0, AskShape DEF Ask
<1>2. ~(AcquireLock(p) \/ LockTimeout(p) \/ ReadTornLog(p) \/ Unlock(p) \/ Rebuild(p)
        \/ ReadSnapshot(p) \/ WriteCatalog(p) \/ WriteIndex(p))
  BY <1>0 DEF AcquireLock, LockTimeout, ReadTornLog, Unlock, Rebuild, ReadSnapshot,
    WriteCatalog, WriteIndex
<1>3. ~(Reject(p) \/ Supersede(p) \/ Archive(p))
  BY <1>0 DEF Reject, Supersede, Archive, Record
<1>4. ~(ApproveInvalid(p) \/ ApproveRefused(p) \/ PinFailed(p) \/ PrivacyFailed(p)
        \/ AppendApproved(p) \/ AppendSuperseded(p))
  BY <1>0 DEF ApproveInvalid, ApproveRefused, PinFailed, PrivacyFailed, AppendApproved,
    AppendSuperseded
<1>5. ~(Crash(p) \/ RaiseError(p) \/ LockWriteFails(p))
  BY <1>0 DEF Crash, RaiseError, LockWriteFails
<1> QED BY <1>1, <1>2, <1>3, <1>4, <1>5 DEF StepOf, Step, Approve

\* An approval pins every required artifact before it stages its package.
LEMMA PinningStep ==
  ASSUME IInv, NEW p \in Proc, StepOf(p)
  PROVE  PinningInProgress'
<1> USE DEF Approving, Goto, Begin
<1>1. TypeOK /\ MutualExclusion /\ PinningInProgress
  BY DEF IInv
<1>2. ASSUME NEW q \in Proc, Approving(q)', q # p
      PROVE  /\ work'[q].refs \subseteq cas'
             /\ pc'[q] = "pin" => Required[req'[q].cand] \subseteq work'[q].refs \cup work'[q].todo
             /\ pc'[q] # "pin" => Required[req'[q].cand] \subseteq work'[q].refs
  <2>1. pc'[q] = pc[q] /\ req'[q] = req[q] /\ work'[q] = work[q]
    BY <1>1, <1>2, OthersKeep
  <2>2. UNCHANGED cas
    BY <1>1, <1>2, <2>1, OthersWait DEF Holding
  <2> QED BY <1>1, <1>2, <2>1, <2>2 DEF PinningInProgress
<1>3. ASSUME Approving(p)'
      PROVE  /\ work'[p].refs \subseteq cas'
             /\ pc'[p] = "pin" => Required[req'[p].cand] \subseteq work'[p].refs \cup work'[p].todo
             /\ pc'[p] # "pin" => Required[req'[p].cand] \subseteq work'[p].refs
  <2>0. work[p] \in Work /\ p \in DOMAIN work /\ p \in DOMAIN pc
    BY <1>1 DEF TypeOK
  <2>1. CASE ApproveAccepted(p)
    <3>1. /\ pc'[p] = "pin" /\ req' = req
          /\ work'[p].refs = {} /\ work'[p].todo = Artifact
      BY <2>0, <2>1 DEF ApproveAccepted, NoWork
    <3>2. Required[req[p].cand] \subseteq Artifact
      BY <2>1, RepositoryAssumption DEF IInv, RequestOK, Complete, ApproveAccepted
    <3> QED BY <3>1, <3>2
  <2>2. ASSUME NEW a \in Artifact, PinArtifact(p, a)
        PROVE  /\ pc'[p] = "pin" /\ work'[p].refs \subseteq cas'
               /\ Required[req'[p].cand] \subseteq work'[p].refs \cup work'[p].todo
    <3>1. /\ pc'[p] = "pin" /\ pc[p] = "pin" /\ req' = req
          /\ work'[p].refs = work[p].refs \cup {a} /\ work'[p].todo = work[p].todo \ {a}
          /\ cas' = cas \cup {a}
      BY <2>0, <2>2 DEF PinArtifact, PinInStore, Work
    <3> QED BY <1>1, <3>1 DEF PinningInProgress
  <2>3. ASSUME NEW a \in Artifact, SkipOptional(p, a)
        PROVE  /\ pc'[p] = "pin" /\ work'[p].refs \subseteq cas'
               /\ Required[req'[p].cand] \subseteq work'[p].refs \cup work'[p].todo
    <3>1. /\ pc'[p] = "pin" /\ pc[p] = "pin" /\ req' = req /\ cas' = cas
          /\ work'[p].refs = work[p].refs /\ work'[p].todo = work[p].todo \ {a}
          /\ a \notin Required[req[p].cand]
      BY <2>0, <2>3 DEF SkipOptional, files, Work
    <3> QED BY <1>1, <3>1 DEF PinningInProgress
  <2>4. CASE StagePackage(p)
    <3>1. /\ pc'[p] = "publish" /\ pc[p] = "pin" /\ req' = req /\ cas' = cas /\ work' = work
          /\ work[p].todo = {}
      BY <2>0, <2>4 DEF StagePackage, files
    <3> QED BY <1>1, <3>1 DEF PinningInProgress
  <2>5. ASSUME PublishPackage(p) \/ AppendValidated(p) \/ \E a \in Artifact : AppendPinned(p, a)
        PROVE  /\ pc'[p] # "pin" /\ pc[p] \in {"publish", "validated", "pinned"}
               /\ req' = req /\ cas' = cas /\ work'[p].refs = work[p].refs
    BY <2>0, <2>5 DEF PublishPackage, AppendValidated, AppendPinned, Work
  <2> QED BY <1>1, <1>3, <2>1, <2>2, <2>3, <2>4, <2>5, ApprovingShape DEF PinningInProgress
<1> QED BY <1>2, <1>3 DEF PinningInProgress

\* A neutral event leaves every state, and what no event affects, as it was.
LEMMA NeutralKeeps ==
  ASSUME TypeOK, NEW e \in Event, log' = Append(log, e), e.type \in Neutral, NEW x
  PROVE  /\ NoEventAffects(x) => NoEventAffects(x)'
         /\ \A s : InState(log, x, s)' <=> InState(log, x, s)
<1>1. log \in Seq(Event) /\ ~Affects(e, x)
  BY NeutralAffectsNothing DEF TypeOK
<1>2. \A s : InState(log', x, s) <=> InState(log, x, s)
  BY <1>1, ReduceAppend
<1>3. /\ Len(log') = Len(log) + 1 /\ Len(log) \in Nat
      /\ log'[Len(log) + 1] = e
      /\ \A i \in 1..Len(log) : log'[i] = log[i]
  BY <1>1
<1>4. \A i \in 1..Len(log') : i \in 1..Len(log) \/ i = Len(log) + 1
  BY <1>3
<1>5. NoEventAffects(x) => NoEventAffects(x)'
  BY <1>1, <1>3, <1>4 DEF NoEventAffects
<1> QED BY <1>2, <1>5 DEF InState

\* What approve checked when it took the lock, put in terms of the invariant.
LEMMA AcceptedChecks ==
  ASSUME IInv, NEW p \in Proc, ApproveAccepted(p)
  PROVE  LET c == req[p].cand
             s == req[p].rel
             b == [key |-> KeyOf[c], rev |-> NextRevision(KeyOf[c])] IN
         /\ pc'[p] = "pin" /\ req' = req /\ work'[p].id = b /\ UNCHANGED <<log, packages>>
         /\ b \in BaselineId /\ NoEventAffects(b) /\ ~HasPackage(b) /\ ~PackageOf(c)
         /\ Active(b.key) \subseteq {s}
         /\ s # None => s \in Active(b.key)
<1> DEFINE c == req[p].cand
           s == req[p].rel
           k == KeyOf[c]
           b == [key |-> k, rev |-> NextRevision(k)]
<1>1. /\ TypeOK /\ LogIsBacked /\ RevisionsBounded /\ packages \subseteq Package
      /\ p \in DOMAIN work /\ p \in DOMAIN pc
  BY DEF IInv, TypeOK
<1>2. c \in Cand /\ k \in Key
  BY RepositoryAssumption DEF IInv, RequestOK, Complete, ApproveAccepted, Begin
<1>3. b \in BaselineId /\ b.key = k
  BY <1>1, <1>2, NextRevisionType DEF BaselineId
<1>4. /\ pc'[p] = "pin" /\ req' = req /\ UNCHANGED <<log, packages>>
      /\ work'[p].id = b
  BY <1>1 DEF ApproveAccepted, Goto, NoWork, files
<1>5. Approvable(c, s)
  BY DEF ApproveAccepted
<1> HIDE DEF c, s, k
<1>6. ~HasPackage(b) /\ ~PackageOf(c) /\ MaySupersede(k, s)
  BY <1>5 DEF Approvable, k
<1> HIDE DEF b
<1>7. NoEventAffects(b)
  BY <1>1, <1>3, <1>6 DEF NoEventAffects, LogIsBacked
<1>8. Active(k) \subseteq {s}
  BY <1>6 DEF MaySupersede
<1>9. s # None => s \in Active(k)
  BY <1>6 DEF MaySupersede, Active, HasPackage
<1> QED BY <1>3, <1>4, <1>6, <1>7, <1>8, <1>9 DEF c, s, k, b

\* What approve checked stays true while it works towards its APPROVED event.
LEMMA ApprovalStep ==
  ASSUME IInv, NEW p \in Proc, StepOf(p)
  PROVE  ApprovalInProgress'
<1> USE DEF Goto, Begin
<1> DEFINE Sound(q) ==
      LET b == work[q].id
          c == req[q].cand
          s == req[q].rel IN
      /\ b \in BaselineId
      /\ b.key = KeyOf[c]
      /\ NoEventAffects(b)
      /\ Active(b.key) \subseteq {s}
      /\ s # None => s \in Active(b.key)
      /\ pc[q] \in {"pin", "publish"} => ~HasPackage(b) /\ ~PackageOf(c)
      /\ pc[q] \in {"validated", "pinned"} =>
           [id |-> b, cand |-> c, refs |-> work[q].refs] \in packages
<1>0. TypeOK /\ MutualExclusion /\ work[p] \in Work /\ p \in DOMAIN work /\ p \in DOMAIN pc
  BY DEF IInv, TypeOK
<1>1. ASSUME NEW q \in Proc, Approving(q) PROVE Sound(q)
  BY <1>1 DEF IInv, ApprovalInProgress
<1>2. ASSUME NEW q \in Proc, Approving(q)', q # p PROVE Sound(q)'
  <2>1. pc'[q] = pc[q] /\ req'[q] = req[q] /\ work'[q] = work[q]
    BY <1>0, <1>2, OthersKeep
  <2>2. Approving(q) /\ UNCHANGED <<log, packages>>
    BY <1>0, <1>2, <2>1, OthersWait DEF Approving, Holding
  <2>3. Sound(q)
    BY <1>1, <2>2
  <2> QED BY <2>1, <2>2, <2>3 DEF NoEventAffects, Active, InState, HasPackage, PackageOf
<1>3. ASSUME ApproveAccepted(p) PROVE Sound(p)'
  <2> DEFINE c == req[p].cand
             s == req[p].rel
             b == [key |-> KeyOf[c], rev |-> NextRevision(KeyOf[c])]
  <2>1. /\ UNCHANGED <<log, packages>> /\ req' = req /\ pc'[p] = "pin" /\ work'[p].id = b
        /\ b \in BaselineId /\ NoEventAffects(b) /\ ~HasPackage(b) /\ ~PackageOf(c)
        /\ Active(b.key) \subseteq {s}
        /\ s # None => s \in Active(b.key)
    BY <1>3, AcceptedChecks
  <2>2. \A k, x : /\ Active(k)' = Active(k) /\ NoEventAffects(x)' = NoEventAffects(x)
                  /\ HasPackage(x)' = HasPackage(x) /\ PackageOf(x)' = PackageOf(x)
    BY <2>1 DEF Active, NoEventAffects, InState, HasPackage, PackageOf
  <2>3. b.key = KeyOf[c]
    OBVIOUS
  <2> HIDE DEF b
  <2> QED BY <2>1, <2>2, <2>3
<1>4. ASSUME StagePackage(p) \/ \E a \in Artifact : PinArtifact(p, a) \/ SkipOptional(p, a)
      PROVE  Sound(p)'
  <2>1. /\ UNCHANGED <<log, packages, req>> /\ work'[p].id = work[p].id
        /\ pc[p] = "pin" /\ pc'[p] \in {"pin", "publish"}
    BY <1>0, <1>4 DEF StagePackage, PinArtifact, SkipOptional, files, Work
  <2>2. Sound(p)
    BY <1>1, <2>1 DEF Approving
  <2> QED BY <2>1, <2>2 DEF NoEventAffects, Active, InState, HasPackage, PackageOf
<1>5. ASSUME PublishPackage(p) PROVE Sound(p)'
  <2>1. /\ UNCHANGED <<log, req, work>>
        /\ pc[p] = "publish" /\ pc'[p] = "validated"
    BY <1>0, <1>5 DEF PublishPackage
  <2>2. PICK q \in Package :
          /\ q = [id |-> work[p].id, cand |-> req[p].cand, refs |-> work[p].refs]
          /\ packages' = packages \cup {q} /\ NoEventAffects(q.id)
    BY <1>5, AtPublish
  <2>3. Sound(p)
    BY <1>1, <2>1 DEF Approving
  <2>4. \A x, s : InState(log, x, s)' <=> InState(log, x, s)
    BY <2>1 DEF InState
  <2>5. ~InState(log, q.id, "APPROVED")
    BY <2>2, StateHasEvent DEF NoEventAffects
  <2>6. \A k : Active(k)' = Active(k)
    BY <2>2, <2>4, <2>5 DEF Active
  <2> QED BY <2>1, <2>2, <2>3, <2>6 DEF NoEventAffects
<1>6. ASSUME AppendValidated(p) \/ \E a \in Artifact : AppendPinned(p, a)
      PROVE  Sound(p)'
  <2>1. /\ UNCHANGED <<packages, req>>
        /\ work'[p].id = work[p].id /\ work'[p].refs = work[p].refs
        /\ pc[p] \in {"validated", "pinned"} /\ pc'[p] = "pinned"
    BY <1>0, <1>6 DEF AppendValidated, AppendPinned, Work
  <2>2. Sound(p)
    BY <1>1, <2>1 DEF Approving
  <2>3. PICK e \in Event : log' = Append(log, e) /\ e.type \in Neutral
    BY <1>0, <1>6, NeutralStep
  <2>4. \A x, s : InState(log, x, s)' <=> InState(log, x, s)
    BY <1>0, <2>3, NeutralKeeps
  <2>5. \A x : NoEventAffects(x) => NoEventAffects(x)'
    BY <1>0, <2>3, NeutralKeeps
  <2>6. \A k : Active(k)' = Active(k)
    BY <2>1, <2>4 DEF Active
  <2> QED BY <2>1, <2>2, <2>5, <2>6
<1>7. Approving(p)' => Sound(p)'
  BY <1>3, <1>4, <1>5, <1>6, ApprovingShape
<1>8. \A q \in Proc : Approving(q)' => Sound(q)'
  BY <1>2, <1>7
<1> QED BY <1>8 DEF ApprovalInProgress

\* How a process comes to be appending a SUPERSEDED event.
LEMMA SupersededShape ==
  ASSUME IInv, NEW p \in Proc, StepOf(p), pc'[p] = "superseded"
  PROVE  AppendApproved(p) /\ req[p].rel # None
<1> USE DEF Goto, Begin
<1>0. TypeOK /\ p \in DOMAIN pc
  BY DEF IInv, TypeOK
<1>1. ~AskSome(p)
  BY <1>0, AskShape DEF Ask
<1>2. ~(AcquireLock(p) \/ LockTimeout(p) \/ ReadTornLog(p) \/ Unlock(p) \/ Rebuild(p)
        \/ ReadSnapshot(p) \/ WriteCatalog(p) \/ WriteIndex(p))
  BY <1>0 DEF AcquireLock, LockTimeout, ReadTornLog, Unlock, Rebuild, ReadSnapshot,
    WriteCatalog, WriteIndex
<1>3. ~(Reject(p) \/ Supersede(p) \/ Archive(p) \/ Crash(p) \/ RaiseError(p) \/ LockWriteFails(p))
  BY <1>0 DEF Reject, Supersede, Archive, Record, Crash, RaiseError, LockWriteFails
<1>4. ~(\/ ApproveInvalid(p) \/ ApproveRefused(p) \/ ApproveAccepted(p) \/ PinFailed(p)
        \/ \E a \in Artifact : PinArtifact(p, a) \/ SkipOptional(p, a) \/ AppendPinned(p, a)
        \/ PrivacyFailed(p) \/ StagePackage(p) \/ PublishPackage(p) \/ AppendValidated(p)
        \/ AppendSuperseded(p))
  BY <1>0 DEF ApproveInvalid, ApproveRefused, ApproveAccepted, PinFailed,
    PinArtifact, SkipOptional, AppendPinned, PrivacyFailed, StagePackage, PublishPackage,
    AppendValidated, AppendSuperseded
<1>5. AppendApproved(p)
  BY <1>1, <1>2, <1>3, <1>4 DEF StepOf, Step, Approve
<1> QED BY <1>0, <1>5 DEF AppendApproved

\* Once APPROVED is in the log, what it replaces is superseded already.
LEMMA ReplacementStep ==
  ASSUME IInv, NEW p \in Proc, StepOf(p)
  PROVE  ReplacementInProgress'
<1> USE DEF Goto, Begin
<1>0. /\ TypeOK /\ MutualExclusion /\ ReplacementInProgress
      /\ p \in DOMAIN pc /\ log \in Seq(Event)
  BY DEF IInv, TypeOK
<1>1. ASSUME NEW q \in Proc, pc'[q] = "superseded", q # p
      PROVE  /\ work'[q].id \in BaselineId /\ req'[q].rel \in BaselineId
             /\ HasPackage(req[q].rel)' /\ InState(log, req[q].rel, "SUPERSEDED")'
  <2>1. pc'[q] = pc[q] /\ req'[q] = req[q] /\ work'[q] = work[q]
    BY <1>0, <1>1, OthersKeep
  <2>2. UNCHANGED <<log, packages>>
    BY <1>0, <1>1, <2>1, OthersWait DEF Holding
  <2> QED BY <1>0, <1>1, <2>1, <2>2 DEF ReplacementInProgress, HasPackage, InState
<1>2. ASSUME pc'[p] = "superseded" PROVE AppendApproved(p) /\ req[p].rel # None
  BY <1>2, SupersededShape
<1>3. ASSUME AppendApproved(p), req[p].rel # None
      PROVE  /\ work'[p].id \in BaselineId /\ req'[p].rel \in BaselineId
             /\ HasPackage(req[p].rel)' /\ InState(log, req[p].rel, "SUPERSEDED")'
  <2>1. UNCHANGED <<packages, req, work>>
    BY <1>3 DEF AppendApproved
  <2>2. PICK e \in Event :
          /\ log' = Append(log, e)
          /\ e.type = "APPROVED" /\ e.id = work[p].id /\ e.rel = req[p].rel
          /\ e.id \in BaselineId
          /\ e.rel \in Active(e.id.key)
    BY <1>3, AtApproved
  <2>3. HasPackage(e.rel) /\ e.rel \in BaselineId
    BY <1>0, <2>2 DEF Active, HasPackage, TypeOK, Package
  <2>4. InState(log', e.rel, "SUPERSEDED")
    BY <1>0, <1>3, <2>2, ReduceAppend DEF Affects, Effect
  <2> QED BY <2>1, <2>2, <2>3, <2>4 DEF HasPackage
<1> QED BY <1>1, <1>2, <1>3 DEF ReplacementInProgress

-----------------------------------------------------------------------------
(* The theorems.                                                           *)

\* The inductive invariant is one.
LEMMA InvariantStep == IInv /\ [Next]_vars => IInv'
<1> SUFFICES ASSUME IInv, [Next]_vars PROVE IInv'
  OBVIOUS
<1>1. TypeOK' /\ MutualExclusion'
  BY TypeStep, MutexStep DEF IInv
<1>2. ASSUME NEW p \in Proc, StepOf(p) PROVE IInv'
  BY <1>1, <1>2, RequestStep, ApprovalStep, PinningStep, ReplacementStep, LogIsBackedStep,
     PackagesStep, OneActiveStep, ApprovalIsBackedStep DEF IInv
<1>3. CASE UNCHANGED <<log, packages, cas, pc, req, work>>
  <2>1. IInv
    OBVIOUS
  <2>2. RequestOK' /\ PinningInProgress'
    BY <1>3, <2>1 DEF IInv, RequestOK, PinningInProgress, Approving
  <2>3. \A k, x, s : /\ Active(k)' = Active(k) /\ NoEventAffects(x)' = NoEventAffects(x)
                     /\ InState(log, x, s)' <=> InState(log, x, s)
                     /\ HasPackage(x)' = HasPackage(x) /\ PackageOf(x)' = PackageOf(x)
    BY <1>3 DEF Active, NoEventAffects, InState, HasPackage, PackageOf
  <2>4. ApprovalInProgress'
    BY <1>3, <2>1, <2>3 DEF IInv, ApprovalInProgress, Approving
  <2>5. ReplacementInProgress'
    BY <1>3, <2>1, <2>3 DEF IInv, ReplacementInProgress
  <2>6. LogIsBacked'
    BY <1>3, <2>1 DEF IInv, LogIsBacked, HasPackage
  <2>7. RevisionsBounded' /\ ApprovalIsBacked' /\ PackagesDistinct'
    BY <1>3, <2>1 DEF IInv, RevisionsBounded, ApprovalIsBacked, PackagesDistinct
  <2>8. OneActivePerKey'
    BY <1>3, <2>1, <2>3 DEF IInv, OneActivePerKey
  <2> QED BY <1>1, <2>2, <2>4, <2>5, <2>6, <2>7, <2>8 DEF IInv
<1>4. RemoveStaleLock \/ UNCHANGED vars => UNCHANGED <<log, packages, cas, pc, req, work>>
  BY DEF RemoveStaleLock, vars, files
<1> QED BY <1>2, <1>3, <1>4 DEF Next, StepOf

\* Everything the inductive invariant says holds in every state.
THEOREM InductiveInvariant == Spec => []IInv
BY InitInvariant, InvariantStep, PTL DEF Spec

\* The variables of the repository keep their types (the event, request and
\* package records of tb_runner/baseline_repository.py).
THEOREM TypeCorrect == Spec => []TypeOK
<1>1. IInv => TypeOK
  BY DEF IInv
<1> QED BY <1>1, InductiveInvariant, PTL

\* The lock file excludes: no two operations are ever between taking and
\* releasing it, whatever dies (_lock).
THEOREM MutualExclusionHolds == Spec => []MutualExclusion
<1>1. IInv => MutualExclusion
  BY DEF IInv
<1> QED BY <1>1, InductiveInvariant, PTL

\* However many operators approve, supersede and die, a key has at most one
\* approved baseline (approve, _reduce_states).
THEOREM OneActivePerKeyHolds == Spec => []OneActivePerKey
<1>1. IInv => OneActivePerKey
  BY DEF IInv
<1> QED BY <1>1, InductiveInvariant, PTL

\* An approval in the log has its package and every required artifact on disk
\* (approve, _materialize_artifact_manifest).
THEOREM ApprovalIsBackedHolds == Spec => []ApprovalIsBacked
<1>1. IInv => ApprovalIsBacked
  BY DEF IInv
<1> QED BY <1>1, InductiveInvariant, PTL

\* No package repeats another's identifier or candidate (approve).
THEOREM PackagesDistinctHolds == Spec => []PackagesDistinct
<1>1. IInv => PackagesDistinct
  BY DEF IInv
<1> QED BY <1>1, InductiveInvariant, PTL

-----------------------------------------------------------------------------
(* The repository implements the lifecycle.                                *)

\* The sets of the lifecycle, read off log and packages.
LEMMA InSet ==
  ASSUME NEW x, NEW s
  PROVE  x \in InLifecycleState(s) <=> HasPackage(x) /\ InState(log, x, s)
BY DEF InLifecycleState, HasPackage

\* The same after an event.
LEMMA InSetAppend ==
  ASSUME TypeOK, NEW e \in Event, log' = Append(log, e), UNCHANGED packages, NEW x, NEW s
  PROVE  x \in InLifecycleState(s)' <=>
           /\ HasPackage(x)
           /\ \/ Affects(e, x) /\ Effect(e, x) = s
              \/ ~Affects(e, x) /\ InState(log, x, s)
<1>1. InState(log', x, s) <=> \/ Affects(e, x) /\ Effect(e, x) = s
                              \/ ~Affects(e, x) /\ InState(log, x, s)
  BY ReduceAppend DEF TypeOK
<1>2. x \in InLifecycleState(s)' <=> HasPackage(x) /\ InState(log', x, s)
  BY DEF InLifecycleState, HasPackage, InState
<1> QED BY <1>1, <1>2

\* What is on disk has an identifier.
LEMMA PackagesHaveIds ==
  ASSUME TypeOK, NEW x, HasPackage(x)
  PROVE  x \in BaselineId
BY DEF TypeOK, HasPackage, Package

\* An event that affects no package leaves the lifecycle alone.
LEMMA NoEffectStutters ==
  ASSUME TypeOK, NEW e \in Event, log' = Append(log, e), UNCHANGED packages,
         \A x \in BaselineId : HasPackage(x) => ~Affects(e, x)
  PROVE  \A s : InLifecycleState(s)' = InLifecycleState(s)
<1>1. ASSUME NEW s, NEW x PROVE x \in InLifecycleState(s)' <=> x \in InLifecycleState(s)
  BY <1>1, InSet, InSetAppend, PackagesHaveIds
<1>2. ASSUME NEW s PROVE InLifecycleState(s)' = InLifecycleState(s)
  BY <1>1 DEF InLifecycleState
<1> QED BY <1>2

\* The APPROVED event is the abstract approval: it activates the new baseline
\* and retires the one it names, in one append.
LEMMA ApprovedIsAbstract ==
  ASSUME IInv, NEW p \in Proc, AppendApproved(p)
  PROVE  Lifecycle!Next
<1> DEFINE act == InLifecycleState("APPROVED")
           sup == InLifecycleState("SUPERSEDED")
           arc == InLifecycleState("ARCHIVED")
<1>1. TypeOK /\ log \in Seq(Event)
  BY DEF IInv, TypeOK
<1>2. PICK e \in Event, q \in packages :
        /\ log' = Append(log, e) /\ UNCHANGED packages
        /\ e.type = "APPROVED" /\ q.id = e.id
        /\ e.id \in BaselineId /\ NoEventAffects(e.id)
        /\ Active(e.id.key) \subseteq {e.rel}
        /\ e.rel # None => e.rel \in Active(e.id.key)
  BY AtApproved
<1> DEFINE b == e.id
           r == e.rel
           old == {x \in act : x.key = b.key}
<1>3. b # None /\ HasPackage(b) /\ \A s : ~InState(log, b, s)
  BY <1>2, StateHasEvent, RepositoryAssumption DEF HasPackage, NoEventAffects
<1>4. old = Active(b.key)
  BY DEF InLifecycleState, Active
<1>5. old = IF r = None THEN {} ELSE {r}
  <2>1. ASSUME r = None PROVE old = {}
    <3>1. ~HasPackage(None)
      BY <1>1, PackagesHaveIds, RepositoryAssumption
    <3>2. None \notin act
      BY <3>1, InSet
    <3>3. \A x \in old : x = None
      BY <1>2, <1>4, <2>1
    <3> QED BY <3>2, <3>3
  <2>2. ASSUME r # None PROVE old = {r}
    BY <1>2, <1>4, <2>2
  <2> QED BY <2>1, <2>2
<1>6. r # None => HasPackage(r) /\ InState(log, r, "APPROVED")
  BY <1>2 DEF Active, HasPackage
<1>7. \A x : Affects(e, x) <=> x # None /\ x \in {b, r}
  BY <1>2 DEF Affects
<1>8. Effect(e, b) = "APPROVED" /\ (r # None => Effect(e, r) = "SUPERSEDED" /\ r # b)
  BY <1>2, <1>3, <1>6 DEF Effect
<1>9. \A x, s : x \in InLifecycleState(s)' <=>
        /\ HasPackage(x)
        /\ \/ Affects(e, x) /\ Effect(e, x) = s
           \/ ~Affects(e, x) /\ InState(log, x, s)
  BY <1>1, <1>2, InSetAppend
<1>10. \A x, s : x \in InLifecycleState(s) <=> HasPackage(x) /\ InState(log, x, s)
  BY InSet
<1>11. \A x : HasPackage(x) => x # None
  BY <1>1, PackagesHaveIds, RepositoryAssumption
<1> HIDE DEF b, r, old, act, sup, arc
<1>12. act' = (act \ old) \cup {b}
  <2>1. ASSUME NEW x PROVE x \in act' <=> x = b \/ (x \in act /\ x \notin old)
    <3>1. CASE x = b
      BY <1>3, <1>7, <1>8, <1>9, <3>1 DEF act
    <3>2. CASE x = r /\ x # b
      BY <1>5, <1>7, <1>8, <1>9, <1>10, <1>11, <3>2 DEF act
    <3>3. CASE x # r /\ x # b
      BY <1>5, <1>7, <1>9, <1>10, <3>3 DEF act
    <3> QED BY <3>1, <3>2, <3>3
  <2> QED BY <2>1
<1>13. sup' = sup \cup old
  <2>1. ASSUME NEW x PROVE x \in sup' <=> x \in sup \/ x \in old
    <3>1. CASE x = b
      <4>1. x \notin sup /\ x \notin old /\ x \notin sup'
        BY <1>3, <1>5, <1>7, <1>8, <1>9, <1>10, <3>1 DEF sup
      <4> QED BY <4>1
    <3>2. CASE x = r /\ x # b
      BY <1>5, <1>6, <1>7, <1>8, <1>9, <1>10, <1>11, <3>2 DEF sup
    <3>3. CASE x # r /\ x # b
      BY <1>5, <1>7, <1>9, <1>10, <3>3 DEF sup
    <3> QED BY <3>1, <3>2, <3>3
  <2> QED BY <2>1
<1>14. arc' = arc
  <2>1. ASSUME NEW x PROVE x \in arc' <=> x \in arc
    <3>1. CASE x = b
      BY <1>3, <1>7, <1>8, <1>9, <1>10, <3>1 DEF arc
    <3>2. CASE x = r /\ x # b
      <4>1. r # None => ~InState(log, r, "ARCHIVED")
        BY <1>1, <1>6, StateUnique
      <4> QED BY <1>7, <1>8, <1>9, <1>10, <1>11, <3>2, <4>1 DEF arc
    <3>3. CASE x # r /\ x # b
      BY <1>7, <1>9, <1>10, <3>3 DEF arc
    <3> QED BY <3>1, <3>2, <3>3
  <2> QED BY <2>1 DEF arc, InLifecycleState
<1>15. b \notin act \cup sup \cup arc
  BY <1>3, <1>10 DEF act, sup, arc
<1>16. old = {x \in act : x.key = b.key} /\ \A x, y \in old : x = y
  BY <1>5 DEF old
<1>17. b \in act'
  BY <1>12
<1>18. Lifecycle!Approve(b)
  BY <1>12, <1>13, <1>14, <1>15, <1>16 DEF Lifecycle!Approve, act, sup, arc
<1> QED BY <1>17, <1>18 DEF Lifecycle!Next, act

\* An event that ends a state is an abstract step, or says nothing new.
LEMMA DemotionIsAbstract ==
  ASSUME IInv, NEW e \in Event, log' = Append(log, e), UNCHANGED packages, Demotes(e)
  PROVE  Lifecycle!Next \/ \A s : InLifecycleState(s)' = InLifecycleState(s)
<1> DEFINE act == InLifecycleState("APPROVED")
           sup == InLifecycleState("SUPERSEDED")
           arc == InLifecycleState("ARCHIVED")
<1>1. TypeOK /\ log \in Seq(Event)
  BY DEF IInv, TypeOK
<1>2. CASE \A x \in BaselineId : HasPackage(x) => ~Affects(e, x)
  BY <1>1, <1>2, NoEffectStutters
<1>3. ASSUME NEW b \in BaselineId, HasPackage(b), Affects(e, b)
      PROVE  Lifecycle!Next \/ \A s : InLifecycleState(s)' = InLifecycleState(s)
  <2>1. /\ e.type \in {"SUPERSEDED", "ARCHIVED"}
        /\ InState(log, b, "APPROVED") \/ InState(log, b, "SUPERSEDED")
    BY <1>3 DEF Demotes, Demoting
  <2>2. ASSUME NEW x, Affects(e, x) PROVE x = b
    BY <1>3, <2>1, <2>2 DEF Affects
  <2>3. \A x : Effect(e, x) = e.type
    BY <2>1 DEF Effect
  <2>4. ASSUME NEW x, NEW s
        PROVE  x \in InLifecycleState(s)' <=> /\ HasPackage(x)
                                              /\ \/ x = b /\ e.type = s
                                                 \/ x # b /\ InState(log, x, s)
    BY <1>1, <1>3, <2>2, <2>3, InSetAppend
  <2>5. ASSUME NEW x, NEW s
        PROVE  x \in InLifecycleState(s) <=> HasPackage(x) /\ InState(log, x, s)
    BY InSet
  <2>6. ASSUME NEW s, NEW t, InState(log, b, s), InState(log, b, t) PROVE s = t
    BY <1>1, <2>6, StateUnique
  <2>7. CASE e.type = "SUPERSEDED" /\ InState(log, b, "SUPERSEDED")
    <3>1. ASSUME NEW x, NEW s PROVE x \in InLifecycleState(s)' <=> x \in InLifecycleState(s)
      BY <1>3, <2>4, <2>5, <2>6, <2>7
    <3>2. ASSUME NEW s PROVE InLifecycleState(s)' = InLifecycleState(s)
      BY <3>1 DEF InLifecycleState
    <3> QED BY <3>2
  <2>8. CASE e.type = "SUPERSEDED" /\ InState(log, b, "APPROVED")
    <3>1. \A x : x \in act' <=> x \in act /\ x # b
      BY <2>4, <2>5, <2>8
    <3>2. \A x : x \in sup' <=> x \in sup \/ x = b
      BY <1>3, <2>4, <2>5, <2>8
    <3>3. \A x : x \in arc' <=> x \in arc
      BY <2>4, <2>5, <2>6, <2>8
    <3>4. b \in act
      BY <1>3, <2>5, <2>8
    <3> HIDE DEF act, sup, arc
    <3>5. /\ b \in sup'
          /\ act' = act \ {b}
          /\ sup' = sup \cup {b}
      BY <3>1, <3>2
    <3>6. arc' = arc
      BY <3>3 DEF arc, InLifecycleState
    <3> QED BY <3>4, <3>5, <3>6 DEF Lifecycle!Next, Lifecycle!Supersede, act, sup, arc
  <2>9. CASE e.type = "ARCHIVED"
    <3>1. \A x : x \in act' <=> x \in act /\ x # b
      BY <2>4, <2>5, <2>9
    <3>2. \A x : x \in sup' <=> x \in sup /\ x # b
      BY <2>4, <2>5, <2>9
    <3>3. \A x : x \in arc' <=> x \in arc \/ x = b
      BY <1>3, <2>4, <2>5, <2>9
    <3>4. b \in act \cup sup
      BY <1>3, <2>1, <2>5
    <3> HIDE DEF act, sup, arc
    <3>5. /\ b \in arc'
          /\ act' = act \ {b}
          /\ sup' = sup \ {b}
          /\ arc' = arc \cup {b}
      BY <3>1, <3>2, <3>3
    <3> QED BY <3>4, <3>5 DEF Lifecycle!Next, Lifecycle!Archive, act, sup, arc
  <2> QED BY <2>1, <2>7, <2>8, <2>9
<1> QED BY <1>2, <1>3

\* Every step of the repository is a step of the lifecycle or a stutter.
LEMMA RefinementStep ==
  ASSUME IInv, [Next]_vars
  PROVE  [Lifecycle!Next]_(Lifecycle!lifecycle)
<1>1. TypeOK
  BY DEF IInv
<1>2. ASSUME \A s : InLifecycleState(s)' = InLifecycleState(s)
      PROVE  [Lifecycle!Next]_(Lifecycle!lifecycle)
  BY <1>2 DEF Lifecycle!lifecycle
<1>3. ASSUME UNCHANGED <<log, packages>> PROVE [Lifecycle!Next]_(Lifecycle!lifecycle)
  BY <1>2, <1>3 DEF InLifecycleState, InState
<1>4. ASSUME NEW p \in Proc, StepOf(p) PROVE [Lifecycle!Next]_(Lifecycle!lifecycle)
  <2>1. CASE UNCHANGED <<log, packages>> /\ cas \subseteq cas'
    BY <1>3, <2>1
  <2>2. CASE /\ UNCHANGED <<packages, cas>>
             /\ \E e \in Event : log' = Append(log, e) /\ e.type \in Neutral
    BY <1>1, <1>2, <2>2, NeutralAffectsNothing, NoEffectStutters
  <2>3. CASE PublishPackage(p)
    <3>1. PICK q \in Package : /\ packages' = packages \cup {q} /\ NoEventAffects(q.id)
                               /\ UNCHANGED log
      BY <2>3, AtPublish
    <3>2. \A s : ~InState(log, q.id, s)
      BY <3>1, StateHasEvent DEF NoEventAffects
    <3>3. \A x, s : InState(log, x, s)' <=> InState(log, x, s)
      BY <3>1 DEF InState
    <3>4. ASSUME NEW s PROVE InLifecycleState(s)' = InLifecycleState(s)
      BY <3>1, <3>2, <3>3 DEF InLifecycleState
    <3> QED BY <1>2, <3>4
  <2>4. CASE AppendApproved(p)
    BY <2>4, ApprovedIsAbstract
  <2>5. CASE /\ UNCHANGED <<packages, cas>>
             /\ \E e \in Event : log' = Append(log, e) /\ Demotes(e)
    BY <1>2, <2>5, DemotionIsAbstract
  <2> QED BY <1>4, <2>1, <2>2, <2>3, <2>4, <2>5, FilesStep
<1>5. RemoveStaleLock \/ UNCHANGED vars => UNCHANGED <<log, packages>>
  BY DEF RemoveStaleLock, vars, files
<1> QED BY <1>3, <1>4, <1>5 DEF Next, StepOf

\* The repository, its log, lock, crashes and all, implements the lifecycle:
\* a baseline is approved once, replaces its predecessor in one step, and never
\* comes back (_reduce_states over what approve, supersede and archive append).
THEOREM LifecycleImplemented == Spec => ImplementsLifecycle
<1>1. Init => Lifecycle!Init
  BY DEF Init, Lifecycle!Init, InLifecycleState
<1>2. IInv /\ [Next]_vars => [Lifecycle!Next]_(Lifecycle!lifecycle)
  BY RefinementStep
<1> QED BY <1>1, <1>2, InductiveInvariant, PTL DEF Spec, ImplementsLifecycle, Lifecycle!Spec

-----------------------------------------------------------------------------
(* The catalog.                                                            *)

\* What the catalog and the indexes have seen of the log is in the log.
CatalogSeen ==
  /\ catalog # None => catalog.count <= Len(log)
  /\ index # None => index.count <= Len(log)

CatalogInv == SnapshotIsFresh /\ CatalogSeen

\* The log never gets shorter.
LEMMA LogGrows ==
  ASSUME IInv, NEW p \in Proc, StepOf(p)
  PROVE  Len(log) <= Len(log')
<1>1. log \in Seq(Event)
  BY DEF IInv, TypeOK
<1>2. AppendApproved(p) => \E e \in Event : log' = Append(log, e)
  BY AtApproved
<1>3. PublishPackage(p) => log' = log
  BY DEF PublishPackage
<1>4. log' = log \/ \E e \in Event : log' = Append(log, e)
  BY <1>2, <1>3, FilesStep
<1> QED BY <1>1, <1>4

\* Who writes the catalog and the indexes, and what.
LEMMA CatalogStep ==
  ASSUME TypeOK, NEW p \in Proc, StepOf(p)
  PROVE  /\ catalog' = catalog \/ (pc[p] = "catalog" /\ catalog' = work[p].snap)
         /\ index' = index \/ (pc[p] = "index" /\ index' = work[p].snap)
<1> USE DEF Goto, Begin, files
<1>1. CASE AskSome(p)
  BY <1>1, AskShape DEF Ask
<1>2. CASE Approve(p)
  BY <1>2 DEF Approve, ApproveInvalid, ApproveRefused, ApproveAccepted, PinArtifact,
    SkipOptional, PinFailed, PrivacyFailed, StagePackage, PublishPackage,
    AppendValidated, AppendPinned, AppendApproved, AppendSuperseded
<1>3. CASE Reject(p) \/ Supersede(p) \/ Archive(p)
  BY <1>3 DEF Reject, Supersede, Archive, Record
<1>4. CASE AcquireLock(p) \/ LockTimeout(p) \/ ReadTornLog(p) \/ Unlock(p) \/ Rebuild(p)
           \/ ReadSnapshot(p) \/ WriteCatalog(p) \/ WriteIndex(p)
  BY <1>4 DEF AcquireLock, LockTimeout, ReadTornLog, Unlock, Rebuild, ReadSnapshot,
    WriteCatalog, WriteIndex
<1>5. CASE Crash(p) \/ RaiseError(p) \/ LockWriteFails(p)
  BY <1>5 DEF Crash, RaiseError, LockWriteFails
<1> QED BY <1>1, <1>2, <1>3, <1>4, <1>5 DEF StepOf, Step

\* A process gets to writing by taking a snapshot, and keeps it meanwhile.
LEMMA SnapshotStep ==
  ASSUME IInv, SnapshotIsFresh, NEW p \in Proc, StepOf(p)
  PROVE  SnapshotIsFresh'
<1> USE DEF Goto, Begin
<1>1. TypeOK /\ MutualExclusion /\ p \in DOMAIN pc /\ p \in DOMAIN work /\ work[p] \in Work
  BY DEF IInv, TypeOK
<1>2. ASSUME UNCHANGED <<log, packages>> PROVE Len(log') = Len(log) /\ AllActive' = AllActive
  BY <1>2 DEF AllActive, InState
<1>3. ASSUME NEW q \in Proc, q # p, pc'[q] \in {"catalog", "index"}
      PROVE  work'[q].snap = [count |-> Len(log'), active |-> AllActive']
  <2>1. pc'[q] = pc[q] /\ work'[q] = work[q]
    BY <1>1, <1>3, OthersKeep
  <2>2. UNCHANGED <<log, packages>>
    BY <1>1, <1>3, <2>1, OthersWait DEF Holding
  <2> QED BY <1>2, <1>3, <2>1, <2>2 DEF SnapshotIsFresh
<1>4. ASSUME pc'[p] \in {"catalog", "index"}
      PROVE  work'[p].snap = [count |-> Len(log'), active |-> AllActive']
  <2>1. ~AskSome(p)
    BY <1>1, <1>4, AskShape DEF Ask
  <2>2. ~Approve(p)
    BY <1>1, <1>4 DEF Approve, ApproveInvalid, ApproveRefused, ApproveAccepted, PinArtifact,
      SkipOptional, PinFailed, PrivacyFailed, StagePackage, PublishPackage,
      AppendValidated, AppendPinned, AppendApproved, AppendSuperseded
  <2>3. ~(Reject(p) \/ Supersede(p) \/ Archive(p) \/ Crash(p) \/ RaiseError(p) \/ LockWriteFails(p))
    BY <1>1, <1>4 DEF Reject, Supersede, Archive, Record, Crash, RaiseError, LockWriteFails
  <2>4. ~(AcquireLock(p) \/ LockTimeout(p) \/ ReadTornLog(p) \/ Unlock(p) \/ Rebuild(p)
          \/ WriteIndex(p))
    BY <1>1, <1>4 DEF AcquireLock, LockTimeout, ReadTornLog, Unlock, Rebuild, WriteIndex
  <2>5. ReadSnapshot(p) \/ WriteCatalog(p)
    BY <2>1, <2>2, <2>3, <2>4 DEF StepOf, Step
  <2>6. UNCHANGED <<log, packages>>
    BY <2>5 DEF ReadSnapshot, WriteCatalog, files
  <2>7. ASSUME ReadSnapshot(p)
        PROVE  work'[p].snap = [count |-> Len(log), active |-> AllActive]
    BY <1>1, <2>7 DEF ReadSnapshot, Work
  <2>8. ASSUME WriteCatalog(p)
        PROVE  work'[p].snap = [count |-> Len(log), active |-> AllActive]
    BY <1>1, <2>8 DEF WriteCatalog, SnapshotIsFresh
  <2> QED BY <1>2, <2>5, <2>6, <2>7, <2>8
<1> QED BY <1>3, <1>4 DEF SnapshotIsFresh

\* The catalog's part of the induction, and what a step does to the catalog.
LEMMA CatalogInvStep ==
  ASSUME IInv, CatalogInv, [Next]_vars
  PROVE  /\ CatalogInv'
         /\ catalog # None => catalog' # None /\ catalog'.count >= catalog.count
         /\ index # None => index' # None /\ index'.count >= index.count
<1>1. /\ TypeOK /\ catalog \in Snapshot \cup {None} /\ index \in Snapshot \cup {None}
      /\ Len(log) \in Nat
  BY DEF IInv, TypeOK
<1>2. (catalog # None => catalog.count \in Nat) /\ (index # None => index.count \in Nat)
  BY <1>1 DEF Snapshot
<1>3. ASSUME NEW p \in Proc, StepOf(p)
      PROVE  /\ CatalogInv'
             /\ catalog # None => catalog' # None /\ catalog'.count >= catalog.count
             /\ index # None => index' # None /\ index'.count >= index.count
  <2>1. SnapshotIsFresh'
    BY <1>3, SnapshotStep DEF CatalogInv
  <2>2. Len(log) <= Len(log') /\ Len(log') \in Nat
    <3>1. TypeOK'
      BY TypeStep
    <3>2. Len(log') \in Nat
      BY <3>1 DEF TypeOK
    <3> QED BY <1>3, <3>2, LogGrows
  <2>3. ASSUME pc[p] \in {"catalog", "index"}
        PROVE  work[p].snap # None /\ work[p].snap.count = Len(log)
    <3>1. work[p].snap = [count |-> Len(log), active |-> AllActive]
      BY <2>3 DEF CatalogInv, SnapshotIsFresh
    <3>2. AllActive \subseteq BaselineId
      BY <1>1 DEF AllActive, TypeOK, Package
    <3>3. work[p].snap \in Snapshot
      BY <1>1, <3>1, <3>2 DEF Snapshot
    <3> QED BY <3>1, <3>3, RepositoryAssumption
  <2> QED BY <1>1, <1>2, <1>3, <2>1, <2>2, <2>3, CatalogStep DEF CatalogInv, CatalogSeen
<1>4. ASSUME RemoveStaleLock \/ UNCHANGED vars
      PROVE  UNCHANGED <<log, packages, catalog, index, pc, work>>
  BY <1>4 DEF RemoveStaleLock, vars, files
<1>5. ASSUME UNCHANGED <<log, packages, catalog, index, pc, work>>
      PROVE  /\ CatalogInv'
             /\ catalog # None => catalog' # None /\ catalog'.count >= catalog.count
             /\ index # None => index' # None /\ index'.count >= index.count
  BY <1>2, <1>5 DEF CatalogInv, CatalogSeen, SnapshotIsFresh, AllActive, InState
<1> QED BY <1>3, <1>4, <1>5 DEF Next, StepOf

\* The log is read and the catalog and indexes are written with nothing in
\* between that changes what was read (rebuild_indexes under _lock).
THEOREM SnapshotIsFreshHolds == Spec => []SnapshotIsFresh
<1>1. Init => CatalogInv
  BY DEF Init, CatalogInv, SnapshotIsFresh, CatalogSeen
<1>2. IInv /\ CatalogInv /\ [Next]_vars => CatalogInv'
  BY CatalogInvStep
<1>3. CatalogInv => SnapshotIsFresh
  BY DEF CatalogInv
<1> QED BY <1>1, <1>2, <1>3, InductiveInvariant, PTL DEF Spec

\* The catalog and the indexes never go back to an older view of the log
\* (rebuild_indexes).
THEOREM CatalogNeverRegressesHolds == Spec => CatalogNeverRegresses
<1>1. Init => CatalogInv
  BY DEF Init, CatalogInv, SnapshotIsFresh, CatalogSeen
<1>2. IInv /\ CatalogInv /\ [Next]_vars => CatalogInv'
  BY CatalogInvStep
<1>3. IInv /\ CatalogInv /\ [Next]_vars =>
        [/\ catalog # None => catalog' # None /\ catalog'.count >= catalog.count
         /\ index # None => index' # None /\ index'.count >= index.count]_<<catalog, index>>
  BY CatalogInvStep
<1> QED BY <1>1, <1>2, <1>3, InductiveInvariant, PTL DEF Spec, CatalogNeverRegresses

=============================================================================
