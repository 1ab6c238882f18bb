-------------------------- MODULE BaselineRepository --------------------------
(***************************************************************************)
(* The approved-baseline repository (tb_runner/baseline_repository.py):    *)
(* operators run approve, reject, supersede, archive and rebuild-index as  *)
(* processes of their own against one directory.  The directory holds an   *)
(* append-only lifecycle log, immutable packages, pinned artifacts, and a  *)
(* catalog with per-app indexes that are caches of the first two.  A lock  *)
(* file made with O_EXCL serialises the writers.  A process may die, and a *)
(* system call may fail, between any two of its writes.                    *)
(***************************************************************************)
EXTENDS Naturals, Sequences, FiniteSets

CONSTANTS
  Proc,        \* operator processes (CLI invocations, one at a time each)
  Cand,        \* baseline candidates
  Key,         \* BaselineKey digests
  Artifact,    \* artifact digests
  KeyOf,       \* the BaselineKey each candidate produces
  Required,    \* the artifacts each candidate's manifest marks required
  None,        \* an absent value
  Stale,       \* the holder of a lock file whose process has died
  MaxLog,      \* bound: once the log has this length only rebuilds begin
  MaxFault     \* bound: number of crashes and failed system calls

BaselineId == [key : Key, rev : Nat]

\* What the catalog and the indexes are written from: how many events the log
\* had, and the active baselines.
Snapshot == [count : Nat, active : SUBSET BaselineId]

ASSUME RepositoryAssumption ==
  /\ KeyOf \in [Cand -> Key]
  /\ Required \in [Cand -> SUBSET Artifact]
  /\ None \notin Proc \cup Cand \cup Key
  /\ Stale \notin Proc \cup {None}
  /\ \A c \in Cand : c \notin BaselineId
  /\ None \notin BaselineId \cup Snapshot
  /\ MaxLog \in Nat
  /\ MaxFault \in Nat

VARIABLES
  lock,      \* .repository.lock: None when absent, its owner, or Stale
  log,       \* lifecycle.jsonl
  torn,      \* the last line of lifecycle.jsonl is incomplete
  packages,  \* directories <app>/baseline_<key>_r<rev>/
  staged,    \* how many .baseline_*.tmp-* directories a dead process left
  cas,       \* artifacts in the content-addressed store
  catalog,   \* catalog.json, None while it does not exist
  index,     \* the app index.json files, written after the catalog
  pc,        \* where each process is
  req,       \* the operation each process was asked for
  work,      \* the local variables of each process's operation
  faults     \* crashes and failed system calls so far

files == <<log, torn, packages, staged, cas, catalog, index>>
vars == <<lock, files, pc, req, work, faults>>

-----------------------------------------------------------------------------
(* The lifecycle log.                                                      *)

EventType == {"CANDIDATE_VALIDATED", "ARTIFACT_PINNED", "APPROVED", "SUPERSEDED",
              "REJECTED", "ARCHIVED", "VALIDATION_FAILED"}

\* rel is "supersedes" in an APPROVED event, "superseded_by" in a SUPERSEDED one.
Event == [type : EventType, id : BaselineId \cup {None},
          cand : Cand \cup {None}, rel : BaselineId \cup {None}]

EventOf(t, b, c, r) == [type |-> t, id |-> b, cand |-> c, rel |-> r]

\* Which identifiers (baselines and candidates share one map) an event sets.
Affects(e, x) ==
  /\ x # None
  /\ \/ e.type = "APPROVED" /\ x \in {e.id, e.rel}
     \/ e.type = "SUPERSEDED" /\ x = e.id
     \/ e.type = "REJECTED" /\ x = e.cand
     \/ e.type = "ARCHIVED" /\ x = (IF e.id # None THEN e.id ELSE e.cand)

Effect(e, x) == IF e.type = "APPROVED" /\ x = e.rel THEN "SUPERSEDED" ELSE e.type

\* The reduction of the log: the last event that affects x decides its state.
InState(l, x, s) ==
  \E i \in 1..Len(l) :
    /\ Affects(l[i], x)
    /\ Effect(l[i], x) = s
    /\ \A j \in (i+1)..Len(l) : ~Affects(l[j], x)

Links(e, x) == e.rel # None /\ \/ e.type = "APPROVED" /\ x = e.rel
                               \/ e.type = "SUPERSEDED" /\ x = e.id

\* superseded_by[x] = y: the last event that links x wins.
SupersededBy(l, x, y) ==
  \E i \in 1..Len(l) :
    /\ Links(l[i], x)
    /\ y = (IF l[i].type = "APPROVED" THEN l[i].id ELSE l[i].rel)
    /\ \A j \in (i+1)..Len(l) : ~Links(l[j], x)

-----------------------------------------------------------------------------
(* Packages and revisions.                                                 *)

Package == [id : BaselineId, cand : Cand, refs : SUBSET Artifact]

HasPackage(b) == \E q \in packages : q.id = b

Active(k) == {q.id : q \in {r \in packages : r.id.key = k /\ InState(log, r.id, "APPROVED")}}

AllActive == {q.id : q \in {r \in packages : InState(log, r.id, "APPROVED")}}

Revisions(k) == {q.id.rev : q \in {r \in packages : r.id.key = k}}

MaxRevision(k) == CHOOSE m \in Revisions(k) \cup {0} : \A r \in Revisions(k) : r <= m

NextRevision(k) == MaxRevision(k) + 1

NoRequest == [kind |-> "none", cand |-> None, id |-> None, rel |-> None]

Request == [kind : {"none", "approve", "reject", "supersede", "archive", "rebuild"},
            cand : Cand \cup {None}, id : BaselineId \cup {None},
            rel : BaselineId \cup {None}]

NoWork == [id |-> None, refs |-> {}, todo |-> {}, snap |-> None]

Work == [id : BaselineId \cup {None}, refs : SUBSET Artifact,
         todo : SUBSET Artifact, snap : Snapshot \cup {None}]

PC == {"idle", "waiting", "locked", "pin", "publish", "validated", "pinned",
       "superseded", "rebuild", "catalog", "index", "unlock"}

Init ==
  /\ lock = None
  /\ log = <<>>
  /\ torn = FALSE
  /\ packages = {}
  /\ staged = 0
  /\ cas = {}
  /\ catalog = None
  /\ index = None
  /\ pc = [p \in Proc |-> "idle"]
  /\ req = [p \in Proc |-> NoRequest]
  /\ work = [p \in Proc |-> NoWork]
  /\ faults = 0

-----------------------------------------------------------------------------
(* Asking for an operation, and the lock.                                  *)

Goto(p, here, there) ==
  /\ pc[p] = here
  /\ pc' = [pc EXCEPT ![p] = there]

\* What an operator can name: a package that exists when the command is typed.
KnownId == {q.id : q \in packages}

Ask(p, r) ==
  /\ Len(log) < MaxLog \/ r.kind = "rebuild"
  /\ Goto(p, "idle", "waiting")
  /\ req' = [req EXCEPT ![p] = r]
  /\ UNCHANGED <<lock, files, work, faults>>

AskSome(p) ==
  \/ \E c \in Cand, s \in KnownId \cup {None} :
       Ask(p, [kind |-> "approve", cand |-> c, id |-> None, rel |-> s])
  \/ \E c \in Cand : Ask(p, [kind |-> "reject", cand |-> c, id |-> None, rel |-> None])
  \/ \E b, s \in KnownId : Ask(p, [kind |-> "supersede", cand |-> None, id |-> b, rel |-> s])
  \/ \E b \in KnownId : Ask(p, [kind |-> "archive", cand |-> None, id |-> b, rel |-> None])
  \/ \E c \in Cand : Ask(p, [kind |-> "archive", cand |-> c, id |-> None, rel |-> None])
  \/ Ask(p, [kind |-> "rebuild", cand |-> None, id |-> None, rel |-> None])

\* Mutant: the lock file is opened without O_EXCL.
AcquireAnyway(p) ==
  /\ Goto(p, "waiting", "locked")
  /\ lock' = p
  /\ UNCHANGED <<files, req, work, faults>>

AcquireLock(p) ==
  /\ lock = None
  /\ Goto(p, "waiting", "locked")
  /\ lock' = p
  /\ UNCHANGED <<files, req, work, faults>>

\* Mutant: a writer waits as long as the lock file exists.
NeverTimeout(p) == FALSE /\ UNCHANGED vars

\* Mutant: "finally" unlinks the lock file also when it was never taken.
TimeoutUnlinks(p) ==
  /\ lock # None
  /\ Goto(p, "waiting", "idle")
  /\ lock' = None
  /\ req' = [req EXCEPT ![p] = NoRequest]
  /\ UNCHANGED <<files, work, faults>>

\* The deadline passes while the lock file still exists.
LockTimeout(p) ==
  /\ lock # None
  /\ Goto(p, "waiting", "idle")
  /\ req' = [req EXCEPT ![p] = NoRequest]
  /\ UNCHANGED <<lock, files, work, faults>>

\* The operation has ended, in success or in an error; "finally" unlinks.
Unlock(p) ==
  /\ Goto(p, "unlock", "idle")
  /\ lock' = None
  /\ req' = [req EXCEPT ![p] = NoRequest]
  /\ work' = [work EXCEPT ![p] = NoWork]
  /\ UNCHANGED <<files, faults>>

\* Reading a log whose last line is incomplete raises, whatever the operation.
ReadTornLog(p) ==
  /\ torn
  /\ Goto(p, "locked", "unlock")
  /\ UNCHANGED <<lock, files, req, work, faults>>

Append1(e) == log' = Append(log, e)

Begin(p, kind) == pc[p] = "locked" /\ req[p].kind = kind /\ ~torn

-----------------------------------------------------------------------------
(* approve                                                                 *)

\* Offline revalidation or the reviewed limitations fail under the lock.
ApproveInvalid(p) ==
  /\ Begin(p, "approve")
  /\ Goto(p, "locked", "rebuild")
  /\ Append1(EventOf("VALIDATION_FAILED", None, req[p].cand, None))
  /\ UNCHANGED <<lock, torn, packages, staged, cas, catalog, index, req, work, faults>>

AlreadyApproved(c) ==
  \E i \in 1..Len(log) : log[i].type = "APPROVED" /\ log[i].cand = c

PackageOf(c) == \E q \in packages : q.cand = c

\* Mutant: the active baseline need not be named when another is approved.
MaySupersedeUnnamed(k, s) ==
  s # None => HasPackage(s) /\ InState(log, s, "APPROVED") /\ s.key = k

\* What the code requires of "supersedes" given the active baselines of the key.
MaySupersede(k, s) ==
  /\ \A b1, b2 \in Active(k) : b1 = b2
  /\ Active(k) # {} => s \in Active(k)
  /\ s # None => HasPackage(s) /\ InState(log, s, "APPROVED") /\ s.key = k

\* Mutant: a package without an APPROVED event does not stop its candidate.
ApprovableOrphan(c, s) ==
  /\ ~AlreadyApproved(c)
  /\ MaySupersede(KeyOf[c], s)
  /\ ~HasPackage([key |-> KeyOf[c], rev |-> NextRevision(KeyOf[c])])

Approvable(c, s) ==
  /\ ~AlreadyApproved(c)
  /\ ~PackageOf(c)
  /\ MaySupersede(KeyOf[c], s)
  /\ ~HasPackage([key |-> KeyOf[c], rev |-> NextRevision(KeyOf[c])])

ApproveRefused(p) ==
  /\ Begin(p, "approve")
  /\ ~Approvable(req[p].cand, req[p].rel)
  /\ Goto(p, "locked", "unlock")
  /\ UNCHANGED <<lock, files, req, work, faults>>

ApproveAccepted(p) ==
  LET c == req[p].cand IN
  /\ Begin(p, "approve")
  /\ Approvable(c, req[p].rel)
  /\ Goto(p, "locked", "pin")
  /\ work' = [work EXCEPT ![p] =
        [NoWork EXCEPT !.id = [key |-> KeyOf[c], rev |-> NextRevision(KeyOf[c])],
                       !.todo = Artifact]]
  /\ UNCHANGED <<lock, files, req, faults>>

\* One artifact copied into the store, or found there with the right digest.
PinInStore(a) == cas' = cas \cup {a}

PinArtifact(p, a) ==
  /\ pc[p] = "pin"
  /\ a \in work[p].todo
  /\ PinInStore(a)
  /\ work' = [work EXCEPT ![p].todo = @ \ {a}, ![p].refs = @ \cup {a}]
  /\ UNCHANGED <<lock, log, torn, packages, staged, catalog, index, pc, req, faults>>

\* Mutant: a pin that fails is a warning for a required artifact too.
SkipAny(p, a) ==
  /\ pc[p] = "pin"
  /\ a \in work[p].todo
  /\ work' = [work EXCEPT ![p].todo = @ \ {a}]
  /\ UNCHANGED <<lock, files, pc, req, faults>>

\* An optional artifact that the policy does not pin, or that cannot be pinned.
SkipOptional(p, a) ==
  /\ pc[p] = "pin"
  /\ a \in work[p].todo \ Required[req[p].cand]
  /\ work' = [work EXCEPT ![p].todo = @ \ {a}]
  /\ UNCHANGED <<lock, files, pc, req, faults>>

PinFailed(p) ==
  /\ Goto(p, "pin", "rebuild")
  /\ work[p].todo \cap Required[req[p].cand] # {}
  /\ Append1(EventOf("VALIDATION_FAILED", None, req[p].cand, None))
  /\ UNCHANGED <<lock, torn, packages, staged, cas, catalog, index, req, work, faults>>

\* The privacy check raises after its event without rebuilding the indexes.
PrivacyFailed(p) ==
  /\ work[p].todo = {}
  /\ Goto(p, "pin", "unlock")
  /\ Append1(EventOf("VALIDATION_FAILED", None, req[p].cand, None))
  /\ UNCHANGED <<lock, torn, packages, staged, cas, catalog, index, req, work, faults>>

\* The temporary directory exists exactly while its process is at "publish".
StagePackage(p) ==
  /\ work[p].todo = {}
  /\ Goto(p, "pin", "publish")
  /\ UNCHANGED <<lock, files, req, work, faults>>

\* Mutant: baseline.json is written without its baseline_id.
PublishNameless(p) ==
  /\ Goto(p, "publish", "validated")
  /\ packages' = packages \cup
        {[id |-> None, cand |-> req[p].cand, refs |-> work[p].refs]}
  /\ UNCHANGED <<lock, log, torn, staged, cas, catalog, index, req, work, faults>>

\* os.replace(temporary, destination)
PublishPackage(p) ==
  /\ Goto(p, "publish", "validated")
  /\ packages' = packages \cup
        {[id |-> work[p].id, cand |-> req[p].cand, refs |-> work[p].refs]}
  /\ UNCHANGED <<lock, log, torn, staged, cas, catalog, index, req, work, faults>>

AppendValidated(p) ==
  /\ Goto(p, "validated", "pinned")
  /\ Append1(EventOf("CANDIDATE_VALIDATED", None, req[p].cand, None))
  /\ work' = [work EXCEPT ![p].todo = work[p].refs]
  /\ UNCHANGED <<lock, torn, packages, staged, cas, catalog, index, req, faults>>

AppendPinned(p, a) ==
  /\ pc[p] = "pinned"
  /\ a \in work[p].todo
  /\ Append1(EventOf("ARTIFACT_PINNED", work[p].id, req[p].cand, None))
  /\ work' = [work EXCEPT ![p].todo = @ \ {a}]
  /\ UNCHANGED <<lock, torn, packages, staged, cas, catalog, index, pc, req, faults>>

\* Mutant: the replaced baseline is left to the SUPERSEDED event alone.
AppendApprovedAlone(p) ==
  /\ work[p].todo = {}
  /\ Goto(p, "pinned", IF req[p].rel # None THEN "superseded" ELSE "rebuild")
  /\ Append1(EventOf("APPROVED", work[p].id, req[p].cand, None))
  /\ UNCHANGED <<lock, torn, packages, staged, cas, catalog, index, req, work, faults>>

AppendApproved(p) ==
  /\ work[p].todo = {}
  /\ Goto(p, "pinned", IF req[p].rel # None THEN "superseded" ELSE "rebuild")
  /\ Append1(EventOf("APPROVED", work[p].id, req[p].cand, req[p].rel))
  /\ UNCHANGED <<lock, torn, packages, staged, cas, catalog, index, req, work, faults>>

AppendSuperseded(p) ==
  /\ Goto(p, "superseded", "rebuild")
  /\ Append1(EventOf("SUPERSEDED", req[p].rel, req[p].cand, work[p].id))
  /\ UNCHANGED <<lock, torn, packages, staged, cas, catalog, index, req, work, faults>>

-----------------------------------------------------------------------------
(* reject, supersede, archive: one event each, then the indexes.           *)

\* Mutant: the event is recorded and the indexes are not rebuilt.
RecordOnly(p, allowed, e) ==
  /\ Goto(p, "locked", "unlock")
  /\ IF allowed THEN Append1(e) ELSE UNCHANGED log
  /\ UNCHANGED <<lock, torn, packages, staged, cas, catalog, index, req, work, faults>>

Record(p, allowed, e) ==
  /\ Goto(p, "locked", IF allowed THEN "rebuild" ELSE "unlock")
  /\ IF allowed THEN Append1(e) ELSE UNCHANGED log
  /\ UNCHANGED <<lock, torn, packages, staged, cas, catalog, index, req, work, faults>>

Reject(p) ==
  LET c == req[p].cand IN
  /\ Begin(p, "reject")
  /\ Record(p, ~InState(log, c, "REJECTED") /\ ~InState(log, c, "ARCHIVED"),
            EventOf("REJECTED", None, c, None))

\* Mutant: the keys of the two baselines are not compared.
SupersedeAcrossKeys(p) ==
  LET b == req[p].id
      s == req[p].rel IN
  /\ Begin(p, "supersede")
  /\ Record(p, /\ HasPackage(b) /\ HasPackage(s)
               /\ InState(log, b, "APPROVED") /\ InState(log, s, "APPROVED"),
            EventOf("SUPERSEDED", b, None, s))

Supersede(p) ==
  LET b == req[p].id
      s == req[p].rel IN
  /\ Begin(p, "supersede")
  /\ Record(p, /\ HasPackage(b) /\ HasPackage(s)
               /\ InState(log, b, "APPROVED") /\ InState(log, s, "APPROVED")
               /\ b.key = s.key,
            EventOf("SUPERSEDED", b, None, s))

Archive(p) ==
  LET b == req[p].id
      c == req[p].cand
      x == IF b # None THEN b ELSE c IN
  /\ Begin(p, "archive")
  /\ Record(p, \E s \in {"APPROVED", "REJECTED", "SUPERSEDED"} : InState(log, x, s),
            EventOf("ARCHIVED", b, c, None))

Rebuild(p) ==
  /\ Begin(p, "rebuild")
  /\ Goto(p, "locked", "rebuild")
  /\ UNCHANGED <<lock, files, req, work, faults>>

-----------------------------------------------------------------------------
(* rebuild_indexes                                                         *)

\* Two active baselines of one key make the rebuild raise.
ReadSnapshot(p) ==
  /\ Goto(p, "rebuild", IF \E b1, b2 \in AllActive : b1 # b2 /\ b1.key = b2.key
                        THEN "unlock" ELSE "catalog")
  /\ work' = [work EXCEPT ![p].snap = [count |-> Len(log), active |-> AllActive]]
  /\ UNCHANGED <<lock, files, req, faults>>

WriteCatalog(p) ==
  /\ Goto(p, "catalog", "index")
  /\ catalog' = work[p].snap
  /\ UNCHANGED <<lock, log, torn, packages, staged, cas, index, req, work, faults>>

WriteIndex(p) ==
  /\ Goto(p, "index", "unlock")
  /\ index' = work[p].snap
  /\ UNCHANGED <<lock, log, torn, packages, staged, cas, catalog, req, work, faults>>

-----------------------------------------------------------------------------
(* Faults.                                                                 *)

Holding == {"locked", "pin", "publish", "validated", "pinned", "superseded",
            "rebuild", "catalog", "index", "unlock"}

\* The steps that write to lifecycle.jsonl, where a write may be cut short.
Appending == {"locked", "pin", "validated", "pinned", "superseded"}

CutShort(p) == UNCHANGED torn \/ (pc[p] \in Appending /\ torn' = TRUE)

\* The process dies: the lock file and a staged directory stay behind.
Crash(p) ==
  /\ faults < MaxFault
  /\ pc[p] # "idle"
  /\ pc' = [pc EXCEPT ![p] = "idle"]
  /\ lock' = IF pc[p] \in Holding THEN Stale ELSE lock
  /\ CutShort(p)
  /\ req' = [req EXCEPT ![p] = NoRequest]
  /\ work' = [work EXCEPT ![p] = NoWork]
  /\ staged' = IF pc[p] = "publish" THEN staged + 1 ELSE staged
  /\ faults' = faults + 1
  /\ UNCHANGED <<log, packages, cas, catalog, index>>

\* A system call raises: the exception leaves through the lock's "finally",
\* and at "publish" through the rmtree of the temporary directory.
RaiseError(p) ==
  /\ faults < MaxFault
  /\ pc[p] \in Holding \ {"unlock"}
  /\ pc' = [pc EXCEPT ![p] = "unlock"]
  /\ CutShort(p)
  /\ faults' = faults + 1
  /\ UNCHANGED <<lock, log, packages, staged, cas, catalog, index, req, work>>

\* The lock file is created, but writing the pid into it raises before the
\* "try" whose "finally" would unlink it: the file stays and nobody holds it.
LockWriteFails(p) ==
  /\ faults < MaxFault
  /\ lock = None
  /\ Goto(p, "waiting", "idle")
  /\ lock' = Stale
  /\ req' = [req EXCEPT ![p] = NoRequest]
  /\ faults' = faults + 1
  /\ UNCHANGED <<files, work>>

\* An operator deletes a lock file that nobody holds (external).
RemoveStaleLock ==
  /\ lock = Stale
  /\ lock' = None
  /\ UNCHANGED <<files, pc, req, work, faults>>

-----------------------------------------------------------------------------

Approve(p) ==
  \/ ApproveInvalid(p)
  \/ ApproveRefused(p)
  \/ ApproveAccepted(p)
  \/ \E a \in Artifact : PinArtifact(p, a) \/ SkipOptional(p, a) \/ AppendPinned(p, a)
  \/ PinFailed(p)
  \/ PrivacyFailed(p)
  \/ StagePackage(p)
  \/ PublishPackage(p)
  \/ AppendValidated(p)
  \/ AppendApproved(p)
  \/ AppendSuperseded(p)

\* One step of the operation a process was asked for.
Step(p) ==
  \/ AcquireLock(p)
  \/ LockTimeout(p)
  \/ ReadTornLog(p)
  \/ Approve(p)
  \/ Reject(p)
  \/ Supersede(p)
  \/ Archive(p)
  \/ Rebuild(p)
  \/ ReadSnapshot(p)
  \/ WriteCatalog(p)
  \/ WriteIndex(p)
  \/ Unlock(p)

Next ==
  \/ \E p \in Proc : AskSome(p) \/ Step(p) \/ Crash(p) \/ RaiseError(p) \/ LockWriteFails(p)
  \/ RemoveStaleLock

Spec == Init /\ [][Next]_vars

\* A running process is scheduled; faults, repairs and requests are not owed.
FairSpec == Spec /\ \A p \in Proc : WF_vars(Step(p))

-----------------------------------------------------------------------------
(* Properties.                                                             *)

\* Every variable has its type.
TypeOK ==
  /\ lock \in Proc \cup {None, Stale}
  /\ log \in Seq(Event)
  /\ torn \in BOOLEAN
  /\ packages \subseteq Package
  /\ staged \in Nat
  /\ cas \subseteq Artifact
  /\ catalog \in Snapshot \cup {None}
  /\ index \in Snapshot \cup {None}
  /\ pc \in [Proc -> PC]
  /\ req \in [Proc -> Request]
  /\ work \in [Proc -> Work]
  /\ faults \in Nat

\* Whoever is between taking the lock and releasing it owns the lock file, so
\* the check an operation makes still holds when it writes (_lock).
MutualExclusion == \A p \in Proc : pc[p] \in Holding => lock = p

\* One BaselineKey never has two approved baselines, at any point of a
\* replacement, whichever process died before (approve, _reduce_states).
OneActivePerKey ==
  \A q1, q2 \in packages :
    /\ q1.id.key = q2.id.key
    /\ InState(log, q1.id, "APPROVED")
    /\ InState(log, q2.id, "APPROVED")
    => q1.id = q2.id

\* An APPROVED event in the log has its package on disk, and the package every
\* required artifact in the store: a crash never leaves an approval whose
\* evidence was not written first (approve, _materialize_artifact_manifest).
ApprovalIsBacked ==
  \A i \in 1..Len(log) : log[i].type = "APPROVED" =>
    \E q \in packages :
      /\ q.id = log[i].id
      /\ q.cand = log[i].cand
      /\ Required[q.cand] \subseteq q.refs
      /\ q.refs \subseteq cas

\* Two packages never share an identifier or a candidate: no approval ever
\* overwrites or repeats an earlier one, not even one left by a crash.
PackagesDistinct ==
  \A q1, q2 \in packages : q1.id = q2.id \/ q1.cand = q2.cand => q1 = q2

\* A snapshot on its way to the catalog or the indexes is still what log and
\* packages say, also after other processes died (rebuild_indexes).
SnapshotIsFresh ==
  \A p \in Proc : pc[p] \in {"catalog", "index"} =>
    work[p].snap = [count |-> Len(log), active |-> AllActive]

\* With the lock free, no fault so far: the events the catalog has not seen are
\* validation failures, so its active set is the repository's own, and the
\* repository holds no orphan, abandoned directory or incomplete line (verify).
QuiescentConsistent ==
  lock = None /\ faults = 0 =>
    /\ ~torn
    /\ staged = 0
    /\ \A q \in packages : AlreadyApproved(q.cand)
    /\ catalog # None => catalog.active = AllActive
    /\ \A i \in 1..Len(log) :
         (catalog # None => i > catalog.count) => log[i].type = "VALIDATION_FAILED"

\* Apart from a baseline named as its own replacement, every superseded_by link
\* leads to a later revision of the same key, so the chain a reader follows
\* ends (supersede, approve; lifecycle_relation_cycle in verify).
SupersessionGoesForward ==
  \A q \in packages : \A y \in {r.id : r \in packages} :
    SupersededBy(log, q.id, y) => y.key = q.id.key /\ (y.rev > q.id.rev \/ y = q.id)

\* The catalog is only ever replaced by one that has seen at least as much of
\* the log, and so are the indexes (rebuild_indexes under the lock).
CatalogNeverRegresses ==
  [][/\ catalog # None => catalog' # None /\ catalog'.count >= catalog.count
     /\ index # None => index' # None /\ index'.count >= index.count]_<<catalog, index>>

\* Every operation comes to its end, also behind a lock file nobody will remove.
OperationsEnd == \A p \in Proc : pc[p] = "waiting" ~> pc[p] = "idle"

-----------------------------------------------------------------------------
(* The inductive invariant behind MutualExclusion, OneActivePerKey and      *)
(* ApprovalIsBacked.                                                       *)

Approving(p) == pc[p] \in {"pin", "publish", "validated", "pinned"}

\* A request names what its operation needs.
Complete(r) ==
  /\ r.kind \in {"approve", "reject"} => r.cand \in Cand
  /\ r.kind = "supersede" => r.id \in BaselineId /\ r.rel \in BaselineId
  /\ r.kind = "archive" => /\ r.id \in BaselineId \/ r.cand \in Cand
                           /\ None \in {r.id, r.cand}

RequestOK ==
  \A p \in Proc :
    /\ Complete(req[p])
    /\ Approving(p) \/ pc[p] = "superseded" => req[p].kind = "approve"

NoEventAffects(x) == \A i \in 1..Len(log) : ~Affects(log[i], x)

\* What approve checked under the lock is still so when it writes.
ApprovalInProgress ==
  \A p \in Proc : Approving(p) =>
    LET b == work[p].id
        c == req[p].cand
        s == req[p].rel IN
    /\ b \in BaselineId
    /\ b.key = KeyOf[c]
    /\ NoEventAffects(b)
    /\ Active(b.key) \subseteq {s}
    /\ s # None => s \in Active(b.key)
    /\ pc[p] \in {"pin", "publish"} => ~HasPackage(b) /\ ~PackageOf(c)
    /\ pc[p] \in {"validated", "pinned"} =>
         [id |-> b, cand |-> c, refs |-> work[p].refs] \in packages

\* The artifacts an approval still has to pin, and those it has pinned.
PinningInProgress ==
  \A p \in Proc : Approving(p) =>
    /\ work[p].refs \subseteq cas
    /\ pc[p] = "pin" => Required[req[p].cand] \subseteq work[p].refs \cup work[p].todo
    /\ pc[p] # "pin" => Required[req[p].cand] \subseteq work[p].refs

\* Between APPROVED and SUPERSEDED the old baseline is already superseded.
ReplacementInProgress ==
  \A p \in Proc : pc[p] = "superseded" =>
    /\ work[p].id \in BaselineId
    /\ req[p].rel \in BaselineId
    /\ HasPackage(req[p].rel)
    /\ InState(log, req[p].rel, "SUPERSEDED")

\* The log speaks only of baselines whose package is on disk.
LogIsBacked ==
  \A i \in 1..Len(log) : \A x \in BaselineId : Affects(log[i], x) => HasPackage(x)

\* Revisions on disk are bounded, so that the next one exists.
RevisionsBounded == \E n \in Nat : \A q \in packages : q.id.rev <= n

IInv ==
  /\ TypeOK
  /\ MutualExclusion
  /\ RequestOK
  /\ ApprovalInProgress
  /\ PinningInProgress
  /\ ReplacementInProgress
  /\ LogIsBacked
  /\ RevisionsBounded
  /\ OneActivePerKey
  /\ ApprovalIsBacked
  /\ PackagesDistinct

=============================================================================
