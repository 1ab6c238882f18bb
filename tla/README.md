# A formal model of the TalkBack accessibility helper

This directory holds TLA+ specifications of the parts of this repository whose
correctness depends on the order of steps taken by several actors, on failures
between two steps, or on what is remembered across them. TLC checks small
instances; TLAPS proves the safety properties for every value of the constants.

Module names, state and operations follow the source. `PROJECT.json` gives for
every definition the lines it models, for every run the properties it checks,
and for every property a plausible bug (a mutant) that breaks it.

## 1. The system

The system drives a phone with TalkBack through the SmartThings app, records
what is focused and spoken, and keeps approved results as baselines.

- **Android helper** (`app/`, Kotlin): an accessibility service that receives
  commands as broadcasts, moves the focus, and answers in logcat.
- **Runner** (`script_test.py`, `tb_runner/`, `talkback_lib/`, Python): one
  process per device that walks scenarios, asks the helper for each step, and
  writes logs, spreadsheets and JSON.
- **QA frontend** (`qa_frontend/`): a backend that starts runners, one at a time
  (run manager) or over a list of devices (batch manager), and a React client
  that polls it.
- **Baseline tools** (`tb_runner/baseline_*.py`): a command line with which
  operators approve a run's candidate into a repository on disk.

### Components

| Component | State it keeps | Operations | Talks to | Hard behaviour |
|---|---|---|---|---|
| Baseline repository (`baseline_repository.py`, `baseline_artifact_store.py`, `baseline_cli.py`) | lock file, `lifecycle.jsonl`, packages, artifacts, catalog, app indexes | approve, reject, supersede, archive, rebuild-index, list, verify | operators' processes, Comparator UI | processes racing for a lock file, crash or error between any two writes, caches behind the log |
| Run manager (`runner.py`) | `_state`, `_process`, `_run_id`, summary file, stay-awake state | start_run, stop_run, status, waiter thread | HTTP API, child process, device settings | start overlapping the waiter of the last run, stop racing the end, failure half-way through a start |
| Sleep prevention (`sleep_prevention.py`) | request counter, keep-awake thread, the device's stay-awake setting | enable, disable, apply, restore | run and batch manager | one counter and one setting shared by runs that overlap, a thread that does not start after it was counted |
| Child execution (`subprocess_executor.py`) | process, tee thread | start, wait, terminate | both managers | launch succeeds and the thread does not start |
| Batch manager (`batch_runner.py`) | `_state`, `_stop_requested`, `_devices`, index, current execution, `batch_summary.json` | start_batch, stop_batch, worker loop, candidates, reviews | HTTP API, child processes | a start that raises after the fields say running, a worker that goes on with the next batch's fields, handlers that record twice |
| Helper request transport (`helper_bridge.py`, `logcat_reader.py`, `A11yCommandReceiver.kt`, dispatchers, `A11yResultTransport.kt`) | request ids, retired requests, worker queues, logcat | SMART_NEXT, focus commands, late-result observation, service start and stop | runner, adb, service | uncertain delivery, late and chunked answers, restart with queued work |
| Helper navigation (`A11yNavigator.kt` and others) | node snapshots | next focus, scroll, search | Android | heuristics over a live tree |
| Relationship cache (`SnapshotRelationshipCache.kt`) | parents and children per tree generation | collect, parent, child, invalidate | navigation, the service's events | tree changing under a read |
| Helper histories (`A11yHistoryManager.kt`, `A11yStateStore.kt`, `A11ySnapshotTracker.kt`) | bounded histories | record, compare | navigation | none of its own |
| ADB client and step collection (`talkback_lib/`) | last action | synchronous commands, dumps | adb | timeouts, parsing |
| Content terminal (`content_terminal.py`, `candidate_lifecycle.py`, `scroll_reliability.py`, `traversal_reliability.py`) | ledger of row instances, aliases, counters, pending plan | observe a step, plan a target, record an attempt, scroll, decide | traversal | a list that moves under the ledger, rows that look alike |
| Traversal (`collection_flow.py`, `traversal_orchestration.py`, `script_test.py`, ...) | rows, stop reason, candidates tried, place in the selection | start of a scenario, one step, stop decision, identity recovery, overlays, next scenario | client, crash guard | an app that crashes and a TalkBack that restarts between any two readings |
| Crash guard and recovery (`crash_guard.py`, `crash_recovery.py`) and the backend's `crash_capture.py` | the signal on the client, contexts on disk, counters, ids seen | detect, bring back, retry, record, count, abort | traversal, `main()`, batch manager | a signal that outlives its scenario, a retry that ends in other ways than it should |
| Onboarding session (`plugin_onboarding_session.py`) | session JSON, drafts, backups | save step, apply, rollback | HTTP API | read-modify-write without a lock |
| State model (`state_*.py`, `transition_observation.py`) | registry of states | fingerprint, equality, register | traversal | equality that is not transitive |
| Candidates and comparator (`baseline_candidate_*.py`, `comparator_*.py`, ...) | none | validate, compare, report | repository, Compare UI | pure, large |
| Evidence, identity, shadow pipeline | append-only streams | emit, reduce, gate | traversal, reports | incomplete transactions |
| Configuration, preflight, reports, audits, HTTP API, React client, tools | files, view state | load, render, poll | all | little state of their own |

### What makes each part correct

- *Baseline repository*: writers exclude each other; a key has at most one
  approved baseline; an approval has its package and its required artifacts;
  packages are never overwritten; caches never go backwards; a baseline's life
  only moves forward; nobody waits for ever.
- *Run manager*: one child at a time; every status of "running" has somebody who
  will end it; a stop is not overwritten; sleep prevention is given back once;
  the device's setting is restored.
- *Batch manager*: devices one after another; a finished batch ran all of them;
  the summary file says what the fields say; a status of "running" has a worker
  behind it; no device after a stop; candidates only from devices that passed;
  workers end. Where the code falls short of one of these, the property says by
  how much and why (section 4).
- *Helper transport*: a request moves the focus at most once; an answer is the
  request's own; a late or partial result is not mistaken for one; the app loses
  nothing in silence.
- *Content terminal*: a traversal is called completed only when every row it was
  shown has been reached; an alias joins two places of one row; no row slips out
  of the ledger.
- *Traversal*: a run ends; rows of one attempt were read with one process of
  TalkBack, or the attempt says that it was interrupted; the END row is the last.
- *Crash guard and recovery*: a crash is recovered from once, in its own scenario;
  what is on disk agrees with what was tried; the count that ends a run agrees
  with what is on disk.
- *Relationship cache*: nothing is returned that was read before the call and
  before a change the helper knows of.
- *Onboarding session*: no step is lost, a rollback restores what the apply
  replaced. *State model*: equal states are registered once.

## 2. Modules

| Module | What it is |
|---|---|
| `BaselineRepository` | the repository with its writers as processes |
| `BaselineLifecycle` | the abstract life of a baseline |
| `BaselineRefinement` | the mapping from the one to the other |
| `BaselineRepositoryProofs`, `BaselineVerifyProofs` | theorems; the second about what `verify` reports |
| `RunManager`, `RunManagerProofs` | the single-run manager with sleep prevention |
| `RunService` | the abstract run: a call, one child, somebody who records its end |
| `RunRefinement` | the mapping from the run manager to it |
| `BatchRunManager`, `BatchRunManagerProofs` | the batch manager |
| `BatchService` | the abstract batch: devices in the order of a list, then candidates and reviews |
| `BatchRefinement` | the mapping from the batch manager to it |
| `HelperTransport`, `HelperTransportProofs` | client, adb, receiver, workers, logcat |
| `FocusRequest` | the abstract request: performed once, given one result, answered once |
| `HelperRefinement` | the mapping from the transport to it |
| `RelationshipCache`, `RelationshipCacheProofs` | parents and children remembered while the tree changes |
| `FreshLookup` | the abstract lookup, which `RelationshipCache` implements |
| `ContentTerminal`, `ContentTerminalProofs` | the ledger that ends a traversal, over a list that scrolls |
| `ScenarioRun`, `ScenarioRunProofs` | a run of `main()`: its scenarios, attempts, steps, crashes and restarts of TalkBack |
| `CrashLedger` | the abstract ledger of the crashes of a run |
| `CrashRefinement` | the mapping from the run to it |
| `MC...` | instances for TLC |

Definitions marked `Mutant` are the bugs that show a property has force. No
specification uses them.

### BaselineRepository

Every operator is a process `p` with a program counter `pc[p]`, the operation it
was asked for (`req[p]`) and its locals (`work[p]`). The files are variables:
`lock`, `log` (one record per event), `torn` (the last line is incomplete),
`packages`, `cas` (the artifact store), `catalog`, `index`, `staged` (abandoned
temporary directories). The lifecycle reduction `_reduce_states` is `InState` and
`SupersededBy`, defined by the last event that affects an identifier.

Everything `approve` does between two writes is one step: the checks
(`ApproveAccepted`, `ApproveRefused`, `ApproveInvalid`), one pin per artifact, the
rename of the package, one append per event, then the catalog and the indexes.
`Crash` and `RaiseError` may strike at any of them, and an append may be cut
short. `reject`, `supersede` and `archive` are one check, one event and the
rebuild. A lock file whose owner died (`Stale`) is removed only by an operator.

Abstracted: contents of packages and manifests (the artifacts named is all that
remains), digests, the app part of a key, timestamps. `ApproveInvalid`,
`PinFailed` and `PrivacyFailed` are the outcomes of validations that the model
does not compute; they may happen to any candidate. App indexes are one value,
written after the catalog. `list` rebuilds under the lock when there is no
catalog, which is `rebuild-index` here. `verify` and `inspect` only read.

`BaselineLifecycle` has three sets, active, superseded and archived. Approving a
baseline moves the active one of its key to superseded in the same step. The
repository implements it: the sets are read off the reduction, restricted to
packages that exist.

### RunManager

`start_run` holds the manager's lock from its first check to the start of its
waiter, so `lock` is the run whose call is in progress and the fields change
step by step under it. What happens outside the lock is what makes it hard: the
child exits, the waiter runs shadow validation, restores the setting, disables
sleep prevention and only then takes the lock to record the end, and `stop_run`
terminates the child after it has released the lock. `mine` is each thread's copy
of the stay-awake state, `requests` is the counter of `sleep_prevention.py`,
`setting` the device's value, which somebody else may change (`ChangeSetting`).
Any device command may fail, any step of the preparation may raise, a summary may
not be written (`WriteSummary`), a log may not close, and threads may fail to
start (`ThreadsFail`): the tee (`TeeFails`), the waiter (`WaiterFails`) and the
keep-awake thread (`KeeperFails`).

Two of these leave something behind. `enable_sleep_prevention` counts a request and
records its worker before it starts the thread; when that raises, `start_run` does
not give back what it thinks it never had, and `keeper` stays "broken" because
every later request finds a worker there. And when the waiter cannot be started
*and* the log does not close (`AbandonRun`), the start ends with the status at
"running", a child nobody waits for and a request. The history variable `leaked`
names these two kinds of starts and `unwritten` the runs whose summary could not be
written; the properties say what holds of everybody else.

Abstracted: language setup and preflight are one step that may block
(`PrepareBlocked`); the runtime configuration is the run it belongs to; run ids
are distinct although the code takes them from a clock with a resolution of a
second. A log that raises while the waiter closes it, between the state and the
summary (`runner.py:452`), is a summary that is not written; one that raises where
the waiter has nothing else to do changes nothing. `sleep_prevention.py` acts on
Windows only, and the model is of that.

`RunService` says what a caller of the API may rely on, with no waiter, lock,
counter or saved setting: while a child is looked after nobody is called and the
machine is kept awake; a call launches its child or says error; a status is
replaced by its owner or by the next call, and the owner leaves a stop alone. The
run manager implements it (`RunRefinement`): `lock` is the caller, `Owner` is
`_process` while a thread is left that will record its end, `Live` are the
children a waiter looks after. A start that overlaps the last waiter takes the
ownership over; the waiter it overtook then records nothing, which is a stutter.

### BatchRunManager

One worker per accepted start, the fields shared by all. A step is what a worker
does between two points where another thread can see or change a field: taking a
device, the two readings of the stop flag, launching, publishing the execution,
waiting, recording, closing, the next round, the end of the batch, one device's
candidate, the reviews. `info[w]` is the device dictionary a worker holds, which
may belong to an older batch than the fields. `DeviceRaises` are the handlers that
record a failed device, also when it has been recorded already because closing it
raised: its result is then overruled and, unless a stop is in force, the next device
is passed over (`twice`). `Dies` lets a worker fail to start or die outside its
handlers.

The fields of a start are not set at once. `BeginFails` is a start whose language
mode, directory or provenance raises: id and state are the new batch's, the list of
devices is still the old one (so `batch` and `list` are two variables), there is no
summary and no worker, and the status says "running" until somebody stops it.
`lost` are the batches that ended so or whose worker died, `unwritten` those whose
latest summary was not written, which `WriteSummary` permits to those in
`Unwritable`. A batch may start while a worker of another is busy, which the code
allows after a stop: `overlaps` counts such starts, at most `MaxOverlap`, and what
holds only without them says so (`overlaps = 0`) instead of excluding them.

Abstracted: keep-awake of a device; the live status computed from the log; the
per-device summary; of a device in `batch_summary.json` only its state (its
`return_code` is set once more after the summary of a stopped device was written,
`batch_runner.py:1663`, so the file lacks it); `Qualified` stands for the checks of
a device's artifacts; batch ids are distinct. When the child's tee thread does not
start, the launch has raised and the child is left to itself: `child` are the
children that a worker waits for.

`BatchService` is the batch without workers, flags, children or an index: a device
is taken when all before it have ended and all behind it are pending, one at a
time; `Finish` asks that every device has ended; a stop ends the device at work as
stopped; when the reviews are written every qualified device that passed has its
candidate. Two shortcomings of the code are part of the service, as narrow as they
are: `Overrule` replaces the result of the device that ended last and lets the next
be skipped, and `Void` is a batch that says it runs and runs nothing. The manager
implements it (`BatchRefinement`): its devices, batch and state are those of the
fields, and `Active` are the devices that workers hold and have not recorded.
`ImplementsBatchService` asks it of every step up to the first start beside a busy
worker, because what two workers do with one set of fields is no batch at all.

### HelperTransport

The client is one thread: it hands a broadcast to adb, waits for adb, then polls
logcat for up to 75 seconds. `travel` are the broadcasts on their way, `queue` the
requests of each worker (one per family and per start of the service), `worked` the
workers that have done the work of their first request, `verdict` what the app found, `written` and `log` what it has put into logcat. A result is
one line or `Chunks` numbered lines, and a poll may come between two of them;
`Readable` is `reassemble_chunked_payload` with the single-line fallback.
`retired` are the requests given up, with whether their late result was seen.
`Destroy` drains what the workers hold, `Connect` starts dispatchers with no
memory, `Kill` takes the process with its queues. Broadcasts and lines get lost,
lines come out garbled, and attaching the evidence may raise.

`FocusRequest` says what is promised, with no adb, worker or logcat: a request is
performed at most once or refused for good, is given its result at most once and
after that, and is answered once, with its result or with an error. The transport
implements it: a request is asked for when its id is used, its outcome is what the
app found, and the result is given with the last line written.

Abstracted: the client makes every request with a fresh UUID, so its own
refusals of a repeated id are never taken; the receiver and `onDestroy` run on the
app's main thread, so the window in which a dispatcher is closed and still
reachable is not visible; the memories of 1024 ids and 64 retired requests are
taken as large enough; what the work does to the screen is a verdict. The
synchronous commands and the recovery acknowledgement they read are left out,
except that logcat may be cleared before one of them.

### RelationshipCache

A cache lives on one thread, for one collection of the screen's state. The tree it
reads belongs to another process and changes at any time (`Change`); the service's
main thread hears of it later and counts (`StructureChanged`). `tree` numbers the
trees, and a value is the number of the tree it was read from. A step of `parent` or
`child` is what lies between two readings of the generation: `Sync`, `Find` or
`NotFound`, the copy (`Hit`, `Stale`), `Miss`, `Read`, and `Keep` or `KeepNot`. New
roots, actions and refreshes invalidate the cache too.

`FreshLookup` promises that a lookup returns what was read while it was being made,
or what was read when nothing the helper knows of had yet to change. `known` is the
tree at the last event, new root or end of an action: an event that is late leaves the
cache with an older tree, and that is all the generation can exclude. Of the four
comparisons the one after the copy is needed: with any one of the others dropped
TLC still finds the promise kept, because the rest cover for it.

Abstracted: `parent` and `child` are the same steps over two maps; nodes are keys that
are compared by identity; the counters of hits; `withoutCache`, which only tests use;
a collection inside another, which no caller makes.

### ContentTerminal

The world is a list of `Items` rows of which the screen shows `Rows` at a time,
from `top`. A row has a look (what identifies it apart from its place); two rows
may look the same. What the ledger sees of a row is an instance, its look at a
place of the screen. A step of the main loop is `Walk` (SMART_NEXT), perhaps
`Plan` with `AttemptTarget` or `FallbackScroll`, then `Evaluate`
(`_apply_content_terminal_phase`) and, when the decision allows one,
`VerifiedScroll`. `Observe` is the ledger's `observe`, `ObserveLifecycle` the
aliases of `CandidateLifecycle`, `Decision` the verdict in the order of the code.

Aliases are made by `RelocationCohort`: at least `MinCohort` rows that moved by
the same distance and are most of those that moved, each with one candidate on
either side. `focusKeys` and `readings` are the evidence of the main loop, from
which the properties say what has been reached.

Abstracted: thresholds keep their order and not their values (`MinCohort`,
`NoProgressLimit`, `NoFocusLimit`); sequence progress is subsumed by progress of
the focus; whether a row can be acted on is part of its look; the inventory of the
planner is nothing or all visible rows in the run; a capability that is unknown or
contradictory (`OddCaps`) is a constant that the run leaves empty and the proofs do
not. An exception in the phase leaves the ledger as it was. Rows that share a
resource id and come to rest on each other's places are one instance by design
(`traversal_reliability.py:36`): a page of them counts as visited when the page
before it was. Such rows are left out, so `CompletedMeansReached` says nothing
about them.

### ScenarioRun

The runner is one thread, so `stage` says where it is: `main()` between scenarios
(`next`), the start of an attempt (`configure`, `open`, `anchor`), a step of the main
loop (`step` to `overlay`), its end (`finish`, `over`) and the preflight after a
crash. What interleaves with it is the device: the app may be found left or
terminated at every inspection, and TalkBack may get a new process id between any
two actions (`TalkBackRestarts`). A row carries the id it was read with, which the
program does not know: it only compares the ids its recorder (`Capture`) sees at the
capture points. A capture that cannot read an id, because adb failed or knows of no
process, compares nothing and says nothing; the history variable `unread` counts
such capture points in a row. `ConfigureRecorder` hands the last id from one attempt
to the next, so a restart between two attempts invalidates the second. Where
`TB_V8_COVERAGE_PROBE` is on (`CoverageProbe`), the probe scrolls and captures after
the reason of the attempt is final (`Finish`): a restart it sees first invalidates
neither this attempt nor, since the new id is handed on, the next.

A crash is an element of `contexts` (one `crash_context.json` per event) and the
`signal` on the client. `AfterAttempt`, `Preflight` and `AfterRetry` are the branches
of `main()` on it; `Settle` writes the outcome and the policy, counts, and decides
whether the run is given up. `Interrupt` is an exception of any call, which ends
`main()`.

Abstracted: what decides whether a row stops the loop is a choice among no reason,
the repeat reasons (one stands for the four that identity recovery answers) and
`StopReasons`; the latch of the guard, because a detection ends the attempt and the
next one resets it before any inspection; the writes of one context are one step; the
hand-over of the food scenario to a second loop; a global navigation scenario is one
step, and its gate in the start of a content scenario is not taken; the
reclassification of a finished attempt by the content terminal. Several captures at
one point (before and after the same action) are one, which reads an id if any of
them does. The recorder is the one that `TALKBACK_WINDOW_LIFECYCLE` enables; without
it no restart is seen, as if no capture could read an id. A restart after the last
capture of an attempt is seen by the next one, unless the coverage probe saw it.

`CrashLedger` is what a run promises of its crashes, with no step, signal, event id
or recorder: scenarios in their order, a second attempt only after a crash of the
first, one crash per attempt, each open while its scenario is at hand and settled
once with the outcome of the attempts; the run is given up when that settles too
many, or the device is lost. The run implements it (`CrashRefinement`): an attempt
and its crash show in the ledger when the attempt is over (`Told`), a context that
says `captured` or `recovery_preflight_passed` is open, and an interrupted run has
just stopped.

## 3. Runs

| Run | Instance | What it shows |
|---|---|---|
| `baseline_ops` | 2 operators, 3 candidates, 2 keys, no faults | every order of operations keeps one active baseline per key, a consistent quiet repository and replacement chains that go forward |
| `baseline_faults` | 2 operators, 2 candidates, 1 key, 1 required artifact, 1 fault | locking, backing, immutability, caches that never regress, and the refinement of `BaselineLifecycle`, wherever one process dies or one call fails |
| `baseline_live` | 2 operators, 1 candidate, 1 fault | every operation ends |
| `run_manager` | 2 runs, one with shadow validation, 1 outside change, 1 failure, threads may fail | one child with a waiter, restored setting unless overtaken, sleep prevention balanced but for what failing threads leak, running is owned unless abandoned, every run settles, and the refinement of `RunService` |
| `batch_sequential` | 2 batches, 3 devices, 2 failures (of starts, devices, closings or workers), no overlap | a finished batch ran all devices but those passed over, and the refinement of `BatchService`: in order, each once, none after a stop, candidates earned and complete |
| `batch_overlap` | 2 batches, 1 device, 1 overlap, 1 failure or death, one batch whose summary is not always written | summary current, children bounded by the overlaps, a running batch has its worker, workers end |
| `batch_parallel` | 2 batches, 2 devices, 1 overlap, no failure | **violated**: two devices at once |
| `helper_transport` | 2 SMART_NEXT and 1 focus request, 2 chunks, 1 fault, 1 restart | nothing lost in silence, and the refinement of `FocusRequest`: at most one move, one result and one answer, the request's own |
| `relationship_cache` | 2 parents, 2 children, 4 changes, 4 events | the refinement of `FreshLookup` |
| `collection` | 4 rows, 2 of which look alike, a screen of 3 | completed means reached, no row leaves the ledger, aliases join places of one row |
| `scenario_run` | 2 scenarios of any kind, 2 steps, 1 candidate, 1 restart, captures that read nothing, coverage probe on, threshold 2 | outcomes on disk match the attempts, the abort is due, rows are continuous unless two captures in a row read nothing, restarts seen in time invalidate, END is last, every run ends, and the refinement of `CrashLedger` |
| `recovery_claimed` | 1 scenario, 1 step, no restart | **violated**: a crash is called recovered although the retry collected nothing |

### Bounds

- `MaxLog` bounds the log only where operations begin: with 4, two writers that
  wait at the bound still append their events, so an approval, its replacement and
  an operation of the other writer meet in one log. Rebuilds are never bounded.
- One fault per behaviour (`MaxFault = 1`) is enough for each hazard listed,
  because every one of them is a single crash, error or loss followed by ordinary
  steps; the proofs have no such bound. `batch_sequential` allows two, so that a
  device can be counted twice and a later one too, or a start raise and a device fail.
- Two runs let a start overlap the waiter of the run before; a third that overlaps
  both is left to the proofs. Two batches
  suffice for the fields to change hands, three devices for one to have a
  neighbour on either side when it fails, is skipped or is stopped.
- Four rows on a screen of three scroll by one and leave a cohort of two, the
  smallest that is believed; one look is repeated, so that a lookalike can enter
  as another leaves. Two lookalikes among fewer rows would let a wrong cohort
  form, which `AliasSound` excludes by counting the repeated looks.
- Three requests, two of one family, let a late result meet a later request of
  the same worker and of the other. Two chunks give a poll its chance in between;
  one restart gives a dispatcher that has forgotten.
- Four changes and four events let one of each fall before, into and after a lookup
  and into the next one; two keys of each kind tell entries apart.
- Two scenarios let a signal of the first meet the second, of either kind; with a
  crash in each attempt of both the threshold of 2 is reached by a repeated crash or
  by one of each. Two steps are the fewest after which the loop goes on and a row has
  one before and one after it. One restart can fall between any two steps of any
  attempt and be missed by any captures; several are left to the proofs.
- Symmetry is used for operators, for candidates of one key, for the ids of one
  family and for nodes, and in no liveness run.
- Deadlock is not checked where the system may stop: when all runs, batches or
  requests of the instance are used up.

### Fairness

`BaselineRepository!FairSpec` is weakly fair to the steps of a process that runs;
requests, faults and repairs are owed by nobody. A process waiting for the lock
has a deadline, so it ends even if nobody removes the file.
`RunManager!FairSpec` is fair to threads that can run. The child owes nothing:
`RunSettles` speaks only of children that have exited.
`BatchRunManager!FairSpec` also assumes that the script ends by itself, since
its loops over scenarios and steps are bounded; without that a worker may wait
for ever. `HelperTransport` has no liveness run: that a request ends is its
deadline, a single guard. `ScenarioRun!RunSpec` is weakly fair to the steps of the
runner, which is one thread whose calls have timeouts; crashes, restarts and
exceptions are owed by nobody. `RunEnds` rests on the bounded loop of steps, on
candidates that are tried once and on one retry per scenario.

## 4. Where the code and its documents disagree

Found by runs (see the findings of `PROJECT.json`):

1. A stop followed by a start leaves two batch workers and two children at work
   (`batch_runner.py:556`).
2. A crash is recorded as recovered whenever the retry leaves no crash signal, also
   when it could not open the scenario (`script_test.py:381`), while
   `docs/crash-capture-design.md:405` asks for a scenario that completes or goes on.

Met while modelling and described here without a run of their own:

- A start reads as original the stay-awake value that the last run applied and has
  not restored (`runner.py:160`), so two runs in a row leave the device awake, which
  `docs/qa-frontend-guide.md:100` excludes; `RestoredUnlessOvertaken` excepts
  overlapped starts.
- A request for sleep prevention whose thread cannot be started is counted and never
  given back, and no later run starts the thread again (`sleep_prevention.py:56`,
  `runner.py:158`); `SleepBalanced` accounts for it as leaked.
- A waiter that cannot be started, followed by a log that does not close, leaves the
  status at "running" with a child nobody waits for (`runner.py:300`);
  `RunningIsOwned` names it as the only such case.
- A log that does not close after the last state was set leaves the run without its
  summary (`runner.py:452`); `FinishedHasSummary` excepts it.
- A batch whose start raises says "running" with the devices of the batch before, no
  worker and no summary (`batch_runner.py:559`), so every further start is refused
  until somebody stops it; so does, with its own devices, one whose worker thread
  cannot be started or dies (`batch_runner.py:633`, `batch_runner.py:1457`).
  `RunningHasWorker` says that there is no other way to it.
- A log that fails while it is closed makes the batch overrule a device's result, count
  it twice and skip the next (`batch_runner.py:1684`), although
  `docs/multi-device-architecture.md:112` runs all of them; `FinishedRanAll` excepts
  exactly the devices behind such a one.
- A device that was stopped gets its `return_code` after its batch's summary was
  written (`batch_runner.py:1663`).
- A capture that cannot read TalkBack's process id says nothing
  (`window_lifecycle.py:181`); after two such capture points in a row the main loop
  may go on over rows of two processes, which `ContinuousRows` excepts.
- A restart first seen by the coverage probe replaces no reason and is hidden from the
  next attempt's recorder (`collection_flow.py:20062`); `RestartInvalidates` is about
  what was seen before.
- Other ends of a retry count as a recovery too: a TalkBack restart that invalidates
  it, an optional scenario that is not available.
- `supersede` does not require two different baselines
  (`baseline_repository.py:755`), so one can be its own replacement, although the
  design speaks of a new approved one; `SupersessionGoesForward` excepts it.
- A rejected candidate can still be approved: `approve`
  (`baseline_repository.py:430`) looks only for an earlier approval, while
  `docs/design/talkback-phase10-baseline-manager-architecture.md:429` makes
  rejection the end of a candidate.
- `stop_batch` (`batch_runner.py:645`) finds nothing to terminate in a child that
  is launched and not yet published; it then runs to its end.
- `stop_run` sets "stopped" before the waiter writes the summary
  (`runner.py:320`), although the comment at `runner.py:460` says that the waiter
  owns the terminal state.
- A start without scenarios leaves `_process` as it is (`runner.py:144`). When the
  waiter of the last run is still restoring the device, it takes that process for
  its own and writes its outcome over the "error" of the start, into its summary
  (`runner.py:436`). `RunService` allows it: the owner is still the last run.
- Shadow validation reads the manager's fields (`runner.py:488`), which may name
  the next run by then.
- When the waiter thread cannot be started, the launched child is forgotten
  (`runner.py:305`) and may run beside the next; `OneChild` is about children that
  have a waiter or are about to get one.
- The candidates of a finished batch are skipped when the next batch starts
  before they are made (`batch_runner.py:1252`); the reviews then carry the next
  batch's id (`batch_runner.py:1444`).

## 5. Proofs

All theorems are about `Spec` (`RunSpec` and `ContentSpec` where the module calls it so) for arbitrary constants that satisfy the module's
assumption: any number of operators, candidates, runs, batches, devices and
requests, any bound on faults. None is taken on trust.

- **`BaselineRepositoryProofs`**. `IInv` joins the properties with what holds
  while a writer is at work: it owns the lock file, what it checked under the
  lock is still so when it writes (`ApprovalInProgress`), pinned artifacts are in
  the store (`PinningInProgress`), and between APPROVED and SUPERSEDED the old
  baseline is already superseded (`ReplacementInProgress`). It is needed because
  `OneActivePerKey` alone does not survive `AppendApproved`: that step is right
  only by a check made several steps earlier. From it follow `TypeOK`,
  `MutualExclusion`, `OneActivePerKey`, `ApprovalIsBacked`, `PackagesDistinct`,
  and `ImplementsLifecycle`. The key lemma, `ReduceAppend`, says what one more
  event does to the reduction. `SnapshotIsFresh` and `CatalogNeverRegresses`
  strengthen `IInv` by what a rebuild has read.
- **`BaselineVerifyProofs`**. Two more invariants of the repository, over `IInv`.
  `ForwardInv`: every link event leads forward, and an approval in progress keeps
  what it will link behind it, since revisions are given out in order under the
  lock; `SupersessionGoesForward` follows, with faults. `SteadyInv`: without faults
  the catalog has seen every event but validation failures unless somebody is on
  the way to writing it, and every package is approved or about to be;
  `QuiescentConsistent` is what is left of it when the lock is free.
- **`RunManagerProofs`**. `IInv` relates the places of starter and waiter to the
  lock, the fields and the counter, and says who has leaked a request (a start that
  is over and has no waiter): `SleepBalanced`, `RunningIsOwned`,
  `FinishedHasSummary` and `StopIsFinal` follow. `OneChild` needs
  `ChildrenOK`: a child with a waiter is the manager's own, and there is none while a
  start has not launched one yet. With `ServiceOK` (a waiter past its wait has a
  child that ended, the manager's process has somebody to record its end, only a
  stop replaces the state while the child runs) every step is one of `RunService` or
  a stutter: `RunServiceImplemented`, which needs no assumption beyond the module's.
  That the machine is awake at the launch is `SleepBalanced`: the counter is the
  number of threads that hold a request, the starter among them, and of those leaked.
  `RestoredUnlessOvertaken` needs `AwakeInv`: without overlap, failure or change
  from outside one thread at most is at work, and its place says whether the device
  is kept awake and whether the original value is known.
- **`BatchRunManagerProofs`**. Nothing is assumed of the constants but the module's
  own assumption: starts, devices and closings raise, workers die, and batches overlap.
  `IInv` relates the workers' places to the fields and the summary:
  `SummaryIsCurrent`, `StopIsFinal` and `RunningHasWorker` follow, and with `BusyOK`
  (every busy worker but one began beside another) `ChildrenBounded`. A stop flag goes
  with the state "stopped" (`FlagOK`), which is why no worker but the batch's own ends
  the running of its fields. `FinishedRanAll` and the refinement hold until batches
  overlap, which is not assumed but is part of what they say. `AloneOK` (one worker, on
  the list the fields have) and `TurnOK` (devices before the index have ended or are
  behind one counted twice, and a device counted twice has pushed the index two on) are
  proved under `overlaps = 0`. `SerialInv` adds that flag and state agree (`StopOK`),
  that devices behind the worker are pending (`AheadOK`) and that the candidates made
  so far are those due (`AwardedOK`); every step is then one of `BatchService` or a
  stutter (`BatchServiceImplemented`), also a start that raises, a handler that overrules
  a result, and a worker that dies. `batch_parallel` shows that what is promised until
  batches overlap is not promised after it. `Forward` orders the
  states by the workers that have started and ended, the stop flag, the devices
  behind and the places of the workers; the order of the places changes once no
  device can be taken any more (`Closing`), because the round of a worker then ends
  at the top of its loop. Every step goes up in it (`BatchGoesForward`), with
  overlapping batches too.
- **`HelperTransportProofs`**. `IInv` says where a request can be (unused, on its
  way, with one worker, or past it), what is recorded of it there, and that
  every line of logcat agrees with what the app found. A request is held by one
  worker once (`HeldOnce`) although a new dispatcher remembers nothing, because a
  broadcast is delivered once and never sent again; that is what `AtMostOnce`,
  `AnswerIsOwn`, `ObservedWasWritten` and `NothingLost` rest on. With `WorkedOK`
  (what a worker has done is the work of its first request) every step is one of
  `FocusRequest` or a stutter: `FocusRequestImplemented`.
- **`RelationshipCacheProofs`**. `CacheInv`: while the cache's epoch is the present
  generation its entries are no older than what the helper knows (`EntriesOK`), and
  so is a value that is about to be kept or returned (`ValueOK`), or it was read by
  this lookup. Every step is then one of `FreshLookup` or a stutter.
- **`ContentTerminalProofs`**. `ContentInv` says that an alias keeps the look
  and never leads from a row on the screen (`AliasesOK`, `RowsStayActive`), that
  the ledger credits only what the main loop has seen (`CreditOK`), and that the
  last frame is one of the list (`FrameOK`). `AliasesAreSound` assumes
  fewer repeated looks than a cohort has rows: then one member of every cohort has
  a look of its own, which fixes the distance the list has moved
  (`RepeatedFinite`, `StrayLook`, `CohortSound`). `CompletionIsSound` follows.
- **`ScenarioRunProofs`**. Four invariants, each resting on the one before.
  `PlaceInv` says what the runner knows at each of its places: the number of the
  attempt, the stop reason, and whether the crash signal it sees is an old one or
  one this run made; `RecoveryInScenario` follows. `RowsInv` relates the rows of
  the attempt to the recorder (`RecorderOK`, `KnownOK`): while no two capture points in
  a row could not read the process id, every row of the main loop but the last was read
  with the process the recorder knows, and the last one too once a capture point after
  it was read, because a step has two of them and compares before it goes on
  (`ContinuousRows`). The END row is written when the reason is set (`EndRowIsLast`),
  and nothing of the loop but its end is reached with a restart seen
  (`RestartInvalidates`). `LedgerInv` says that the events whose
  scenario is over are exactly the counted ones, each with the outcome of its
  attempts, and that any other is at hand: the count of the statistics is then a
  function of what is on disk (`OutcomeOnDisk`, `AbortWhenDue`). `TellInv`
  adds what the refinement needs: an attempt has left one event at most, every event
  but that of the attempt being summed up belongs to an attempt that is over, a
  crash is pending exactly while it is at hand, and a scenario that was left was
  tried. Every step is then one of `CrashLedger` or a stutter
  (`CrashLedgerImplemented`). `Forward` orders the states of a run by
  scenario, attempts, phase, step, candidates tried and place in the step; every
  step goes up in it (`RunGoesForward`).

Every invariant, action property and refinement that a passing run checks is
proved. Only model-checked is liveness (`OperationsEnd`, `RunSettles`, `WorkersEnd`,
`RunEnds`): fairness and `ENABLED` are beyond the prover. What the first half of
`WorkersEnd` and `RunEnds` comes to, that the steps cannot go round for ever, is
proved as `BatchGoesForward` and `RunGoesForward`; that a step is always possible
before the end stays with TLC. The steps of an operation of the repository and of
a single run follow each other without a loop, apart from the artifacts of a
candidate, which are taken one by one.

## 6. Not modelled, and the plan

Navigation heuristics, row building, comparison, evidence reduction, reports,
configuration and the React client are pure functions of large inputs or of what
Android shows; `PROJECT.json` gives the reason for each. The next modules, in
order:

1. `CrashEvents` (`crash_guard.py`, `crash_capture.py`): two writers number events
   in one directory. Property: no event overwrites another. Instance: two
   writers, three events.
2. `OnboardingSession` (`plugin_onboarding_session.py`): steps saved by several
   requests, apply and rollback with a failure between two files. Theorem: after
   a rollback every file is as before the apply.
3. `CompareReader` (`comparator_ui.py`, `list`, `inspect`): readers without the
   lock beside the writers of `BaselineRepository`.
4. `QaBackend`: `RunManager` and `BatchRunManager` composed over one device
   (`main.py`); who owns the stay-awake setting, and when two children meet.
5. `StateModel` (`state_equality.py`, `state_registry.py`): equality and
   registration as operators against a reference definition.
