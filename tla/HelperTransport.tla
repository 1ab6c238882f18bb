--------------------------- MODULE HelperTransport ---------------------------
(***************************************************************************)
(* A focus-moving request from the runner to the helper app and back.  The *)
(* client (talkback_lib/helper_bridge.py) sends a broadcast through adb    *)
(* and polls logcat for the result that carries its request id.  In the    *)
(* app the receiver hands the request to a single-threaded worker of the   *)
(* accessibility service, which moves the focus and writes the result to   *)
(* logcat, in numbered chunks when it is long.  adb may fail with the      *)
(* broadcast still on its way, lines may be lost or garbled, the result    *)
(* may come after the client has given up, and the service or the whole    *)
(* process may go away in between.                                         *)
(*                                                                         *)
(* One thread makes all requests, each with a fresh UUID: the refusals of  *)
(* a repeated id in the client are never taken, and logcat is cleared only *)
(* between requests.  The receiver and onDestroy run on the app's main     *)
(* thread, so neither sees the other half done.  The memories of 1024 ids  *)
(* and of 64 retired requests are taken as large enough.                   *)
(***************************************************************************)
EXTENDS Naturals, Sequences

CONSTANTS
  Req,       \* request ids
  Smart,     \* those of SMART_NEXT; the others are focus commands
  Chunks,    \* lines of a long result
  MaxFault,  \* bound: lost and garbled lines, lost broadcasts, killed processes
  MaxStart,  \* bound: how often the service is started again
  None       \* an absent value

Family == {"smart", "focus"}
FamilyOf(r) == IF r \in Smart THEN "smart" ELSE "focus"

\* What the app says of a request: that the work moved the focus, that it did
\* not or raised, or that no service was there to do it.
Verdict == {"moved", "failed", "refused"}

\* What the client makes of it; "error" is transport_error and
\* json_parse_failed, the answers without a result.
Answer == Verdict \cup {"error"}

\* A line of logcat; part 0 is a result on one line, 1 to Chunks are chunks.
Line == [req : Req, verdict : Verdict, part : 0..Chunks, legible : BOOLEAN]

ASSUME TransportAssumption ==
  /\ Smart \subseteq Req
  /\ Chunks \in Nat \ {0}
  /\ MaxFault \in Nat
  /\ MaxStart \in Nat
  /\ None \notin Req \cup Answer

\* The dispatchers of every start of the service: each has one worker.
Worker == Family \X (0..MaxStart)

VARIABLES
  cur,       \* the request the client is at, or None
  step,      \* where the client is in it
  answer,    \* what each request returned
  retired,   \* requests given up, and whether their late result was seen
  fresh,     \* ids not used yet
  travel,    \* broadcasts on their way to the receiver
  up,        \* whether A11yHelperService.instance is set
  start,     \* the number of the service's start
  accepted,  \* the ids the current dispatchers remember
  queue,     \* the requests of each worker, the first one being worked on
  worked,    \* the workers that have done the work of their first request
  verdict,   \* what the app found for each request
  written,   \* chunks of each result already in logcat
  log,       \* the lines logcat holds
  acts,      \* history: how often the work of each request was done
  results,   \* history: how many whole results each request was given
  dropped,   \* history: requests lost on the way or by the app
  faults     \* counter of what went wrong

client == <<cur, step, answer, retired, fresh>>
service == <<up, start, accepted>>
workers == <<queue, worked>>
history == <<acts, results, dropped>>
vars == <<client, travel, service, workers, verdict, written, log, history, faults>>

Init ==
  /\ cur = None
  /\ step = "idle"
  /\ answer = [r \in Req |-> None]
  /\ retired = [r \in Req |-> "no"]
  /\ fresh = Req
  /\ travel = {}
  /\ up = TRUE
  /\ start = 0
  /\ accepted = {}
  /\ queue = [w \in Worker |-> <<>>]
  /\ worked = {}
  /\ verdict = [r \in Req |-> None]
  /\ written = [r \in Req |-> 0]
  /\ log = {}
  /\ acts = [r \in Req |-> 0]
  /\ results = [r \in Req |-> 0]
  /\ dropped = {}
  /\ faults = 0

Fault ==
  /\ faults < MaxFault
  /\ faults' = faults + 1

-----------------------------------------------------------------------------
(* What a dump of logcat says *)

LinesOf(r) == {l \in log : l.req = r}
ChunksOf(r) == {l \in LinesOf(r) : l.part # 0}

\* reassemble_chunked_payload: all chunks with one digest, or no chunk at all
\* and a result on one line.
Readable(r, v) ==
  IF ChunksOf(r) = {}
  THEN \E l \in LinesOf(r) : l.legible /\ l.verdict = v
  ELSE /\ \A l \in ChunksOf(r) : l.legible /\ l.verdict = v
       /\ {l.part : l \in ChunksOf(r)} = 1..Chunks

Found(r) == \E v \in Verdict : Readable(r, v)

\* An illegible chunk of the request ends it.  So does, for a focus command, its
\* own illegible line, or anybody's when no other focus result is there.
Illegible(r) ==
  \/ \E l \in ChunksOf(r) : ~l.legible
  \/ /\ r \notin Smart
     /\ ChunksOf(r) = {}
     /\ LET payloads == {l \in log : l.part = 0 /\ l.req \notin Smart} IN
        \E l \in payloads : ~l.legible /\ (l.req = r \/ payloads = {l})

\* observe_late_focus_results and, when reading for SMART_NEXT,
\* observe_late_smart_results.
Observed ==
  [q \in Req |->
     IF retired[q] = "awaited" /\ (q \in Smart => cur \in Smart) /\ Found(q)
     THEN "observed" ELSE retired[q]]

-----------------------------------------------------------------------------
(* The client *)

\* The broadcast is handed to adb.
Request(r) ==
  /\ cur = None
  /\ r \in fresh
  /\ fresh' = fresh \ {r}
  /\ cur' = r
  /\ step' = "sent"
  /\ travel' = travel \cup {r}
  /\ UNCHANGED <<answer, retired, service, workers, verdict, written, log, history, faults>>

\* am broadcast returns when the receiver has; it also returns when there was
\* no receiver to run.
Delivered ==
  /\ step = "sent"
  /\ cur \notin travel
  /\ step' = "wait"
  /\ UNCHANGED <<cur, answer, retired, fresh, travel, service, workers, verdict, written, log, history, faults>>

\* The request returns a.
Return(a) ==
  /\ answer' = [answer EXCEPT ![cur] = a]
  /\ cur' = None
  /\ step' = "idle"
  /\ UNCHANGED <<fresh, travel, service, workers, verdict, written, log, history, faults>>

\* Mutant: a failed delivery is tried again.
DeliveryRetried ==
  /\ step = "sent"
  /\ travel' = travel \cup {cur}
  /\ UNCHANGED <<client, service, workers, verdict, written, log, history, faults>>

\* adb fails or takes its 30 seconds: whether the app has the request, or will
\* have it, is not known, and it is not sent again.
DeliveryFails ==
  /\ step = "sent"
  /\ retired' = [retired EXCEPT ![cur] = "awaited"]
  /\ Return("error")

\* A poll finds the result in time.
PollAnswered ==
  /\ step = "wait"
  /\ \E v \in Verdict : Readable(cur, v) /\ Return(v)
  /\ retired' = Observed

\* A poll finds it, but its dump took longer than was left of the 75 seconds.
PollLate ==
  /\ step = "wait"
  /\ Found(cur)
  /\ retired' = [Observed EXCEPT ![cur] = "observed"]
  /\ Return("error")

\* A poll finds a line it cannot read.
PollIllegible ==
  /\ step = "wait"
  /\ Illegible(cur)
  /\ retired' = [Observed EXCEPT ![cur] = "awaited"]
  /\ Return("error")

\* A poll finds nothing of its own, perhaps a late result of another request.
PollOther ==
  /\ step = "wait"
  /\ ~Found(cur)
  /\ retired' = Observed
  /\ UNCHANGED <<cur, step, answer, fresh, travel, service, workers, verdict, written, log, history, faults>>

\* The 75 seconds end after a poll that found nothing, or whose dump failed;
\* the result may have come since.
WaitEnds ==
  /\ step = "wait"
  /\ retired' = [retired EXCEPT ![cur] = "awaited"]
  /\ Return("error")

\* clear_logcat, before the commands that are not modelled here.
ClearLog ==
  /\ cur = None
  /\ log' = {}
  /\ UNCHANGED <<client, travel, service, workers, verdict, written, history, faults>>

-----------------------------------------------------------------------------
(* The helper app *)

\* The receiver runs.  Without a service it writes a failure; with one it hands
\* the request to the family's worker unless the dispatcher remembers the id.
Refuse(r) ==
  /\ ~up
  /\ verdict' = [verdict EXCEPT ![r] = "refused"]
  /\ log' = log \cup {[req |-> r, verdict |-> "refused", part |-> 0, legible |-> TRUE]}
  /\ results' = [results EXCEPT ![r] = @ + 1]
  /\ UNCHANGED <<accepted, queue>>

Enqueue(r) ==
  /\ up
  /\ accepted' = accepted \cup {r}
  /\ IF r \in accepted
     THEN UNCHANGED queue
     ELSE queue' = [queue EXCEPT ![<<FamilyOf(r), start>>] = Append(@, r)]
  /\ UNCHANGED <<verdict, log, results>>

Receive(r) ==
  /\ r \in travel
  /\ travel' = travel \ {r}
  /\ Refuse(r) \/ Enqueue(r)
  /\ UNCHANGED <<client, up, start, worked, written, acts, dropped, faults>>

\* A worker has the request.
Held(r) == \E w \in Worker : \E i \in DOMAIN queue[w] : queue[w][i] = r

\* The worker does the work of the request at its head.
Work(w) ==
  /\ queue[w] # <<>>
  /\ w \notin worked
  /\ worked' = worked \cup {w}
  /\ LET r == Head(queue[w]) IN
     /\ acts' = [acts EXCEPT ![r] = @ + 1]
     /\ \E v \in {"moved", "failed"} : verdict' = [verdict EXCEPT ![r] = v]
  /\ UNCHANGED <<client, travel, service, queue, written, log, results, dropped, faults>>

\* The worker takes up the next request.
Leave(w) ==
  /\ queue' = [queue EXCEPT ![w] = Tail(@)]
  /\ worked' = worked \ {w}

\* It writes a short result at once.
WriteLine(w) ==
  /\ w \in worked
  /\ LET r == Head(queue[w]) IN
     /\ written[r] = 0
     /\ log' = log \cup {[req |-> r, verdict |-> verdict[r], part |-> 0, legible |-> TRUE]}
     /\ results' = [results EXCEPT ![r] = @ + 1]
  /\ Leave(w)
  /\ UNCHANGED <<client, travel, service, verdict, written, acts, dropped, faults>>

\* Mutant: one chunk too many.
WriteChunkMore(w) ==
  /\ w \in worked
  /\ LET r == Head(queue[w])
         n == written[r] + 1 IN
     /\ written' = [written EXCEPT ![r] = n]
     /\ log' = log \cup {[req |-> r, verdict |-> verdict[r], part |-> n, legible |-> TRUE]}
     /\ IF n > Chunks
        THEN Leave(w) /\ results' = [results EXCEPT ![r] = @ + 1]
        ELSE UNCHANGED <<workers, results>>
  /\ UNCHANGED <<client, travel, service, verdict, acts, dropped, faults>>

\* It writes a long one chunk by chunk, and a poll may come between two.
WriteChunk(w) ==
  /\ w \in worked
  /\ LET r == Head(queue[w])
         n == written[r] + 1 IN
     /\ written' = [written EXCEPT ![r] = n]
     /\ log' = log \cup {[req |-> r, verdict |-> verdict[r], part |-> n, legible |-> TRUE]}
     /\ IF n = Chunks
        THEN Leave(w) /\ results' = [results EXCEPT ![r] = @ + 1]
        ELSE UNCHANGED <<workers, results>>
  /\ UNCHANGED <<client, travel, service, verdict, acts, dropped, faults>>

\* Attaching the evidence raises before anything is written: the exception is
\* logged, and there is no result.
WriteRaises(w) ==
  /\ Fault
  /\ w \in worked
  /\ w[1] = "smart"
  /\ LET r == Head(queue[w]) IN
     /\ written[r] = 0
     /\ dropped' = dropped \cup {r}
  /\ Leave(w)
  /\ UNCHANGED <<client, travel, service, verdict, written, log, acts, results>>

\* Mutant: onDestroy shuts the workers down at once.
DestroyNow ==
  /\ up
  /\ up' = FALSE
  /\ queue' = [w \in Worker |-> <<>>]
  /\ worked' = {}
  /\ UNCHANGED <<client, travel, start, accepted, verdict, written, log, history, faults>>

\* onDestroy: the dispatchers take nothing more, and what they hold is drained.
Destroy ==
  /\ up
  /\ up' = FALSE
  /\ UNCHANGED <<client, travel, start, accepted, workers, verdict, written, log, history, faults>>

\* The system binds the service again: new dispatchers, which remember nothing.
Connect ==
  /\ ~up
  /\ start < MaxStart
  /\ up' = TRUE
  /\ start' = start + 1
  /\ accepted' = {}
  /\ UNCHANGED <<client, travel, workers, verdict, written, log, history, faults>>

\* The process is killed with everything its workers hold.
Kill ==
  /\ Fault
  /\ up' = FALSE
  /\ queue' = [w \in Worker |-> <<>>]
  /\ worked' = {}
  /\ dropped' = dropped \cup {r \in Req : Held(r)}
  /\ UNCHANGED <<client, travel, start, accepted, verdict, written, log, acts, results>>

-----------------------------------------------------------------------------
(* adb and logcat *)

\* A broadcast never reaches the receiver.
LoseBroadcast(r) ==
  /\ Fault
  /\ r \in travel
  /\ travel' = travel \ {r}
  /\ dropped' = dropped \cup {r}
  /\ UNCHANGED <<client, service, workers, verdict, written, log, acts, results>>

\* A line is pushed out of logcat's buffer.
LoseLine(l) ==
  /\ Fault
  /\ log' = log \ {l}
  /\ UNCHANGED <<client, travel, service, workers, verdict, written, history>>

\* A line comes out illegible.
GarbleLine(l) ==
  /\ Fault
  /\ log' = (log \ {l}) \cup {[l EXCEPT !.legible = FALSE]}
  /\ UNCHANGED <<client, travel, service, workers, verdict, written, history>>

-----------------------------------------------------------------------------
WorkerStep(w) == Work(w) \/ WriteLine(w) \/ WriteChunk(w) \/ WriteRaises(w)

Next ==
  \/ \E r \in Req : Request(r) \/ Receive(r) \/ LoseBroadcast(r)
  \/ Delivered \/ DeliveryFails
  \/ PollAnswered \/ PollLate \/ PollIllegible \/ PollOther \/ WaitEnds
  \/ ClearLog
  \/ \E w \in Worker : WorkerStep(w)
  \/ Destroy \/ Connect \/ Kill
  \/ \E l \in log : LoseLine(l) \/ GarbleLine(l)

Spec == Init /\ [][Next]_vars

-----------------------------------------------------------------------------
TypeOK ==
  /\ cur \in Req \cup {None}
  /\ step \in {"idle", "sent", "wait"}
  /\ answer \in [Req -> Answer \cup {None}]
  /\ retired \in [Req -> {"no", "awaited", "observed"}]
  /\ fresh \subseteq Req
  /\ travel \subseteq Req
  /\ up \in BOOLEAN
  /\ start \in 0..MaxStart
  /\ accepted \subseteq Req
  /\ queue \in [Worker -> Seq(Req)]
  /\ worked \subseteq Worker
  /\ verdict \in [Req -> Verdict \cup {None}]
  /\ written \in [Req -> 0..Chunks]
  /\ log \subseteq Line
  /\ acts \in [Req -> Nat]
  /\ results \in [Req -> Nat]
  /\ dropped \subseteq Req
  /\ faults \in 0..MaxFault

\* A request moves the focus at most once, and is given at most one result,
\* although its delivery may be uncertain and the service may have forgotten
\* it: the client never sends it twice.
AtMostOnce == \A r \in Req : acts[r] <= 1 /\ results[r] <= 1

\* A request that returns a result returns its own, and the whole of it; one
\* that was told there was no service did not move the focus and never will.
AnswerIsOwn ==
  \A r \in Req : answer[r] \in Verdict =>
     /\ results[r] = 1
     /\ verdict[r] = answer[r]
     /\ acts[r] = IF answer[r] = "refused" THEN 0 ELSE 1

\* A retired request is put down as observed only when its whole result was
\* written: a part of a late result, or another request's, is not taken for it.
ObservedWasWritten == \A r \in Req : retired[r] = "observed" => results[r] = 1

\* Nothing that reached the app is lost in silence: it is with a worker, or has
\* its result, or went with its process or with the evidence that raised.  The
\* service may have been destroyed since, and started again.
NothingLost ==
  \A r \in Req \ (fresh \cup travel) : Held(r) \/ results[r] = 1 \/ r \in dropped

-----------------------------------------------------------------------------
(* What makes the invariants inductive *)

\* A request is held once, by one worker.
HeldOnce ==
  \A w, v \in Worker : \A i \in DOMAIN queue[w], j \in DOMAIN queue[v] :
     queue[w][i] = queue[v][j] => w = v /\ i = j

\* What a worker has done is the work of its first request.
WorkedOK ==
  \A w \in Worker :
     /\ w \in worked => queue[w] # <<>>
     /\ \A i \in DOMAIN queue[w] : verdict[queue[w][i]] # None <=> i = 1 /\ w \in worked

\* Nothing is known of a request that has not reached the app.
Ahead(r) ==
  /\ r \notin accepted
  /\ ~Held(r)
  /\ verdict[r] = None
  /\ results[r] = 0
  /\ written[r] = 0

\* Where a request is: unused, on its way, with a worker, or past it.
PlaceOK ==
  \A r \in Req :
     /\ r = cur => answer[r] = None
     /\ r \in fresh => r \notin travel /\ r # cur /\ answer[r] = None /\ retired[r] = "no"
     /\ r \in fresh \cup travel => Ahead(r)
     /\ Held(r) => results[r] = 0 /\ written[r] < Chunks /\ verdict[r] # "refused"

\* What is recorded of a request fits together.
RecordOK ==
  \A r \in Req :
     /\ acts[r] = IF verdict[r] \in {None, "refused"} THEN 0 ELSE 1
     /\ results[r] <= 1
     /\ written[r] = Chunks => results[r] = 1

\* A line tells what the app found, and comes after what it belongs to.
LogOK ==
  \A l \in log :
     /\ l.verdict = verdict[l.req]
     /\ l.part = 0 => results[l.req] = 1
     /\ l.part <= written[l.req]

IInv ==
  /\ TypeOK
  /\ step = "idle" <=> cur = None
  /\ HeldOnce
  /\ WorkedOK
  /\ PlaceOK
  /\ RecordOK
  /\ LogOK
  /\ AnswerIsOwn
  /\ ObservedWasWritten
  /\ NothingLost

=============================================================================
