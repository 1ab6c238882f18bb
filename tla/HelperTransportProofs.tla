----------------------- MODULE HelperTransportProofs -----------------------
(***************************************************************************)
(* Proofs about HelperTransport for every set of requests, every length of *)
(* a result and any number of faults and restarts.                         *)
(***************************************************************************)
EXTENDS HelperRefinement, TLAPS

USE TransportAssumption

Retirement == {"no", "awaited", "observed"}
Part == 0..Chunks

LEMMA InitOK == Init => IInv
<1> SUFFICES ASSUME Init PROVE IInv
  OBVIOUS
<1>1. queue \in [Worker -> Seq(Req)] /\ \A w \in Worker : DOMAIN queue[w] = {}
  BY DEF Init
<1>2. \A r \in Req : ~Held(r)
  BY <1>1 DEF Held
<1>3. TypeOK
  BY <1>1 DEF Init, TypeOK
<1>4. HeldOnce /\ WorkedOK
  BY <1>1 DEF Init, HeldOnce, WorkedOK
<1>5. PlaceOK /\ RecordOK /\ LogOK
  BY <1>2 DEF Init, PlaceOK, Ahead, RecordOK, LogOK
<1>6. AnswerIsOwn /\ ObservedWasWritten /\ NothingLost
  BY DEF Init, AnswerIsOwn, ObservedWasWritten, NothingLost, Answer
<1>7. step = "idle" /\ cur = None
  BY DEF Init
<1> QED BY <1>3, <1>4, <1>5, <1>6, <1>7 DEF IInv

-----------------------------------------------------------------------------
(* What a poll may conclude.                                               *)

\* A readable result is the one the app found, and all of it was written.
LEMMA ReadableIsWhole ==
  ASSUME IInv, NEW r \in Req, NEW v \in Verdict, Readable(r, v)
  PROVE  verdict[r] = v /\ results[r] = 1
<1> USE DEF IInv
<1>1. CASE ChunksOf(r) = {}
  <2>1. PICK l \in LinesOf(r) : l.legible /\ l.verdict = v
    BY <1>1 DEF Readable
  <2>2. l \in log /\ l.req = r /\ l.part = 0
    BY <1>1, <2>1 DEF LinesOf, ChunksOf
  <2> QED BY <2>1, <2>2 DEF LogOK
<1>2. CASE ChunksOf(r) # {}
  <2>1. /\ \A l \in ChunksOf(r) : l.verdict = v
        /\ {l.part : l \in ChunksOf(r)} = 1..Chunks
    BY <1>2 DEF Readable
  <2>2. PICK l \in ChunksOf(r) : l.part = Chunks
    BY <2>1
  <2>3. l \in log /\ l.req = r
    BY <2>2 DEF ChunksOf, LinesOf
  <2>4. verdict[r] = v /\ Chunks <= written[r]
    BY <2>1, <2>2, <2>3 DEF LogOK
  <2>5. written[r] = Chunks
    BY <2>4 DEF TypeOK
  <2> QED BY <2>4, <2>5 DEF RecordOK
<1> QED BY <1>1, <1>2

\* Looking for late results puts down as observed only what was written.
LEMMA ObservedIsSound ==
  ASSUME IInv
  PROVE  /\ Observed \in [Req -> Retirement]
         /\ \A q \in Req : Observed[q] = "observed" => results[q] = 1
         /\ \A q \in Req : retired[q] = "no" => Observed[q] = "no"
<1>1. \A q \in Req : Found(q) => results[q] = 1
  BY ReadableIsWhole DEF Found
<1>2. retired \in [Req -> Retirement]
  BY DEF IInv, TypeOK, Retirement
<1> QED BY <1>1, <1>2 DEF Observed, Retirement, IInv, ObservedWasWritten

\* A request returns: what it returns and what is put down as observed must be
\* backed by what was written.
LEMMA ReturnKeeps ==
  ASSUME IInv, step # "idle", NEW a \in Answer, Return(a),
         a \in Verdict => verdict[cur] = a /\ results[cur] = 1,
         retired' \in [Req -> Retirement],
         \A q \in Req : retired'[q] = "observed" => results[q] = 1,
         \A q \in Req \ {cur} : retired[q] = "no" => retired'[q] = "no"
  PROVE  IInv'
<1> USE DEF IInv, Return, service, workers, history
<1>1. cur \in Req
  BY DEF TypeOK
<1>2. TypeOK' /\ (step = "idle" <=> cur = None)'
  BY <1>1 DEF TypeOK, Retirement
<1>3. \A r \in Req : Held(r)' <=> Held(r)
  BY DEF Held
<1>4. HeldOnce' /\ WorkedOK' /\ RecordOK' /\ LogOK'
  BY DEF HeldOnce, WorkedOK, RecordOK, LogOK
<1>5. \A r \in Req : answer'[r] = IF r = cur THEN a ELSE answer[r]
  BY <1>1 DEF TypeOK
<1>6. PlaceOK'
  BY <1>1, <1>3, <1>5 DEF PlaceOK, Ahead
<1>7. AnswerIsOwn'
  BY <1>1, <1>5 DEF AnswerIsOwn, RecordOK, Verdict
<1>8. ObservedWasWritten'
  BY DEF ObservedWasWritten
<1>9. NothingLost'
  BY <1>3 DEF NothingLost
<1> QED BY <1>2, <1>4, <1>6, <1>7, <1>8, <1>9

-----------------------------------------------------------------------------
(* The steps of the client.                                                *)

LEMMA RequestKeeps ==
  ASSUME IInv, NEW r \in Req, Request(r)
  PROVE  IInv'
<1> USE DEF IInv, Request, service, workers, history
<1>1. TypeOK' /\ (step = "idle" <=> cur = None)'
  BY DEF TypeOK
<1>2. \A q \in Req : Held(q)' <=> Held(q)
  BY DEF Held
<1>3. HeldOnce' /\ WorkedOK' /\ RecordOK' /\ LogOK' /\ AnswerIsOwn' /\ ObservedWasWritten'
  BY DEF HeldOnce, WorkedOK, RecordOK, LogOK, AnswerIsOwn, ObservedWasWritten
<1>4. PlaceOK'
  BY <1>2 DEF PlaceOK, Ahead, TypeOK
<1>5. NothingLost'
  BY <1>2 DEF NothingLost
<1> QED BY <1>1, <1>3, <1>4, <1>5

LEMMA DeliveryFailsKeeps ==
  ASSUME IInv, DeliveryFails
  PROVE  IInv'
<1>1. retired' = [retired EXCEPT ![cur] = "awaited"] /\ retired \in [Req -> Retirement]
  BY DEF DeliveryFails, IInv, TypeOK, Retirement
<1>2. \A q \in Req : retired'[q] = "observed" => results[q] = 1
  BY <1>1 DEF IInv, ObservedWasWritten
<1> QED BY <1>1, <1>2, ReturnKeeps DEF DeliveryFails, Answer, Verdict, Retirement

LEMMA PollAnsweredKeeps ==
  ASSUME IInv, PollAnswered
  PROVE  IInv'
<1>1. PICK v \in Verdict : Readable(cur, v) /\ Return(v)
  BY DEF PollAnswered
<1>2. cur \in Req
  BY DEF PollAnswered, IInv, TypeOK
<1>3. verdict[cur] = v /\ results[cur] = 1
  BY <1>1, <1>2, ReadableIsWhole
<1> QED BY <1>1, <1>3, ObservedIsSound, ReturnKeeps DEF PollAnswered, Answer

LEMMA PollLateKeeps ==
  ASSUME IInv, PollLate
  PROVE  IInv'
<1>1. cur \in Req
  BY DEF PollLate, IInv, TypeOK
<1>2. results[cur] = 1
  BY <1>1, ReadableIsWhole DEF PollLate, Found
<1>3. retired' = [Observed EXCEPT ![cur] = "observed"]
  BY DEF PollLate
<1>4. retired' \in [Req -> Retirement]
  BY <1>3, ObservedIsSound DEF Retirement
<1>5. \A q \in Req : retired'[q] = IF q = cur THEN "observed" ELSE Observed[q]
  BY <1>3, ObservedIsSound
<1> QED BY <1>2, <1>4, <1>5, ObservedIsSound, ReturnKeeps DEF PollLate, Answer, Verdict

LEMMA PollIllegibleKeeps ==
  ASSUME IInv, PollIllegible
  PROVE  IInv'
<1>1. retired' = [Observed EXCEPT ![cur] = "awaited"]
  BY DEF PollIllegible
<1>2. retired' \in [Req -> Retirement]
  BY <1>1, ObservedIsSound DEF Retirement
<1>3. \A q \in Req : retired'[q] = IF q = cur THEN "awaited" ELSE Observed[q]
  BY <1>1, ObservedIsSound
<1> QED BY <1>2, <1>3, ObservedIsSound, ReturnKeeps DEF PollIllegible, Answer, Verdict

LEMMA WaitEndsKeeps ==
  ASSUME IInv, WaitEnds
  PROVE  IInv'
<1>1. retired' = [retired EXCEPT ![cur] = "awaited"] /\ retired \in [Req -> Retirement]
  BY DEF WaitEnds, IInv, TypeOK, Retirement
<1>2. \A q \in Req : retired'[q] = "observed" => results[q] = 1
  BY <1>1 DEF IInv, ObservedWasWritten
<1> QED BY <1>1, <1>2, ReturnKeeps DEF WaitEnds, Answer, Verdict, Retirement

\* The steps that change only where the client waits, what it has observed, or
\* which lines logcat still holds and how they read.
LEMMA QuietKeeps ==
  ASSUME IInv,
         UNCHANGED <<cur, answer, fresh, travel, service, workers, verdict, written, history>>,
         step' \in {"idle", "sent", "wait"}, (step = "idle") <=> (step' = "idle"),
         retired' \in [Req -> Retirement],
         \A q \in Req : retired'[q] = "observed" => results[q] = 1,
         \A q \in Req : retired[q] = "no" => retired'[q] = "no",
         log' \subseteq Line,
         \A l \in log' : \E k \in log : l.req = k.req /\ l.verdict = k.verdict /\ l.part = k.part,
         faults' \in 0..MaxFault
  PROVE  IInv'
<1> USE DEF IInv, service, workers, history
<1>1. TypeOK' /\ (step = "idle" <=> cur = None)'
  BY DEF TypeOK, Retirement
<1>2. \A q \in Req : Held(q)' <=> Held(q)
  BY DEF Held
<1>3. HeldOnce' /\ WorkedOK' /\ RecordOK' /\ AnswerIsOwn' /\ ObservedWasWritten'
  BY DEF HeldOnce, WorkedOK, RecordOK, AnswerIsOwn, ObservedWasWritten
<1>4. PlaceOK' /\ NothingLost'
  BY <1>2 DEF PlaceOK, Ahead, NothingLost
<1>5. LogOK'
  BY DEF LogOK
<1> QED BY <1>1, <1>3, <1>4, <1>5

LEMMA DeliveredKeeps ==
  ASSUME IInv, Delivered
  PROVE  IInv'
<1>1. retired' \in [Req -> Retirement] /\ log' \subseteq Line /\ faults' \in 0..MaxFault
  BY DEF Delivered, IInv, TypeOK, Retirement
<1>2. \A q \in Req : retired'[q] = "observed" => results[q] = 1
  BY DEF Delivered, IInv, ObservedWasWritten
<1> QED BY <1>1, <1>2, QuietKeeps DEF Delivered

LEMMA PollOtherKeeps ==
  ASSUME IInv, PollOther
  PROVE  IInv'
<1>1. log' \subseteq Line /\ faults' \in 0..MaxFault
  BY DEF PollOther, IInv, TypeOK
<1> QED BY <1>1, ObservedIsSound, QuietKeeps DEF PollOther

\* The log may lose lines or have them garbled.
LEMMA LogFadesKeeps ==
  ASSUME IInv,
         UNCHANGED <<client, travel, service, workers, verdict, written, history>>,
         log' \subseteq Line,
         \A l \in log' : \E k \in log : l.req = k.req /\ l.verdict = k.verdict /\ l.part = k.part,
         faults' \in 0..MaxFault
  PROVE  IInv'
<1>1. retired' \in [Req -> Retirement] /\ step' \in {"idle", "sent", "wait"}
  BY DEF client, IInv, TypeOK, Retirement
<1>2. \A q \in Req : retired'[q] = "observed" => results[q] = 1
  BY DEF client, IInv, ObservedWasWritten
<1> QED BY <1>1, <1>2, QuietKeeps DEF client

LEMMA ClearLogKeeps ==
  ASSUME IInv, ClearLog
  PROVE  IInv'
<1>1. faults' \in 0..MaxFault /\ log' = {}
  BY DEF ClearLog, IInv, TypeOK
<1> QED BY <1>1, LogFadesKeeps DEF ClearLog

LEMMA LoseLineKeeps ==
  ASSUME IInv, NEW l \in log, LoseLine(l)
  PROVE  IInv'
<1>1. faults' \in 0..MaxFault
  BY DEF LoseLine, Fault, IInv, TypeOK
<1>2. log' \subseteq Line /\ log' \subseteq log
  BY DEF LoseLine, IInv, TypeOK
<1> QED BY <1>1, <1>2, LogFadesKeeps DEF LoseLine

LEMMA GarbleLineKeeps ==
  ASSUME IInv, NEW l \in log, GarbleLine(l)
  PROVE  IInv'
<1> DEFINE g == [l EXCEPT !.legible = FALSE]
<1>1. faults' \in 0..MaxFault
  BY DEF GarbleLine, Fault, IInv, TypeOK
<1>2. l \in Line /\ log \subseteq Line
  BY DEF IInv, TypeOK
<1>3. g \in Line /\ g.req = l.req /\ g.verdict = l.verdict /\ g.part = l.part
  BY <1>2 DEF Line
<1>4. log' = (log \ {l}) \cup {g}
  BY DEF GarbleLine
<1>5. log' \subseteq Line
  BY <1>2, <1>3, <1>4
<1>6. \A m \in log' : \E k \in log : m.req = k.req /\ m.verdict = k.verdict /\ m.part = k.part
  BY <1>3, <1>4
<1> QED BY <1>1, <1>5, <1>6, LogFadesKeeps DEF GarbleLine

-----------------------------------------------------------------------------
(* The queues of the workers.                                              *)

LEMMA AppendHolds ==
  ASSUME IInv, NEW w \in Worker, NEW r \in Req, ~Held(r), verdict[r] = None,
         queue' = [queue EXCEPT ![w] = Append(@, r)],
         UNCHANGED <<worked, verdict>>
  PROVE  /\ queue' \in [Worker -> Seq(Req)]
         /\ HeldOnce' /\ WorkedOK'
         /\ \A q \in Req : Held(q)' <=> Held(q) \/ q = r
<1> USE DEF IInv
<1>1. queue \in [Worker -> Seq(Req)]
  BY DEF TypeOK
<1>2. queue' \in [Worker -> Seq(Req)]
  BY <1>1
<1>3. \A v \in Worker : v # w => queue'[v] = queue[v]
  BY <1>1
<1>4. queue'[w] = Append(queue[w], r) /\ queue[w] \in Seq(Req)
  BY <1>1
<1>5. /\ DOMAIN queue[w] = 1..Len(queue[w]) /\ Len(queue[w]) \in Nat
      /\ DOMAIN queue'[w] = 1..(Len(queue[w]) + 1)
      /\ \A i \in DOMAIN queue[w] : queue'[w][i] = queue[w][i]
      /\ queue'[w][Len(queue[w]) + 1] = r
  BY <1>4
<1>6. \A v \in Worker : \A i \in DOMAIN queue[v] : queue[v][i] # r
  BY DEF Held
<1>7. \A v \in Worker : \A i \in DOMAIN queue'[v] :
         \/ i \in DOMAIN queue[v] /\ queue'[v][i] = queue[v][i]
         \/ v = w /\ i = Len(queue[w]) + 1 /\ queue'[v][i] = r
  BY <1>3, <1>5
<1>8. HeldOnce'
  BY <1>6, <1>7 DEF HeldOnce
<1>9. \A v \in Worker : \A i \in DOMAIN queue[v] : i \in DOMAIN queue'[v] /\ queue'[v][i] = queue[v][i]
  BY <1>3, <1>5
<1>10. ASSUME NEW q \in Req PROVE Held(q)' <=> Held(q) \/ q = r
  <2>1. Held(q)' => Held(q) \/ q = r
    BY <1>7 DEF Held
  <2>2. Held(q) => Held(q)'
    BY <1>9 DEF Held
  <2>3. Held(r)'
    BY <1>5 DEF Held
  <2> QED BY <2>1, <2>2, <2>3
<1>11. WorkedOK'
  <2>1. ASSUME NEW v \in Worker, v \in worked PROVE queue'[v] # <<>>
    <3>1. 1 \in DOMAIN queue[v]
      BY <1>1, <2>1 DEF WorkedOK
    <3> QED BY <1>9, <3>1
  <2>2. ASSUME NEW v \in Worker, NEW i \in DOMAIN queue'[v]
        PROVE  verdict[queue'[v][i]] # None <=> i = 1 /\ v \in worked
    <3>1. CASE i \in DOMAIN queue[v] /\ queue'[v][i] = queue[v][i]
      BY <3>1 DEF WorkedOK
    <3>2. CASE v = w /\ i = Len(queue[w]) + 1 /\ queue'[v][i] = r
      <4>1. i = 1 => queue[w] = <<>>
        BY <1>4, <1>5, <3>2
      <4> QED BY <3>2, <4>1 DEF WorkedOK
    <3> QED BY <1>7, <3>1, <3>2
  <2> QED BY <2>1, <2>2 DEF WorkedOK
<1> QED BY <1>2, <1>8, <1>10, <1>11

LEMMA LeaveHolds ==
  ASSUME IInv, NEW w \in Worker, queue[w] # <<>>, Leave(w), UNCHANGED verdict
  PROVE  /\ queue' \in [Worker -> Seq(Req)] /\ worked' \subseteq Worker
         /\ HeldOnce' /\ WorkedOK'
         /\ \A q \in Req : Held(q)' <=> Held(q) /\ q # Head(queue[w])
<1> USE DEF IInv, Leave
<1>1. queue \in [Worker -> Seq(Req)] /\ queue[w] \in Seq(Req)
  BY DEF TypeOK
<1>2. queue' \in [Worker -> Seq(Req)] /\ worked' \subseteq Worker
  BY <1>1 DEF TypeOK
<1>3. \A v \in Worker : v # w => queue'[v] = queue[v]
  BY <1>1
<1>4. queue'[w] = Tail(queue[w])
  BY <1>1
<1>5. /\ DOMAIN queue[w] = 1..Len(queue[w]) /\ Len(queue[w]) \in Nat /\ Len(queue[w]) # 0
      /\ Head(queue[w]) = queue[w][1]
  BY <1>1
<1>6. /\ DOMAIN queue'[w] = 1..(Len(queue[w]) - 1)
      /\ \A i \in DOMAIN queue'[w] : i + 1 \in DOMAIN queue[w] /\ queue'[w][i] = queue[w][i + 1]
  BY <1>1, <1>4, <1>5
<1>7. HeldOnce'
  BY <1>3, <1>5, <1>6 DEF HeldOnce
<1>8. ASSUME NEW q \in Req PROVE Held(q)' <=> Held(q) /\ q # Head(queue[w])
  <2>1. ASSUME NEW v \in Worker, NEW i \in DOMAIN queue'[v], queue'[v][i] = q
        PROVE  Held(q) /\ q # Head(queue[w])
    <3>1. CASE v = w
      BY <1>5, <1>6, <2>1, <3>1 DEF Held, HeldOnce
    <3>2. CASE v # w
      BY <1>3, <1>5, <2>1, <3>2 DEF Held, HeldOnce
    <3> QED BY <3>1, <3>2
  <2>2. ASSUME NEW v \in Worker, NEW i \in DOMAIN queue[v], queue[v][i] = q, q # Head(queue[w])
        PROVE  Held(q)'
    <3>1. CASE v = w
      <4>1. i - 1 \in DOMAIN queue'[w] /\ queue'[w][i - 1] = queue[w][(i - 1) + 1]
        BY <1>5, <1>6, <2>2, <3>1
      <4>2. queue'[w][i - 1] = q
        BY <1>5, <2>2, <3>1, <4>1
      <4> QED BY <4>1, <4>2 DEF Held
    <3>2. CASE v # w
      BY <1>3, <2>2, <3>2 DEF Held
    <3> QED BY <3>1, <3>2
  <2> QED BY <2>1, <2>2 DEF Held
<1>9. WorkedOK'
  <2>1. ASSUME NEW v \in Worker, v \in worked' PROVE queue'[v] # <<>>
    BY <1>3, <2>1 DEF WorkedOK
  <2>2. ASSUME NEW v \in Worker, NEW i \in DOMAIN queue'[v]
        PROVE  verdict[queue'[v][i]] # None <=> i = 1 /\ v \in worked'
    <3>1. CASE v = w
      <4>1. /\ i + 1 \in DOMAIN queue[w] /\ i + 1 # 1
            /\ queue'[w][i] = queue[w][i + 1]
        BY <1>5, <1>6, <3>1
      <4>2. verdict[queue[w][i + 1]] = None
        BY <4>1 DEF WorkedOK
      <4> QED BY <3>1, <4>1, <4>2
    <3>2. CASE v # w
      <4>1. v \in worked' <=> v \in worked
        BY <3>2
      <4> QED BY <1>3, <3>2, <4>1 DEF WorkedOK
    <3> QED BY <3>1, <3>2
  <2> QED BY <2>1, <2>2 DEF WorkedOK
<1> QED BY <1>2, <1>7, <1>8, <1>9

-----------------------------------------------------------------------------
(* The steps of the app.                                                   *)

\* Without a service the receiver writes a failure.
LEMMA RefuseKeeps ==
  ASSUME IInv, NEW r \in Req, Receive(r), Refuse(r)
  PROVE  IInv'
<1> USE DEF IInv, Receive, Refuse, client
<1> DEFINE new == [req |-> r, verdict |-> "refused", part |-> 0, legible |-> TRUE]
<1>1. Ahead(r) /\ r \notin fresh
  BY DEF PlaceOK
<1>2. new \in Line
  BY DEF Line, Verdict
<1>3. /\ verdict' \in [Req -> Verdict \cup {None}] /\ results' \in [Req -> Nat]
      /\ \A q \in Req : verdict'[q] = IF q = r THEN "refused" ELSE verdict[q]
      /\ \A q \in Req : results'[q] = IF q = r THEN 1 ELSE results[q]
  BY <1>1 DEF TypeOK, Ahead, Verdict
<1>4. TypeOK' /\ (step = "idle" <=> cur = None)'
  BY <1>2, <1>3 DEF TypeOK
<1>5. \A q \in Req : Held(q)' <=> Held(q)
  BY DEF Held
<1>6. HeldOnce' /\ WorkedOK'
  <2>1. \A w \in Worker : \A i \in DOMAIN queue[w] : queue[w][i] # r
    BY <1>1 DEF Ahead, Held
  <2>2. \A w \in Worker : \A i \in DOMAIN queue[w] : queue[w][i] \in Req
    BY DEF TypeOK
  <2> QED BY <1>3, <2>1, <2>2 DEF HeldOnce, WorkedOK
<1>7. PlaceOK'
  BY <1>1, <1>3, <1>5 DEF PlaceOK, Ahead
<1>8. RecordOK'
  BY <1>1, <1>3 DEF RecordOK, Ahead
<1>9. LogOK'
  <2>1. ASSUME NEW l \in log PROVE l.req # r
    BY <1>1, <2>1 DEF LogOK, Ahead, TypeOK, Line, Verdict, Answer
  <2>2. \A l \in log : l.req \in Req
    BY DEF TypeOK, Line
  <2>3. log' = log \cup {new} /\ new.req = r /\ new.verdict = "refused" /\ new.part = 0
    OBVIOUS
  <2>4. written' = written /\ 0 <= written[r]
    BY DEF TypeOK
  <2> QED BY <1>3, <2>1, <2>2, <2>3, <2>4 DEF LogOK
<1>10. AnswerIsOwn' /\ ObservedWasWritten'
  BY <1>1, <1>3 DEF AnswerIsOwn, ObservedWasWritten, Ahead
<1>11. NothingLost'
  BY <1>3, <1>5 DEF NothingLost
<1> QED BY <1>4, <1>6, <1>7, <1>8, <1>9, <1>10, <1>11

\* With one it hands the request to a worker; the dispatcher cannot remember an
\* id that is still on its way.
LEMMA EnqueueKeeps ==
  ASSUME IInv, NEW r \in Req, Receive(r), Enqueue(r)
  PROVE  IInv'
<1> USE DEF IInv, Receive, Enqueue, client
<1> DEFINE w == <<FamilyOf(r), start>>
<1>1. Ahead(r) /\ r \notin fresh
  BY DEF PlaceOK
<1>2. w \in Worker
  BY DEF Worker, FamilyOf, Family, TypeOK
<1>3. queue' = [queue EXCEPT ![w] = Append(@, r)]
  BY <1>1 DEF Ahead
<1>4. /\ queue' \in [Worker -> Seq(Req)]
      /\ HeldOnce' /\ WorkedOK'
      /\ \A q \in Req : Held(q)' <=> Held(q) \/ q = r
  BY <1>1, <1>2, <1>3, AppendHolds DEF Ahead
<1>5. TypeOK' /\ (step = "idle" <=> cur = None)'
  BY <1>4 DEF TypeOK
<1>6. PlaceOK'
  BY <1>1, <1>4 DEF PlaceOK, Ahead, TypeOK, Answer, Verdict
<1>7. RecordOK' /\ LogOK' /\ AnswerIsOwn' /\ ObservedWasWritten'
  BY DEF RecordOK, LogOK, AnswerIsOwn, ObservedWasWritten
<1>8. NothingLost'
  BY <1>4 DEF NothingLost
<1> QED BY <1>4, <1>5, <1>6, <1>7, <1>8

\* The head of a worker's queue is a request, and it is held.
LEMMA HeadHeld ==
  ASSUME IInv, NEW w \in Worker, queue[w] # <<>>
  PROVE  /\ 1 \in DOMAIN queue[w] /\ Head(queue[w]) = queue[w][1]
         /\ Head(queue[w]) \in Req
         /\ Held(Head(queue[w]))
         /\ results[Head(queue[w])] = 0
         /\ written[Head(queue[w])] \in 0..(Chunks - 1)
         /\ verdict[Head(queue[w])] # "refused"
         /\ Head(queue[w]) \notin fresh \cup travel
<1>1. queue[w] \in Seq(Req)
  BY DEF IInv, TypeOK
<1>2. Head(queue[w]) = queue[w][1] /\ 1 \in DOMAIN queue[w] /\ Head(queue[w]) \in Req
  BY <1>1
<1>3. Held(Head(queue[w]))
  BY <1>2 DEF Held
<1>4. written[Head(queue[w])] \in 0..Chunks
  BY <1>2 DEF IInv, TypeOK
<1> QED BY <1>2, <1>3, <1>4 DEF IInv, PlaceOK, Ahead

\* A worker that has done its work still has the request, and knows how it went.
LEMMA WorkedHead ==
  ASSUME IInv, NEW w \in worked
  PROVE  /\ w \in Worker
         /\ queue[w] # <<>>
         /\ Head(queue[w]) \in Req
         /\ results[Head(queue[w])] = 0
         /\ written[Head(queue[w])] \in 0..(Chunks - 1)
         /\ verdict[Head(queue[w])] \in {"moved", "failed"}
         /\ verdict[Head(queue[w])] \in Verdict
         /\ Head(queue[w]) \notin fresh \cup travel
<1>1. w \in Worker /\ queue[w] # <<>>
  BY DEF IInv, TypeOK, WorkedOK
<1>2. 1 \in DOMAIN queue[w] /\ Head(queue[w]) = queue[w][1]
  BY <1>1 DEF IInv, TypeOK
<1>3. verdict[Head(queue[w])] # None
  BY <1>1, <1>2 DEF IInv, WorkedOK
<1>4. verdict[Head(queue[w])] \in Verdict \cup {None} /\ verdict[Head(queue[w])] # "refused"
  BY <1>1, HeadHeld DEF IInv, TypeOK
<1> QED BY <1>1, <1>3, <1>4, HeadHeld DEF Verdict

\* The work of the request at the head of a queue.
LEMMA WorkKeeps ==
  ASSUME IInv, NEW w \in Worker, Work(w)
  PROVE  IInv'
<1> USE DEF IInv, client, service
<1> DEFINE r == Head(queue[w])
<1>1. r \in Req /\ results[r] = 0 /\ r \notin fresh \cup travel
  BY HeadHeld DEF Work
<1>2. PICK v \in {"moved", "failed"} : verdict' = [verdict EXCEPT ![r] = v]
  BY DEF Work
<1>3. verdict[r] = None /\ acts' = [acts EXCEPT ![r] = @ + 1]
  <2>1. 1 \in DOMAIN queue[w] /\ r = queue[w][1]
    BY HeadHeld DEF Work
  <2> QED BY <2>1 DEF Work, WorkedOK
<1>4. acts[r] = 0
  BY <1>1, <1>3 DEF RecordOK
<1>5. /\ acts' \in [Req -> Nat] /\ verdict' \in [Req -> Verdict \cup {None}]
      /\ \A q \in Req : acts'[q] = IF q = r THEN 1 ELSE acts[q]
      /\ \A q \in Req : verdict'[q] = IF q = r THEN v ELSE verdict[q]
  BY <1>1, <1>2, <1>3, <1>4 DEF TypeOK, Verdict
<1>6. /\ UNCHANGED <<cur, step, answer, retired, fresh, travel, up, start, accepted>>
      /\ worked' = worked \cup {w}
      /\ UNCHANGED <<queue, written, log, results, dropped, faults>>
  BY DEF Work
<1>7. TypeOK' /\ (step = "idle" <=> cur = None)'
  BY <1>5, <1>6 DEF TypeOK
<1>8. \A q \in Req : Held(q)' <=> Held(q)
  BY <1>6 DEF Held
<1>9. HeldOnce'
  BY <1>6 DEF HeldOnce
<1>10. v # None /\ v # "refused"
  BY DEF Answer, Verdict
<1>11. WorkedOK'
  <2>1. r = queue[w][1] /\ 1 \in DOMAIN queue[w] /\ queue[w] # <<>>
    BY HeadHeld DEF Work
  <2>2. ASSUME NEW u \in Worker, NEW i \in DOMAIN queue[u]
        PROVE  verdict'[queue[u][i]] # None <=> i = 1 /\ u \in worked'
    <3>1. queue[u][i] \in Req
      BY DEF TypeOK
    <3>2. CASE queue[u][i] = r
      BY <1>1, <1>5, <1>6, <1>10, <2>1, <3>2 DEF HeldOnce
    <3>3. CASE queue[u][i] # r
      BY <1>5, <1>6, <2>1, <3>1, <3>3 DEF WorkedOK
    <3> QED BY <3>2, <3>3
  <2> QED BY <1>6, <2>1, <2>2 DEF WorkedOK
<1>12. PlaceOK'
  BY <1>1, <1>5, <1>6, <1>8, <1>10 DEF PlaceOK, Ahead
<1>13. RecordOK'
  BY <1>1, <1>5, <1>6, <1>10 DEF RecordOK
<1>14. LogOK'
  <2>1. \A l \in log : l.req \in Req /\ l.verdict \in Verdict
    BY DEF TypeOK, Line
  <2>2. \A l \in log : l.req # r
    BY <1>3, <2>1 DEF LogOK, Answer
  <2> QED BY <1>5, <1>6, <2>1, <2>2 DEF LogOK
<1>15. AnswerIsOwn' /\ ObservedWasWritten'
  BY <1>1, <1>5, <1>6 DEF AnswerIsOwn, ObservedWasWritten
<1>16. NothingLost'
  BY <1>6, <1>8 DEF NothingLost
<1> QED BY <1>7, <1>9, <1>11, <1>12, <1>13, <1>14, <1>15, <1>16

\* The end of a result: a line that says what the app found, and the next request.
LEMMA ResultEnds ==
  ASSUME IInv, NEW w \in worked, Leave(w),
         NEW r, r = Head(queue[w]),
         NEW n \in Part, n # 0 => n = written[r] + 1,
         n = 0 => written' = written,
         n # 0 => written' = [written EXCEPT ![r] = n],
         log' = log \cup {[req |-> r, verdict |-> verdict[r], part |-> n, legible |-> TRUE]},
         results' = [results EXCEPT ![r] = @ + 1],
         UNCHANGED <<client, travel, service, verdict, acts, dropped, faults>>
  PROVE  IInv'
<1> USE DEF IInv, client, service, Part
<1> DEFINE new == [req |-> r, verdict |-> verdict[r], part |-> n, legible |-> TRUE]
<1>1. /\ r \in Req /\ results[r] = 0 /\ r \notin fresh \cup travel
      /\ written[r] \in 0..(Chunks - 1) /\ verdict[r] \in Verdict
      /\ w \in Worker /\ queue[w] # <<>>
  BY WorkedHead
<1>2. new \in Line
  BY <1>1 DEF Line
<1>3. /\ queue' \in [Worker -> Seq(Req)] /\ worked' \subseteq Worker
      /\ HeldOnce' /\ WorkedOK'
      /\ \A q \in Req : Held(q)' <=> Held(q) /\ q # r
  BY <1>1, LeaveHolds
<1>4. /\ results' \in [Req -> Nat] /\ written' \in [Req -> 0..Chunks]
      /\ \A q \in Req : results'[q] = IF q = r THEN 1 ELSE results[q]
      /\ \A q \in Req : written'[q] = IF q = r /\ n # 0 THEN n ELSE written[q]
  <2>1. /\ results' \in [Req -> Nat]
        /\ \A q \in Req : results'[q] = IF q = r THEN 1 ELSE results[q]
    BY <1>1 DEF TypeOK
  <2>2. written \in [Req -> 0..Chunks]
    BY DEF TypeOK
  <2>3. CASE n = 0
    BY <2>1, <2>2, <2>3
  <2>4. CASE n # 0
    BY <1>1, <2>1, <2>2, <2>4
  <2> QED BY <2>3, <2>4
<1>5. TypeOK' /\ (step = "idle" <=> cur = None)'
  BY <1>2, <1>3, <1>4 DEF TypeOK
<1>6. PlaceOK'
  BY <1>1, <1>3, <1>4 DEF PlaceOK, Ahead
<1>7. RecordOK'
  BY <1>1, <1>4 DEF RecordOK
<1>8. LogOK'
  <2>1. \A l \in log : l.req \in Req /\ l.part \in 0..Chunks
    BY DEF TypeOK, Line
  <2>2. \A q \in Req : written[q] <= written'[q]
    BY <1>1, <1>4 DEF TypeOK
  <2>3. ASSUME NEW l \in log PROVE l.part <= written'[l.req]
    <3>1. l.req \in Req /\ l.part \in Nat /\ l.part <= written[l.req]
      BY <2>1 DEF LogOK
    <3>2. written[l.req] \in Nat /\ written'[l.req] \in Nat
      BY <1>4, <3>1 DEF TypeOK
    <3> QED BY <2>2, <3>1, <3>2
  <2>4. n <= written'[r] /\ results'[r] = 1
    BY <1>1, <1>4
  <2>5. new.req = r /\ new.verdict = verdict[r] /\ new.part = n /\ log' = log \cup {new}
    OBVIOUS
  <2>6. \A l \in log : l.part = 0 => results'[l.req] = 1
    BY <1>4, <2>1 DEF LogOK
  <2> QED BY <2>3, <2>4, <2>5, <2>6 DEF LogOK
<1>9. AnswerIsOwn' /\ ObservedWasWritten'
  BY <1>1, <1>4 DEF AnswerIsOwn, ObservedWasWritten
<1>10. NothingLost'
  BY <1>3, <1>4 DEF NothingLost
<1> QED BY <1>3, <1>5, <1>6, <1>7, <1>8, <1>9, <1>10

LEMMA WriteLineKeeps ==
  ASSUME IInv, NEW w \in Worker, WriteLine(w)
  PROVE  IInv'
<1>1. PICK r : r = Head(queue[w])
  OBVIOUS
<1>2. w \in worked /\ Leave(w)
  BY DEF WriteLine
<1>3. 0 \in Part
  BY DEF Part
<1>4. written' = written
  BY DEF WriteLine
<1>5. log' = log \cup {[req |-> r, verdict |-> verdict[r], part |-> 0, legible |-> TRUE]}
  BY <1>1 DEF WriteLine
<1>6. results' = [results EXCEPT ![r] = @ + 1]
  BY <1>1 DEF WriteLine
<1>7. UNCHANGED <<client, travel, service, verdict, acts, dropped, faults>>
  BY DEF WriteLine
<1> QED BY <1>1, <1>2, <1>3, <1>4, <1>5, <1>6, <1>7, ResultEnds

\* A chunk that is not the last one.
LEMMA ChunkKeeps ==
  ASSUME IInv, NEW w \in worked,
         NEW r, r = Head(queue[w]),
         NEW n \in 1..(Chunks - 1), n = written[r] + 1,
         written' = [written EXCEPT ![r] = n],
         log' = log \cup {[req |-> r, verdict |-> verdict[r], part |-> n, legible |-> TRUE]},
         UNCHANGED <<client, travel, service, workers, verdict, history, faults>>
  PROVE  IInv'
<1> USE DEF IInv, client, service, workers, history
<1> DEFINE new == [req |-> r, verdict |-> verdict[r], part |-> n, legible |-> TRUE]
<1>1. r \in Req /\ r \notin fresh \cup travel /\ verdict[r] \in Verdict
  BY WorkedHead
<1>2. new \in Line
  BY <1>1 DEF Line
<1>3. \A q \in Req : Held(q)' <=> Held(q)
  BY DEF Held
<1>4. /\ written' \in [Req -> 0..Chunks]
      /\ \A q \in Req : written'[q] = IF q = r THEN n ELSE written[q]
  BY <1>1 DEF TypeOK
<1>5. TypeOK' /\ (step = "idle" <=> cur = None)'
  BY <1>2, <1>4 DEF TypeOK
<1>6. HeldOnce' /\ WorkedOK' /\ AnswerIsOwn' /\ ObservedWasWritten'
  BY DEF HeldOnce, WorkedOK, AnswerIsOwn, ObservedWasWritten
<1>7. PlaceOK'
  BY <1>1, <1>3, <1>4 DEF PlaceOK, Ahead
<1>8. RecordOK'
  BY <1>1, <1>4 DEF RecordOK
<1>9. LogOK'
  <2>1. \A l \in log : l.req \in Req /\ l.part \in 0..Chunks
    BY DEF TypeOK, Line
  <2>2. \A q \in Req : written[q] <= written'[q]
    BY <1>1, <1>4 DEF TypeOK
  <2>3. ASSUME NEW l \in log PROVE l.part <= written'[l.req]
    <3>1. l.req \in Req /\ l.part \in Nat /\ l.part <= written[l.req]
      BY <2>1 DEF LogOK
    <3>2. written[l.req] \in Nat /\ written'[l.req] \in Nat
      BY <1>4, <3>1 DEF TypeOK
    <3> QED BY <2>2, <3>1, <3>2
  <2>4. new.req = r /\ new.verdict = verdict[r] /\ new.part = n /\ log' = log \cup {new} /\ n # 0
    OBVIOUS
  <2>5. n <= written'[r]
    BY <1>1, <1>4
  <2> QED BY <2>3, <2>4, <2>5 DEF LogOK
<1>10. NothingLost'
  BY <1>3 DEF NothingLost
<1> QED BY <1>5, <1>6, <1>7, <1>8, <1>9, <1>10

LEMMA WriteChunkKeeps ==
  ASSUME IInv, NEW w \in Worker, WriteChunk(w)
  PROVE  IInv'
<1>1. PICK r : r = Head(queue[w])
  OBVIOUS
<1>2. PICK n : n = written[r] + 1
  OBVIOUS
<1>3. w \in worked
  BY DEF WriteChunk
<1>4. r \in Req /\ n \in 1..Chunks
  BY <1>1, <1>2, <1>3, WorkedHead
<1>5. written' = [written EXCEPT ![r] = n]
  BY <1>1, <1>2 DEF WriteChunk
<1>6. log' = log \cup {[req |-> r, verdict |-> verdict[r], part |-> n, legible |-> TRUE]}
  BY <1>1, <1>2 DEF WriteChunk
<1>7. UNCHANGED <<client, travel, service, verdict, acts, dropped, faults>>
  BY DEF WriteChunk
<1>8. CASE n = Chunks
  <2>1. Leave(w) /\ results' = [results EXCEPT ![r] = @ + 1]
    BY <1>1, <1>2, <1>8 DEF WriteChunk
  <2>2. n \in Part /\ n # 0
    BY <1>4 DEF Part
  <2> QED BY <1>1, <1>2, <1>3, <1>5, <1>6, <1>7, <2>1, <2>2, ResultEnds
<1>9. CASE n # Chunks
  <2>1. UNCHANGED <<workers, results>>
    BY <1>1, <1>2, <1>9 DEF WriteChunk
  <2>2. n \in 1..(Chunks - 1)
    BY <1>4, <1>9
  <2>3. UNCHANGED <<client, travel, service, workers, verdict, history, faults>>
    BY <1>7, <2>1 DEF history
  <2> QED BY <1>1, <1>2, <1>3, <1>5, <1>6, <2>2, <2>3, ChunkKeeps
<1> QED BY <1>8, <1>9

\* The evidence raises: the request leaves without a result.
LEMMA WriteRaisesKeeps ==
  ASSUME IInv, NEW w \in Worker, WriteRaises(w)
  PROVE  IInv'
<1> USE DEF IInv, client, service
<1> DEFINE r == Head(queue[w])
<1>1. w \in worked /\ Leave(w) /\ dropped' = dropped \cup {r} /\ UNCHANGED verdict
  BY DEF WriteRaises
<1>2. r \in Req /\ queue[w] # <<>>
  BY <1>1, WorkedHead
<1>3. /\ queue' \in [Worker -> Seq(Req)] /\ worked' \subseteq Worker
      /\ HeldOnce' /\ WorkedOK'
      /\ \A q \in Req : Held(q)' <=> Held(q) /\ q # r
  BY <1>1, <1>2, LeaveHolds
<1>4. /\ UNCHANGED <<cur, step, answer, retired, fresh, travel, up, start, accepted>>
      /\ UNCHANGED <<verdict, written, log, acts, results>>
      /\ faults' \in 0..MaxFault
  BY DEF WriteRaises, Fault, TypeOK
<1>5. TypeOK' /\ (step = "idle" <=> cur = None)'
  BY <1>1, <1>2, <1>3, <1>4 DEF TypeOK
<1>6. PlaceOK'
  BY <1>3, <1>4 DEF PlaceOK, Ahead
<1>7. RecordOK' /\ LogOK' /\ AnswerIsOwn' /\ ObservedWasWritten'
  BY <1>4 DEF RecordOK, LogOK, AnswerIsOwn, ObservedWasWritten
<1>8. NothingLost'
  BY <1>1, <1>3, <1>4 DEF NothingLost
<1> QED BY <1>3, <1>5, <1>6, <1>7, <1>8

\* The process is killed: every queue is empty.
LEMMA KillKeeps ==
  ASSUME IInv, Kill
  PROVE  IInv'
<1> USE DEF IInv, client
<1>1. queue' = [w \in Worker |-> <<>>] /\ worked' = {} /\ dropped' = dropped \cup {r \in Req : Held(r)}
  BY DEF Kill
<1>2. \A w \in Worker : queue'[w] \in Seq(Req) /\ DOMAIN queue'[w] = {}
  BY <1>1
<1>3. \A q \in Req : ~Held(q)'
  BY <1>2 DEF Held
<1>4. /\ UNCHANGED <<cur, step, answer, retired, fresh, travel, start, accepted>>
      /\ UNCHANGED <<verdict, written, log, acts, results>>
      /\ up' = FALSE /\ faults' \in 0..MaxFault
  BY DEF Kill, Fault, TypeOK
<1>5. TypeOK' /\ (step = "idle" <=> cur = None)'
  BY <1>1, <1>2, <1>4 DEF TypeOK
<1>6. HeldOnce' /\ WorkedOK'
  BY <1>1, <1>2 DEF HeldOnce, WorkedOK
<1>7. PlaceOK'
  BY <1>3, <1>4 DEF PlaceOK, Ahead
<1>8. RecordOK' /\ LogOK' /\ AnswerIsOwn' /\ ObservedWasWritten'
  BY <1>4 DEF RecordOK, LogOK, AnswerIsOwn, ObservedWasWritten
<1>9. NothingLost'
  BY <1>1, <1>4 DEF NothingLost
<1> QED BY <1>5, <1>6, <1>7, <1>8, <1>9

\* The service goes and comes, and broadcasts are lost.
LEMMA AroundKeeps ==
  ASSUME IInv,
         UNCHANGED <<client, workers, verdict, written, log, acts, results>>,
         up' \in BOOLEAN, start' \in 0..MaxStart, faults' \in 0..MaxFault,
         accepted' \subseteq accepted, travel' \subseteq travel,
         dropped' = dropped \cup (travel \ travel')
  PROVE  IInv'
<1> USE DEF IInv, client, workers
<1>1. TypeOK' /\ (step = "idle" <=> cur = None)'
  BY DEF TypeOK
<1>2. \A q \in Req : Held(q)' <=> Held(q)
  BY DEF Held
<1>3. HeldOnce' /\ WorkedOK' /\ RecordOK' /\ LogOK' /\ AnswerIsOwn' /\ ObservedWasWritten'
  BY DEF HeldOnce, WorkedOK, RecordOK, LogOK, AnswerIsOwn, ObservedWasWritten
<1>4. PlaceOK'
  BY <1>2 DEF PlaceOK, Ahead
<1>5. NothingLost'
  BY <1>2 DEF NothingLost
<1> QED BY <1>1, <1>3, <1>4, <1>5

LEMMA DestroyKeeps == ASSUME IInv, Destroy PROVE IInv'
<1>1. up' \in BOOLEAN /\ start' \in 0..MaxStart /\ faults' \in 0..MaxFault
  BY DEF Destroy, IInv, TypeOK
<1> QED BY <1>1, AroundKeeps DEF Destroy, history

LEMMA ConnectKeeps == ASSUME IInv, Connect PROVE IInv'
<1>1. up' \in BOOLEAN /\ start' \in 0..MaxStart /\ faults' \in 0..MaxFault
  BY DEF Connect, IInv, TypeOK
<1> QED BY <1>1, AroundKeeps DEF Connect, history

LEMMA LoseBroadcastKeeps == ASSUME IInv, NEW r \in Req, LoseBroadcast(r) PROVE IInv'
<1>1. up' \in BOOLEAN /\ start' \in 0..MaxStart /\ faults' \in 0..MaxFault
  BY DEF LoseBroadcast, Fault, service, IInv, TypeOK
<1> QED BY <1>1, AroundKeeps DEF LoseBroadcast, service

-----------------------------------------------------------------------------
(* The transport implements the abstract request.                          *)

LEMMA FocusStutters ==
  ASSUME UNCHANGED <<fresh, acts, verdict, results, answer>>
  PROVE  UNCHANGED Focus!request
BY DEF Focus!request

LEMMA RequestAsks ==
  ASSUME IInv, NEW r \in Req, Request(r)
  PROVE  Focus!Next
<1>1. r \notin Req \ fresh /\ Req \ fresh' = (Req \ fresh) \cup {r}
  BY DEF Request
<1>2. Focus!Ask(r)
  BY <1>1 DEF Focus!Ask, Request, history
<1> QED BY <1>2 DEF Focus!Next

\* A request on its way is open: nothing has been found or written of it.
LEMMA RefuseRefuses ==
  ASSUME IInv, NEW r \in Req, Receive(r), Refuse(r)
  PROVE  Focus!Next
<1>1. r \in travel /\ r \notin fresh /\ Ahead(r)
  BY DEF Receive, IInv, PlaceOK
<1>2. acts[r] = 0 /\ verdict[r] = None /\ results[r] = 0
  BY <1>1 DEF IInv, RecordOK, Ahead
<1>3. results' = [results EXCEPT ![r] = 1]
  BY <1>2 DEF Refuse
<1>4. UNCHANGED <<fresh, acts, answer>> /\ verdict' = [verdict EXCEPT ![r] = "refused"]
  BY DEF Receive, Refuse, client
<1>5. Focus!Refuse(r)
  BY <1>1, <1>2, <1>3, <1>4 DEF Focus!Refuse, Focus!Open
<1> QED BY <1>5 DEF Focus!Next

\* So is one a worker has not worked on.
LEMMA WorkPerforms ==
  ASSUME IInv, NEW w \in Worker, Work(w)
  PROVE  Focus!Next
<1> DEFINE r == Head(queue[w])
<1>1. /\ r \in Req /\ r \notin fresh /\ results[r] = 0
      /\ 1 \in DOMAIN queue[w] /\ r = queue[w][1]
  BY HeadHeld DEF Work
<1>2. verdict[r] = None
  BY <1>1 DEF Work, IInv, WorkedOK
<1>3. acts[r] = 0
  BY <1>1, <1>2 DEF IInv, RecordOK
<1>4. PICK v \in {"moved", "failed"} : verdict' = [verdict EXCEPT ![r] = v]
  BY DEF Work
<1>5. acts' = [acts EXCEPT ![r] = 1] /\ UNCHANGED <<fresh, results, answer>>
  BY <1>3 DEF Work, client
<1>6. Focus!Perform(r, v)
  BY <1>1, <1>2, <1>3, <1>4, <1>5 DEF Focus!Perform, Focus!Open
<1> QED BY <1>1, <1>4, <1>6 DEF Focus!Next

\* The last line of a result gives it.
LEMMA ResultGives ==
  ASSUME IInv, NEW w \in worked, NEW r, r = Head(queue[w]),
         results' = [results EXCEPT ![r] = @ + 1],
         UNCHANGED <<fresh, acts, verdict, answer>>
  PROVE  Focus!Next
<1>1. r \in Req /\ results[r] = 0 /\ verdict[r] \in {"moved", "failed"}
  BY WorkedHead
<1>2. acts[r] = 1
  BY <1>1 DEF IInv, RecordOK, Answer, Verdict
<1>3. results' = [results EXCEPT ![r] = 1]
  BY <1>1
<1>4. Focus!Give(r)
  BY <1>1, <1>2, <1>3 DEF Focus!Give
<1> QED BY <1>1, <1>4 DEF Focus!Next

LEMMA WriteGives ==
  ASSUME IInv, NEW w \in Worker, WriteLine(w) \/ WriteChunk(w)
  PROVE  Focus!Next \/ UNCHANGED Focus!request
<1>1. PICK r : r = Head(queue[w])
  OBVIOUS
<1>2. w \in worked /\ UNCHANGED <<fresh, acts, verdict, answer>>
  BY DEF WriteLine, WriteChunk, client
<1>3. CASE WriteLine(w)
  <2>1. results' = [results EXCEPT ![r] = @ + 1]
    BY <1>1, <1>3 DEF WriteLine
  <2> QED BY <1>1, <1>2, <2>1, ResultGives
<1>4. CASE WriteChunk(w)
  <2>1. results' = [results EXCEPT ![r] = @ + 1] \/ UNCHANGED results
    BY <1>1, <1>4 DEF WriteChunk
  <2> QED BY <1>1, <1>2, <2>1, ResultGives, FocusStutters
<1> QED BY <1>3, <1>4

\* A request returns an error, or the result the app gave it.
LEMMA ReturnAnswers ==
  ASSUME IInv, step # "idle", NEW a \in Answer, Return(a),
         a \in Verdict => verdict[cur] = a /\ results[cur] = 1
  PROVE  Focus!Next
<1>1. cur \in Req /\ cur \notin fresh /\ answer[cur] = None
  BY DEF IInv, TypeOK, PlaceOK
<1>2. a = "error" \/ (results[cur] = 1 /\ a = verdict[cur])
  BY DEF Answer
<1>3. Focus!Answer(cur, a)
  BY <1>1, <1>2 DEF Focus!Answer, Return, history
<1>4. a \in {"moved", "failed", "refused", "error"}
  BY DEF Answer, Verdict
<1> QED BY <1>1, <1>3, <1>4 DEF Focus!Next

LEMMA ClientAnswers ==
  ASSUME IInv,
         DeliveryFails \/ PollAnswered \/ PollLate \/ PollIllegible \/ WaitEnds
  PROVE  Focus!Next
<1>1. CASE PollAnswered
  <2>1. PICK v \in Verdict : Readable(cur, v) /\ Return(v)
    BY <1>1 DEF PollAnswered
  <2>2. cur \in Req /\ step # "idle" /\ v \in Answer
    BY <1>1 DEF PollAnswered, IInv, TypeOK, Answer
  <2>3. verdict[cur] = v /\ results[cur] = 1
    BY <2>1, <2>2, ReadableIsWhole
  <2> QED BY <2>1, <2>2, <2>3, ReturnAnswers
<1>2. CASE DeliveryFails \/ PollLate \/ PollIllegible \/ WaitEnds
  <2>1. step # "idle" /\ Return("error")
    BY <1>2 DEF DeliveryFails, PollLate, PollIllegible, WaitEnds
  <2>2. "error" \in Answer /\ "error" \notin Verdict
    BY DEF Answer, Verdict
  <2> QED BY <2>1, <2>2, ReturnAnswers
<1> QED BY <1>1, <1>2

LEMMA StepImplements ==
  ASSUME IInv, [Next]_vars
  PROVE  [Focus!Next]_(Focus!request)
<1>1. CASE UNCHANGED vars
  BY <1>1, FocusStutters DEF vars, client, history
<1>2. ASSUME NEW r \in Req, Request(r) \/ Receive(r) \/ LoseBroadcast(r)
      PROVE  [Focus!Next]_(Focus!request)
  <2>1. Receive(r) /\ Enqueue(r) => UNCHANGED Focus!request
    BY FocusStutters DEF Receive, Enqueue, client
  <2>2. LoseBroadcast(r) => UNCHANGED Focus!request
    BY FocusStutters DEF LoseBroadcast, client
  <2> QED BY <1>2, <2>1, <2>2, RequestAsks, RefuseRefuses DEF Receive
<1>3. CASE DeliveryFails \/ PollAnswered \/ PollLate \/ PollIllegible \/ WaitEnds
  BY <1>3, ClientAnswers
<1>4. CASE Delivered \/ PollOther
  BY <1>4, FocusStutters DEF Delivered, PollOther, history
<1>5. CASE ClearLog \/ Destroy \/ Connect \/ Kill
  BY <1>5, FocusStutters DEF ClearLog, Destroy, Connect, Kill, client, history
<1>6. ASSUME NEW w \in Worker, WorkerStep(w)
      PROVE  [Focus!Next]_(Focus!request)
  <2>1. WriteRaises(w) => UNCHANGED Focus!request
    BY FocusStutters DEF WriteRaises, client
  <2> QED BY <1>6, <2>1, WorkPerforms, WriteGives DEF WorkerStep
<1>7. ASSUME NEW l \in log, LoseLine(l) \/ GarbleLine(l)
      PROVE  [Focus!Next]_(Focus!request)
  BY <1>7, FocusStutters DEF LoseLine, GarbleLine, client, history
<1> QED BY <1>1, <1>2, <1>3, <1>4, <1>5, <1>6, <1>7 DEF Next

-----------------------------------------------------------------------------
(* The theorems.                                                           *)

LEMMA NextKeeps == IInv /\ [Next]_vars => IInv'
<1> SUFFICES ASSUME IInv, [Next]_vars PROVE IInv'
  OBVIOUS
<1>1. CASE UNCHANGED vars
  <2>1. retired' \in [Req -> Retirement] /\ step' \in {"idle", "sent", "wait"}
    BY <1>1 DEF vars, client, IInv, TypeOK, Retirement
  <2>2. log' \subseteq Line /\ faults' \in 0..MaxFault
    BY <1>1 DEF vars, IInv, TypeOK
  <2>3. \A q \in Req : retired'[q] = "observed" => results[q] = 1
    BY <1>1 DEF vars, client, IInv, ObservedWasWritten
  <2> QED BY <1>1, <2>1, <2>2, <2>3, QuietKeeps DEF vars, client
<1>2. ASSUME NEW r \in Req, Request(r) \/ Receive(r) \/ LoseBroadcast(r)
      PROVE  IInv'
  BY <1>2, RequestKeeps, RefuseKeeps, EnqueueKeeps, LoseBroadcastKeeps DEF Receive
<1>3. CASE Delivered \/ DeliveryFails
  BY <1>3, DeliveredKeeps, DeliveryFailsKeeps
<1>4. CASE PollAnswered \/ PollLate \/ PollIllegible \/ PollOther \/ WaitEnds
  BY <1>4, PollAnsweredKeeps, PollLateKeeps, PollIllegibleKeeps, PollOtherKeeps, WaitEndsKeeps
<1>5. CASE ClearLog \/ Destroy \/ Connect \/ Kill
  BY <1>5, ClearLogKeeps, DestroyKeeps, ConnectKeeps, KillKeeps
<1>6. ASSUME NEW w \in Worker, WorkerStep(w)
      PROVE  IInv'
  BY <1>6, WorkKeeps, WriteLineKeeps, WriteChunkKeeps, WriteRaisesKeeps DEF WorkerStep
<1>7. ASSUME NEW l \in log, LoseLine(l) \/ GarbleLine(l)
      PROVE  IInv'
  BY <1>7, LoseLineKeeps, GarbleLineKeeps
<1> QED BY <1>1, <1>2, <1>3, <1>4, <1>5, <1>6, <1>7 DEF Next

\* Where each request is, what is recorded of it and what logcat says of it fit
\* together, whatever is lost, killed, late or started again.
THEOREM TransportInvariant == Spec => []IInv
BY InitOK, NextKeeps, PTL DEF Spec

\* The types of the client's, the app's and logcat's state.
THEOREM TransportTypes == Spec => []TypeOK
<1>1. IInv => TypeOK
  BY DEF IInv
<1> QED BY <1>1, TransportInvariant, PTL

\* A request moves the focus at most once and is given at most one result.
THEOREM AtMostOnceHolds == Spec => []AtMostOnce
<1>1. ASSUME IInv, NEW r \in Req PROVE acts[r] <= 1 /\ results[r] <= 1
  <2>1. acts[r] \in {0, 1} /\ results[r] <= 1
    BY <1>1 DEF IInv, RecordOK
  <2> QED BY <2>1
<1>2. IInv => AtMostOnce
  BY <1>1 DEF AtMostOnce
<1> QED BY <1>2, TransportInvariant, PTL

\* What a request returns as its result is its own, and whole.
THEOREM AnswerIsOwnHolds == Spec => []AnswerIsOwn
<1>1. IInv => AnswerIsOwn
  BY DEF IInv
<1> QED BY <1>1, TransportInvariant, PTL

\* What is put down as a late result was one.
THEOREM ObservedWasWrittenHolds == Spec => []ObservedWasWritten
<1>1. IInv => ObservedWasWritten
  BY DEF IInv
<1> QED BY <1>1, TransportInvariant, PTL

\* The app loses no request in silence.
THEOREM NothingLostHolds == Spec => []NothingLost
<1>1. IInv => NothingLost
  BY DEF IInv
<1> QED BY <1>1, TransportInvariant, PTL

\* Every request is performed at most once, given at most one result, and
\* answered once with that result or an error: the transport implements the
\* abstract request, for any number of requests, faults and restarts.
THEOREM FocusRequestImplemented == Spec => ImplementsFocusRequest
<1>1. Init => Focus!Init
  BY DEF Init, Focus!Init
<1>2. IInv /\ [Next]_vars => [Focus!Next]_(Focus!request)
  BY StepImplements
<1> QED BY <1>1, <1>2, TransportInvariant, PTL DEF Spec, ImplementsFocusRequest, Focus!Spec

=============================================================================
