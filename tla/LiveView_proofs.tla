-------------------------- MODULE LiveView_proofs --------------------------
(***************************************************************************)
(* Proofs about LiveView: the figures on show cover the rows on show, the  *)
(* history a browser has loaded is whole, no row comes twice and no figure *)
(* falls, for any number of threads, browsers, names and queries, and any  *)
(* capacities of the ring, the channel, the shard and the page.            *)
(***************************************************************************)
EXTENDS LiveView, FiniteSetTheorems, SequenceTheorems, TLAPS

-----------------------------------------------------------------------------
(* The inductive invariant.                                                *)

Recording == {"count", "tops", "enqueue", "publish"}
Events == 1..Len(events)

Records == {Idle} \cup [pc : Recording, event : Nat, todo : SUBSET Counters]

HistoryRows == [id : Nat, event : Nat]

Pages ==
    [pc : {"seed", "page", "counters", "wait"}, history : Seq(HistoryRows), cursor : Nat,
     live : Seq(Nat), next : Nat, read : UNION {[S -> Nat] : S \in SUBSET Counters},
     shown : [Counters -> Nat], straddle : SUBSET Nat]

TypeOK ==
    /\ count \in [Counters -> Nat]
    /\ DOMAIN tops \subseteq Names /\ tops \in [DOMAIN tops -> Nat]
    /\ recs \in [Threads -> Records]
    /\ channel \in Seq(Nat) /\ sent \in Seq(Nat) /\ queued \in Seq(Nat)
    /\ lastRow \in Nat
    /\ events \in Seq([name : Names, outcome : Outcomes])
    /\ views \in [Viewers -> {Away} \cup Pages]

\* A thread records an event of its own, and the increments it has left are its event's.
OneThreadEach ==
    /\ \A t \in Threads : recs[t].pc \in Recording =>
          /\ recs[t].event \in Events
          /\ recs[t].todo \subseteq Counted(events[recs[t].event].outcome)
          /\ recs[t].pc # "count" => recs[t].todo = {}
    /\ \A t, u \in Threads :
          /\ recs[t].pc \in Recording /\ recs[u].pc \in Recording
          /\ recs[t].event = recs[u].event
          => t = u

\* An event is queued at most once, and broadcast once, when all else is done.
QueuedOnce ==
    /\ IsInjective(queued)
    /\ \A i \in DOMAIN queued :
          /\ queued[i] \in Events
          /\ \A t \in Threads :
                recs[t].pc \in Recording \ {"publish"} => recs[t].event # queued[i]

SentOnce ==
    /\ IsInjective(sent)
    /\ \A p \in DOMAIN sent :
          /\ sent[p] \in Events
          /\ \A t \in Threads : recs[t].pc \in Recording => recs[t].event # sent[p]

SentOrRecorded ==
    \A e \in Events : \/ \E p \in DOMAIN sent : sent[p] = e
                      \/ \E t \in Threads : recs[t].pc \in Recording /\ recs[t].event = e

\* Ids are handed out in the order of the channel.
TableIsQueued ==
    /\ Len(queued) = lastRow + Len(channel)
    /\ \A k \in DOMAIN channel : channel[k] = queued[lastRow + k]
    /\ DOMAIN rows \subseteq 1..lastRow
    /\ \A i \in DOMAIN rows : rows[i] = queued[i]

\* The events a counter has counted, and those that the top names have seen.
Done(c) ==
    {e \in Events :
        /\ c \in Counted(events[e].outcome)
        /\ ~ \E t \in Threads : /\ recs[t].pc \in Recording /\ recs[t].event = e
                                /\ c \in recs[t].todo}
Named(n) ==
    {e \in Events :
        /\ events[e].name = n
        /\ ~ \E t \in Threads : recs[t].pc \in {"count", "tops"} /\ recs[t].event = e}

CountsAreExact == \A c \in Counters : count[c] = Cardinality(Done(c))

TopsAreExact ==
    /\ IsFiniteSet(DOMAIN tops) /\ Cardinality(DOMAIN tops) <= MaxTracked
    /\ \A n \in DOMAIN tops : tops[n] = Cardinality(Named(n))
    /\ \A n \in Names \ DOMAIN tops :
          Named(n) = {} \/ Cardinality(DOMAIN tops) = MaxTracked

\* Of the first n events of the broadcast, those a counter counts; of some live rows, too.
Passed(c, n) ==
    {e \in Events : /\ c \in Counted(events[e].outcome)
                    /\ \E p \in 1..n : sent[p] = e}
RowsOf(live, c) == {k \in DOMAIN live : c \in Counted(events[live[k]].outcome)}

\* The live rows come in the order of the broadcast, and none before the receiver.
StreamInOrder(w) ==
    /\ w.next <= Len(sent)
    /\ w.pc \in {"seed", "page"} => w.live = <<>>
    /\ \A k \in DOMAIN w.live : \E p \in 1..w.next : sent[p] = w.live[k]
    /\ \A j, k \in DOMAIN w.live, p, q \in DOMAIN sent :
          j < k /\ sent[p] = w.live[j] /\ sent[q] = w.live[k] => p < q

\* The counters are read after the row, and all that is counted later is still to come.
FiguresFollow(w) ==
    /\ w.pc \in {"page", "wait"} => DOMAIN w.read = {}
    /\ w.pc = "counters" =>
          \A c \in DOMAIN w.read :
             w.read[c] <= count[c] /\ w.read[c] >= Cardinality(Passed(c, w.next))
    /\ w.pc = "wait" =>
          \A c \in Counters :
             /\ w.shown[c] <= count[c]
             /\ w.shown[c] >= Cardinality(RowsOf(w.live, c))
             /\ w.next < Len(sent) \/ w.shown[c] >= Cardinality(Passed(c, w.next))

\* The history goes down to the cursor without a gap.
HistoryFollows(w) ==
    LET h == w.history IN
    /\ \A k \in DOMAIN h : h[k].id \in 1..lastRow /\ h[k].event = queued[h[k].id]
    /\ \A j, k \in DOMAIN h : j < k => h[j].id > h[k].id
    /\ w.cursor # 0 => h # <<>> /\ w.cursor = h[Len(h)].id
    /\ \A i \in DOMAIN rows :
          h # <<>> /\ h[Len(h)].id <= i /\ i <= h[1].id => \E k \in DOMAIN h : h[k].id = i

\* What the history has, or may still get, was broadcast before the live rows, if it was
\* not noted to be late.
Old(w) == {w.history[k].event : k \in DOMAIN w.history}
            \cup {rows[i] : i \in {j \in DOMAIN rows : j < w.cursor}}

SeamHolds(w) ==
    \A e \in Old(w) : e \in w.straddle \/
        \E p \in DOMAIN sent :
           /\ sent[p] = e
           /\ w.pc \notin {"seed", "page"} => p <= w.next
           /\ \A k \in DOMAIN w.live, q \in DOMAIN sent : sent[q] = w.live[k] => p < q

ViewHolds(w) ==
    w # Away => StreamInOrder(w) /\ FiguresFollow(w) /\ HistoryFollows(w) /\ SeamHolds(w)

IInv ==
    /\ TypeOK
    /\ OneThreadEach /\ QueuedOnce /\ SentOnce /\ SentOrRecorded
    /\ TableIsQueued
    /\ CountsAreExact /\ TopsAreExact
    /\ \A v \in Viewers : ViewHolds(views[v])

-----------------------------------------------------------------------------
(* Threads.                                                                *)

\* The order of record, step by step.
LEMMA RecordSteps ==
    /\ RecordStep("answered") = "count" /\ RecordStep("count") = "tops"
    /\ RecordStep("tops") = "enqueue" /\ RecordStep("enqueue") = "publish"
    /\ RecordStep("publish") = "idle"
BY DEF RecordStep

\* A thread is idle or has a record.
LEMMA ThreadType ==
    ASSUME TypeOK, NEW t \in Threads
    PROVE  /\ recs[t] = Idle \/ recs[t].pc \in Recording
           /\ recs[t] = Idle <=> recs[t].pc = "idle"
           /\ recs[t].pc \in Recording =>
                 /\ recs[t] \in [pc : Recording, event : Nat, todo : SUBSET Counters]
                 /\ recs[t] = [pc |-> recs[t].pc, event |-> recs[t].event,
                               todo |-> recs[t].todo]
                 /\ recs[t].event \in Nat /\ recs[t].todo \in SUBSET Counters
<1>1. recs[t] \in Records
    BY DEF TypeOK
<1>2. Idle.pc = "idle" /\ "idle" \notin Recording
    BY DEF Idle, Recording
<1>3. CASE recs[t] = Idle
    BY <1>2, <1>3
<1>4. CASE recs[t] \in [pc : Recording, event : Nat, todo : SUBSET Counters]
    BY <1>2, <1>4
<1> QED BY <1>1, <1>3, <1>4 DEF Records

\* What Answer makes of its thread.
LEMMA AnswerThread ==
    ASSUME TypeOK, NEW t \in Threads, NEW name \in Names, NEW outcome \in Outcomes,
           Answer(t, name, outcome)
    PROVE  /\ recs[t].pc = "idle"
           /\ recs'[t].pc = "count" /\ recs'[t].event = Len(events) + 1
           /\ recs'[t].todo = Counted(outcome)
           /\ \A u \in Threads \ {t} : recs'[u] = recs[u]
           /\ recs' \in [Threads -> Records]
<1>1. Len(events) + 1 \in Nat /\ Counted(outcome) \in SUBSET Counters
    BY DEF TypeOK, Counted
<1> DEFINE r == [pc |-> "count", event |-> Len(events) + 1, todo |-> Counted(outcome)]
<1>2. recs' = [recs EXCEPT ![t] = r]
    BY RecordSteps DEF Answer
<1>3. r \in Records
    BY <1>1 DEF Records, Recording
<1>4. recs \in [Threads -> Records]
    BY DEF TypeOK
<1>5. recs'[t] = r /\ \A u \in Threads \ {t} : recs'[u] = recs[u]
    BY <1>2, <1>4
<1>6. recs' \in [Threads -> Records]
    BY <1>2, <1>3, <1>4
<1>7. r.pc = "count" /\ r.event = Len(events) + 1 /\ r.todo = Counted(outcome)
    OBVIOUS
<1>8. recs[t].pc = "idle"
    BY DEF Answer, Idle
<1> QED BY <1>5, <1>6, <1>7, <1>8

\* What Increment makes of its thread.
LEMMA IncrementThread ==
    ASSUME TypeOK, NEW t \in Threads, NEW c \in Counters, Increment(t, c)
    PROVE  /\ recs[t].pc = "count" /\ c \in recs[t].todo
           /\ recs'[t].pc = IF recs[t].todo = {c} THEN "tops" ELSE "count"
           /\ recs'[t].event = recs[t].event
           /\ recs'[t].todo = recs[t].todo \ {c}
           /\ \A u \in Threads \ {t} : recs'[u] = recs[u]
           /\ recs' \in [Threads -> Records]
<1>1. recs[t].pc = "count" /\ c \in recs[t].todo
    BY DEF Increment
<1>2. PICK r \in [pc : Recording, event : Nat, todo : SUBSET Counters] : r = recs[t]
    BY <1>1, ThreadType DEF Recording
<1> DEFINE pc == IF r.todo = {c} THEN "tops" ELSE "count"
           s == [r EXCEPT !.todo = @ \ {c}, !.pc = pc]
<1>3. recs' = [recs EXCEPT ![t] = s]
    BY <1>1, <1>2, RecordSteps DEF Increment
<1>4. recs \in [Threads -> Records]
    BY DEF TypeOK
<1>5. recs'[t] = s /\ \A u \in Threads \ {t} : recs'[u] = recs[u]
    BY <1>3, <1>4
<1>6. s \in [pc : Recording, event : Nat, todo : SUBSET Counters]
    BY DEF Recording
<1>7. s.pc = pc /\ s.event = r.event /\ s.todo = r.todo \ {c}
    OBVIOUS
<1>8. recs' \in [Threads -> Records]
    BY <1>3, <1>4, <1>6 DEF Records
<1> HIDE DEF s
<1> QED BY <1>1, <1>2, <1>5, <1>7, <1>8

\* What Go makes of it.
LEMMA GoThread ==
    ASSUME TypeOK, NEW t \in Threads, recs[t].pc \in {"tops", "enqueue", "publish"}, Go(t)
    PROVE  /\ recs'[t].pc = RecordStep(recs[t].pc)
           /\ recs[t].pc # "publish" =>
                 recs'[t].event = recs[t].event /\ recs'[t].todo = recs[t].todo
           /\ \A u \in Threads \ {t} : recs'[u] = recs[u]
           /\ recs' \in [Threads -> Records]
<1>1. PICK r \in [pc : Recording, event : Nat, todo : SUBSET Counters] : r = recs[t]
    BY ThreadType DEF Recording
<1>2. recs \in [Threads -> Records]
    BY DEF TypeOK
<1>3. CASE r.pc = "publish"
    <2>1. recs' = [recs EXCEPT ![t] = Idle]
        BY <1>1, <1>3, RecordSteps DEF Go
    <2> QED BY <1>1, <1>2, <1>3, <2>1, RecordSteps DEF Records, Idle
<1>4. CASE r.pc \in {"tops", "enqueue"}
    <2> DEFINE s == [r EXCEPT !.pc = RecordStep(r.pc)]
    <2>1. RecordStep(r.pc) # "idle" /\ RecordStep(r.pc) \in Recording
        BY <1>4, RecordSteps DEF Recording
    <2>2. recs' = [recs EXCEPT ![t] = s]
        BY <1>1, <2>1 DEF Go
    <2>3. s \in [pc : Recording, event : Nat, todo : SUBSET Counters]
        BY <2>1
    <2>4. s.pc = RecordStep(r.pc) /\ s.event = r.event /\ s.todo = r.todo
        OBVIOUS
    <2>5. recs'[t] = s /\ \A u \in Threads \ {t} : recs'[u] = recs[u]
        BY <1>2, <2>2
    <2>6. recs' \in [Threads -> Records]
        BY <1>2, <2>2, <2>3 DEF Records
    <2> HIDE DEF s
    <2> QED BY <1>1, <1>4, <2>4, <2>5, <2>6
<1> QED BY <1>1, <1>3, <1>4

-----------------------------------------------------------------------------
(* The steps.                                                              *)

ViewStep(v) ==
    \/ Open(v) \/ OpenDashboard(v) \/ Subscribe(v) \/ Receive(v) \/ Older(v) \/ Close(v)
    \/ \E c \in Counters : Load(v, c)

\* Next, by actors.
LEMMA NextCases ==
    ASSUME [Next]_vars, NEW P, UNCHANGED vars => P,
           \A t \in Threads, name \in Names, outcome \in Outcomes :
              Answer(t, name, outcome) => P,
           \A t \in Threads, c \in Counters : Increment(t, c) => P,
           \A t \in Threads : RecordName(t) => P,
           \A t \in Threads : Enqueue(t) => P,
           \A t \in Threads : Publish(t) => P,
           \A n \in 1..MaxEvents : Write(n) => P,
           \A newest \in Range(rows) : Purge(newest) => P,
           \A v \in Viewers : ViewStep(v) => P
    PROVE  P
BY Zenon DEF Next, ViewStep

\* A browser changes nothing but its own page.
LEMMA ViewKeeps ==
    ASSUME NEW v \in Viewers, ViewStep(v)
    PROVE  UNCHANGED <<count, tops, recs, channel, rows, lastRow, sent, queued, events>>
BY DEF ViewStep, Open, OpenDashboard, Subscribe, Receive, Older, Close, Load

\* An event has a name and an outcome.
LEMMA EventType ==
    ASSUME TypeOK, NEW e \in Events
    PROVE  events[e].name \in Names /\ events[e].outcome \in Outcomes
<1> DEFINE E == [name : Names, outcome : Outcomes]
<1>1. events \in Seq(E)
    BY DEF TypeOK
<1>2. \A x \in E : x.name \in Names /\ x.outcome \in Outcomes
    OBVIOUS
<1> HIDE DEF E
<1>3. events[e] \in E
    BY <1>1 DEF Events
<1> QED BY <1>2, <1>3

\* An event more, and the others as they were.
LEMMA AnswerEvents ==
    ASSUME TypeOK, NEW t \in Threads, NEW name \in Names, NEW outcome \in Outcomes,
           Answer(t, name, outcome)
    PROVE  /\ events' \in Seq([name : Names, outcome : Outcomes])
           /\ Len(events') = Len(events) + 1 /\ Len(events) \in Nat
           /\ Events' = Events \cup {Len(events) + 1} /\ Len(events) + 1 \notin Events
           /\ \A e \in Events : events'[e] = events[e]
           /\ events'[Len(events) + 1].name = name
           /\ events'[Len(events) + 1].outcome = outcome
<1> DEFINE E == [name : Names, outcome : Outcomes]
           x == [name |-> name, outcome |-> outcome]
<1>1. events \in Seq(E) /\ x \in E
    BY DEF TypeOK
<1>2. events' = Append(events, x)
    BY DEF Answer
<1>3. x.name = name /\ x.outcome = outcome
    OBVIOUS
<1> HIDE DEF E, x
<1>4. /\ Append(events, x) \in Seq(E) /\ Len(Append(events, x)) = Len(events) + 1
      /\ Len(events) \in Nat
      /\ \A e \in 1..Len(events) : Append(events, x)[e] = events[e]
      /\ Append(events, x)[Len(events) + 1] = x
    BY <1>1
<1>5. 1..Len(events) + 1 = (1..Len(events)) \cup {Len(events) + 1}
    BY <1>4
<1>6. Len(events) + 1 \notin 1..Len(events)
    BY <1>4
<1> QED BY <1>2, <1>3, <1>4, <1>5, <1>6 DEF Events, E

Advance(t) ==
    (\E c \in Counters : Increment(t, c)) \/ RecordName(t) \/ Enqueue(t) \/ Publish(t)

\* The steps of record, and what they leave alone.
LEMMA AdvanceKeeps ==
    ASSUME NEW t \in Threads
    PROVE  /\ \A c \in Counters :
                 Increment(t, c) => Advance(t) /\ UNCHANGED <<channel, lastRow, sent, queued>>
           /\ RecordName(t) => Advance(t) /\ UNCHANGED <<channel, lastRow, sent, queued>>
           /\ Enqueue(t) => Advance(t) /\ sent' = sent
           /\ Publish(t) => Advance(t) /\ queued' = queued
<1>1. \A c \in Counters : Increment(t, c) => UNCHANGED <<channel, lastRow, sent, queued>>
    BY DEF Increment
<1>2. RecordName(t) => UNCHANGED <<channel, lastRow, sent, queued>>
    BY DEF RecordName
<1>3. Enqueue(t) => sent' = sent
    BY DEF Enqueue
<1>4. Publish(t) => queued' = queued
    BY DEF Publish
<1>5. /\ \A c \in Counters : Increment(t, c) => Advance(t)
      /\ RecordName(t) \/ Enqueue(t) \/ Publish(t) => Advance(t)
    BY DEF Advance
<1> QED BY ONLY <1>1, <1>2, <1>3, <1>4, <1>5

\* A thread that goes on keeps its event, and drops what it has done.
LEMMA AdvanceThread ==
    ASSUME TypeOK, OneThreadEach, NEW t \in Threads, Advance(t)
    PROVE  /\ events' = events
           /\ recs[t].pc \in Recording
           /\ \A u \in Threads \ {t} : recs'[u] = recs[u]
           /\ recs' \in [Threads -> Records]
           /\ recs'[t].pc \in Recording =>
                 /\ recs'[t].event = recs[t].event
                 /\ recs'[t].todo \subseteq recs[t].todo
                 /\ recs'[t].pc # "count" => recs'[t].todo = {}
           /\ recs'[t].pc \in Recording \ {"publish"} => recs[t].pc \in Recording \ {"publish"}
<1>1. ASSUME NEW c \in Counters, Increment(t, c)
      PROVE  /\ events' = events
             /\ recs[t].pc = "count"
             /\ \A u \in Threads \ {t} : recs'[u] = recs[u]
             /\ recs' \in [Threads -> Records]
             /\ recs'[t].event = recs[t].event
             /\ recs'[t].todo \subseteq recs[t].todo
             /\ recs'[t].pc # "count" => recs'[t].todo = {}
    <2>1. events' = events
        BY <1>1 DEF Increment
    <2> QED BY ONLY TypeOK, <1>1, <2>1, IncrementThread
<1>2. ASSUME RecordName(t) \/ Enqueue(t) \/ Publish(t)
      PROVE  /\ events' = events
             /\ recs[t].pc \in {"tops", "enqueue", "publish"}
             /\ Go(t)
    BY <1>2 DEF RecordName, Enqueue, Publish
<1>3. ASSUME RecordName(t) \/ Enqueue(t) \/ Publish(t)
      PROVE  /\ \A u \in Threads \ {t} : recs'[u] = recs[u]
             /\ recs' \in [Threads -> Records]
             /\ recs'[t].pc = RecordStep(recs[t].pc)
             /\ recs[t].pc # "publish" =>
                   recs'[t].event = recs[t].event /\ recs'[t].todo = recs[t].todo
             /\ recs[t].todo = {}
    <2>1. recs[t].todo = {}
        BY <1>2, <1>3 DEF OneThreadEach, Recording
    <2> QED BY ONLY TypeOK, <1>2, <1>3, <2>1, GoThread
<1>4. CASE RecordName(t) \/ Enqueue(t) \/ Publish(t)
    BY <1>2, <1>3, <1>4, RecordSteps DEF Recording
<1>5. CASE \E c \in Counters : Increment(t, c)
    BY <1>1, <1>5 DEF Recording
<1> QED BY <1>4, <1>5 DEF Advance

\* Each thread keeps to an event of its own.
LEMMA OneThreadStep ==
    ASSUME TypeOK, OneThreadEach, [Next]_vars
    PROVE  OneThreadEach'
<1>1. ASSUME UNCHANGED <<recs, events>> PROVE OneThreadEach'
    BY <1>1 DEF OneThreadEach, Events
<1>2. ASSUME NEW t \in Threads, NEW name \in Names, NEW outcome \in Outcomes,
             Answer(t, name, outcome)
      PROVE  OneThreadEach'
    <2>1. /\ recs'[t].pc = "count" /\ recs'[t].event = Len(events) + 1
          /\ recs'[t].todo = Counted(outcome)
          /\ \A u \in Threads \ {t} : recs'[u] = recs[u]
        BY <1>2, AnswerThread
    <2>2. /\ Events' = Events \cup {Len(events) + 1} /\ Len(events) + 1 \notin Events
          /\ \A e \in Events : events'[e] = events[e]
          /\ events'[Len(events) + 1].outcome = outcome
        BY <1>2, AnswerEvents
    <2> QED BY <2>1, <2>2 DEF OneThreadEach
<1>3. ASSUME NEW t \in Threads, Advance(t) PROVE OneThreadEach'
    <2>1. /\ events' = events
          /\ recs[t].pc \in Recording
          /\ \A u \in Threads \ {t} : recs'[u] = recs[u]
          /\ recs'[t].pc \in Recording =>
                 /\ recs'[t].event = recs[t].event
                 /\ recs'[t].todo \subseteq recs[t].todo
                 /\ recs'[t].pc # "count" => recs'[t].todo = {}
        BY <1>3, AdvanceThread
    <2> QED BY <2>1 DEF OneThreadEach, Events
<1>4. \A n \in 1..MaxEvents : Write(n) => UNCHANGED <<recs, events>>
    BY DEF Write
<1>5. \A newest \in Range(rows) : Purge(newest) => UNCHANGED <<recs, events>>
    BY DEF Purge
<1>6. \A v \in Viewers : ViewStep(v) => UNCHANGED <<recs, events>>
    BY ViewKeeps
<1>7. UNCHANGED vars => UNCHANGED <<recs, events>>
    BY DEF vars
<1>8. \A t \in Threads :
          /\ \A c \in Counters : Increment(t, c) => Advance(t)
          /\ RecordName(t) \/ Enqueue(t) \/ Publish(t) => Advance(t)
    BY DEF Advance
<1> QED BY ONLY [Next]_vars, NextCases, <1>1, <1>2, <1>3, <1>4, <1>5, <1>6, <1>7, <1>8

\* Nothing is queued twice.
LEMMA QueuedStep ==
    ASSUME TypeOK, OneThreadEach, QueuedOnce, [Next]_vars
    PROVE  QueuedOnce'
<1>1. ASSUME UNCHANGED <<recs, events, queued>> PROVE QueuedOnce'
    BY <1>1 DEF QueuedOnce, Events, IsInjective
<1>2. ASSUME NEW t \in Threads, NEW name \in Names, NEW outcome \in Outcomes,
             Answer(t, name, outcome)
      PROVE  QueuedOnce'
    <2>1. /\ recs'[t].event = Len(events) + 1
          /\ \A u \in Threads \ {t} : recs'[u] = recs[u]
        BY <1>2, AnswerThread
    <2>2. Events' = Events \cup {Len(events) + 1} /\ Len(events) + 1 \notin Events
        BY <1>2, AnswerEvents
    <2>3. queued' = queued
        BY <1>2 DEF Answer
    <2> QED BY <2>1, <2>2, <2>3 DEF QueuedOnce, IsInjective
<1>3. ASSUME NEW t \in Threads, Advance(t), queued' = queued PROVE QueuedOnce'
    <2>1. /\ events' = events
          /\ \A u \in Threads \ {t} : recs'[u] = recs[u]
          /\ recs'[t].pc \in Recording => recs'[t].event = recs[t].event
          /\ recs'[t].pc \in Recording \ {"publish"} => recs[t].pc \in Recording \ {"publish"}
        BY <1>3, AdvanceThread
    <2> QED BY <1>3, <2>1 DEF QueuedOnce, Events, IsInjective
<1>4. ASSUME NEW t \in Threads, Enqueue(t), queued' # queued PROVE QueuedOnce'
    <2> DEFINE e == recs[t].event
    <2>1. recs[t].pc = "enqueue" /\ e \in Events /\ e \in Nat
        BY <1>4 DEF Enqueue, OneThreadEach, Recording, Events
    <2>2. queued' = Append(queued, e) /\ events' = events /\ Go(t)
        BY <1>4 DEF Enqueue
    <2>3. recs'[t].pc = "publish" /\ \A u \in Threads \ {t} : recs'[u] = recs[u]
        BY ONLY TypeOK, <2>1, <2>2, GoThread, RecordSteps
    <2>4. queued \in Seq(Nat)
        BY DEF TypeOK
    <2> HIDE DEF e
    <2>5. /\ DOMAIN Append(queued, e) = (1..Len(queued)) \cup {Len(queued) + 1}
          /\ Len(queued) + 1 \notin DOMAIN queued /\ DOMAIN queued = 1..Len(queued)
          /\ \A i \in DOMAIN queued : Append(queued, e)[i] = queued[i]
          /\ Append(queued, e)[Len(queued) + 1] = e
        BY <2>1, <2>4
    <2>6. \A i \in DOMAIN queued : queued[i] # e
        BY <2>1 DEF QueuedOnce, Recording, e
    <2>7. IsInjective(queued')
        BY <2>2, <2>5, <2>6 DEF QueuedOnce, IsInjective
    <2>8. \A u \in Threads \ {t} : recs'[u].pc \in Recording => recs'[u].event # e
        BY <2>1, <2>3 DEF OneThreadEach, Recording, e
    <2>9. ASSUME NEW i \in DOMAIN queued'
          PROVE  /\ queued'[i] \in Events'
                 /\ \A u \in Threads :
                       recs'[u].pc \in Recording \ {"publish"} => recs'[u].event # queued'[i]
        <3>1. CASE i = Len(queued) + 1
            BY <2>1, <2>2, <2>3, <2>5, <2>8, <3>1 DEF Events
        <3>2. CASE i \in DOMAIN queued
            BY <2>2, <2>3, <2>5, <3>2 DEF QueuedOnce, Events
        <3> QED BY <2>2, <2>5, <2>9, <3>1, <3>2
    <2> QED BY <2>7, <2>9 DEF QueuedOnce
<1>5. \A n \in 1..MaxEvents : Write(n) => UNCHANGED <<recs, events, queued>>
    BY DEF Write
<1>6. \A newest \in Range(rows) : Purge(newest) => UNCHANGED <<recs, events, queued>>
    BY DEF Purge
<1>7. \A v \in Viewers : ViewStep(v) => UNCHANGED <<recs, events, queued>>
    BY ViewKeeps
<1>8. UNCHANGED vars => UNCHANGED <<recs, events, queued>>
    BY DEF vars
<1>9. \A t \in Threads :
          /\ \A c \in Counters : Increment(t, c) => Advance(t) /\ queued' = queued
          /\ RecordName(t) \/ Publish(t) => Advance(t) /\ queued' = queued
          /\ Enqueue(t) => Advance(t)
    BY ONLY AdvanceKeeps
<1> QED BY ONLY [Next]_vars, NextCases, <1>1, <1>2, <1>3, <1>4, <1>5, <1>6, <1>7, <1>8, <1>9

\* What Publish does.
LEMMA PublishSends ==
    ASSUME TypeOK, OneThreadEach, NEW t \in Threads, Publish(t)
    PROVE  /\ recs[t].pc = "publish" /\ recs[t].event \in Events /\ recs[t].event \in Nat
           /\ recs'[t].pc = "idle" /\ \A u \in Threads \ {t} : recs'[u] = recs[u]
           /\ DOMAIN sent = 1..Len(sent) /\ Len(sent) \in Nat
           /\ DOMAIN sent' = DOMAIN sent \cup {Len(sent) + 1}
           /\ Len(sent) + 1 \notin DOMAIN sent /\ Len(sent') = Len(sent) + 1
           /\ \A p \in DOMAIN sent : sent'[p] = sent[p]
           /\ sent'[Len(sent) + 1] = recs[t].event
           /\ sent' \in Seq(Nat)
<1>1. recs[t].pc = "publish" /\ Go(t)
    BY DEF Publish
<1>2. PICK e \in Nat : e = recs[t].event /\ e \in Events
    BY <1>1 DEF OneThreadEach, Recording, Events
<1>3. sent' = Append(sent, e)
    BY <1>2 DEF Publish
<1>4. recs'[t].pc = "idle" /\ \A u \in Threads \ {t} : recs'[u] = recs[u]
    BY ONLY TypeOK, <1>1, GoThread, RecordSteps
<1>5. sent \in Seq(Nat)
    BY DEF TypeOK
<1>6. /\ DOMAIN Append(sent, e) = (1..Len(sent)) \cup {Len(sent) + 1}
      /\ Len(sent) + 1 \notin 1..Len(sent) /\ DOMAIN sent = 1..Len(sent)
      /\ Len(Append(sent, e)) = Len(sent) + 1 /\ Len(sent) \in Nat
      /\ \A p \in DOMAIN sent : Append(sent, e)[p] = sent[p]
      /\ Append(sent, e)[Len(sent) + 1] = e
      /\ Append(sent, e) \in Seq(Nat)
    BY <1>5
<1> QED BY <1>1, <1>2, <1>3, <1>4, <1>6

\* Nothing is broadcast twice.
LEMMA SentStep ==
    ASSUME TypeOK, OneThreadEach, SentOnce, [Next]_vars
    PROVE  SentOnce'
<1>1. ASSUME UNCHANGED <<recs, events, sent>> PROVE SentOnce'
    BY <1>1 DEF SentOnce, Events, IsInjective
<1>2. ASSUME NEW t \in Threads, NEW name \in Names, NEW outcome \in Outcomes,
             Answer(t, name, outcome)
      PROVE  SentOnce'
    <2>1. /\ recs'[t].event = Len(events) + 1
          /\ \A u \in Threads \ {t} : recs'[u] = recs[u]
        BY <1>2, AnswerThread
    <2>2. Events' = Events \cup {Len(events) + 1} /\ Len(events) + 1 \notin Events
        BY <1>2, AnswerEvents
    <2>3. sent' = sent
        BY <1>2 DEF Answer
    <2> QED BY <2>1, <2>2, <2>3 DEF SentOnce, IsInjective
<1>3. ASSUME NEW t \in Threads, Advance(t), sent' = sent PROVE SentOnce'
    <2>1. /\ events' = events /\ recs[t].pc \in Recording
          /\ \A u \in Threads \ {t} : recs'[u] = recs[u]
          /\ recs'[t].pc \in Recording => recs'[t].event = recs[t].event
        BY <1>3, AdvanceThread
    <2> QED BY <1>3, <2>1 DEF SentOnce, Events, IsInjective
<1>4. ASSUME NEW t \in Threads, Publish(t) PROVE SentOnce'
    <2> DEFINE e == recs[t].event
    <2>1. /\ recs[t].pc = "publish" /\ e \in Events
          /\ recs'[t].pc = "idle" /\ \A u \in Threads \ {t} : recs'[u] = recs[u]
          /\ DOMAIN sent' = DOMAIN sent \cup {Len(sent) + 1}
          /\ Len(sent) + 1 \notin DOMAIN sent
          /\ \A p \in DOMAIN sent : sent'[p] = sent[p]
          /\ sent'[Len(sent) + 1] = e
        BY <1>4, PublishSends
    <2>2. events' = events
        BY <1>4 DEF Publish
    <2>3. \A p \in DOMAIN sent : sent[p] # e
        BY <2>1 DEF SentOnce, Recording
    <2>4. \A u \in Threads \ {t} : recs'[u].pc \in Recording => recs'[u].event # e
        BY <2>1 DEF OneThreadEach, Recording
    <2> HIDE DEF e
    <2>5. IsInjective(sent')
        BY <2>1, <2>3 DEF SentOnce, IsInjective
    <2>6. ASSUME NEW p \in DOMAIN sent'
          PROVE  /\ sent'[p] \in Events'
                 /\ \A u \in Threads : recs'[u].pc \in Recording => recs'[u].event # sent'[p]
        <3>1. CASE p = Len(sent) + 1
            BY <2>1, <2>2, <2>4, <3>1 DEF Events, Recording
        <3>2. CASE p \in DOMAIN sent
            BY <2>1, <2>2, <3>2 DEF SentOnce, Events, Recording
        <3> QED BY <2>1, <2>6, <3>1, <3>2
    <2> QED BY <2>5, <2>6 DEF SentOnce
<1>5. \A n \in 1..MaxEvents : Write(n) => UNCHANGED <<recs, events, sent>>
    BY DEF Write
<1>6. \A newest \in Range(rows) : Purge(newest) => UNCHANGED <<recs, events, sent>>
    BY DEF Purge
<1>7. \A v \in Viewers : ViewStep(v) => UNCHANGED <<recs, events, sent>>
    BY ViewKeeps
<1>8. UNCHANGED vars => UNCHANGED <<recs, events, sent>>
    BY DEF vars
<1>9. \A t \in Threads :
          /\ \A c \in Counters : Increment(t, c) => Advance(t) /\ sent' = sent
          /\ RecordName(t) \/ Enqueue(t) => Advance(t) /\ sent' = sent
    BY ONLY AdvanceKeeps
<1> QED BY ONLY [Next]_vars, NextCases, <1>1, <1>2, <1>3, <1>4, <1>5, <1>6, <1>7, <1>8, <1>9

\* What no thread records any more has been broadcast.
LEMMA SentOrStep ==
    ASSUME TypeOK, OneThreadEach, SentOrRecorded, [Next]_vars
    PROVE  SentOrRecorded'
<1>1. ASSUME UNCHANGED <<recs, events, sent>> PROVE SentOrRecorded'
    BY <1>1 DEF SentOrRecorded, Events
<1>2. ASSUME NEW t \in Threads, NEW name \in Names, NEW outcome \in Outcomes,
             Answer(t, name, outcome)
      PROVE  SentOrRecorded'
    <2>1. /\ recs[t].pc = "idle" /\ recs'[t].pc = "count"
          /\ recs'[t].event = Len(events) + 1
          /\ \A u \in Threads \ {t} : recs'[u] = recs[u]
        BY <1>2, AnswerThread
    <2>2. Events' = Events \cup {Len(events) + 1}
        BY <1>2, AnswerEvents
    <2>3. sent' = sent
        BY <1>2 DEF Answer
    <2>4. \A e \in Events : (\E u \in Threads : recs[u].pc \in Recording /\ recs[u].event = e)
                  => \E u \in Threads : recs'[u].pc \in Recording /\ recs'[u].event = e
        BY <2>1 DEF Recording
    <2>5. \E u \in Threads : recs'[u].pc \in Recording /\ recs'[u].event = Len(events) + 1
        BY <2>1 DEF Recording
    <2> QED BY <2>2, <2>3, <2>4, <2>5 DEF SentOrRecorded
<1>3. ASSUME NEW t \in Threads, Advance(t), recs'[t].pc \in Recording, sent' = sent
      PROVE  SentOrRecorded'
    <2>1. /\ events' = events
          /\ \A u \in Threads \ {t} : recs'[u] = recs[u]
          /\ recs'[t].event = recs[t].event
        BY <1>3, AdvanceThread
    <2>2. \A e : (\E u \in Threads : recs[u].pc \in Recording /\ recs[u].event = e)
                  => \E u \in Threads : recs'[u].pc \in Recording /\ recs'[u].event = e
        BY <1>3, <2>1
    <2> QED BY <1>3, <2>1, <2>2 DEF SentOrRecorded, Events
<1>4. ASSUME NEW t \in Threads, Publish(t) PROVE SentOrRecorded'
    <2>1. /\ recs[t].pc = "publish"
          /\ \A u \in Threads \ {t} : recs'[u] = recs[u]
          /\ DOMAIN sent' = DOMAIN sent \cup {Len(sent) + 1}
          /\ \A p \in DOMAIN sent : sent'[p] = sent[p]
          /\ sent'[Len(sent) + 1] = recs[t].event
        BY <1>4, PublishSends
    <2>2. events' = events
        BY <1>4 DEF Publish
    <2> SUFFICES ASSUME NEW e \in Events
                 PROVE  \/ \E p \in DOMAIN sent' : sent'[p] = e
                        \/ \E u \in Threads : recs'[u].pc \in Recording /\ recs'[u].event = e
        BY <2>2 DEF SentOrRecorded, Events
    <2>3. CASE \E p \in DOMAIN sent : sent[p] = e
        BY <2>1, <2>3
    <2>4. CASE \E u \in Threads : recs[u].pc \in Recording /\ recs[u].event = e
        <3>1. PICK u \in Threads : recs[u].pc \in Recording /\ recs[u].event = e
            BY <2>4
        <3>2. CASE u = t
            BY <2>1, <3>1, <3>2
        <3>3. CASE u # t
            BY <2>1, <3>1, <3>3
        <3> QED BY <3>2, <3>3
    <2> QED BY <2>3, <2>4 DEF SentOrRecorded
<1>5. \A n \in 1..MaxEvents : Write(n) => UNCHANGED <<recs, events, sent>>
    BY DEF Write
<1>6. \A newest \in Range(rows) : Purge(newest) => UNCHANGED <<recs, events, sent>>
    BY DEF Purge
<1>7. \A v \in Viewers : ViewStep(v) => UNCHANGED <<recs, events, sent>>
    BY ViewKeeps
<1>8. UNCHANGED vars => UNCHANGED <<recs, events, sent>>
    BY DEF vars
<1>9. \A t \in Threads :
          /\ \A c \in Counters : Increment(t, c) => Advance(t) /\ sent' = sent
          /\ RecordName(t) \/ Enqueue(t) => Advance(t) /\ sent' = sent
    BY ONLY AdvanceKeeps
<1>10. ASSUME NEW t \in Threads, NEW c \in Counters, Increment(t, c)
       PROVE  recs'[t].pc \in Recording
    <2>1. recs'[t].pc = IF recs[t].todo = {c} THEN "tops" ELSE "count"
        BY ONLY TypeOK, <1>10, IncrementThread
    <2> QED BY <2>1 DEF Recording
<1>11. ASSUME NEW t \in Threads, RecordName(t) \/ Enqueue(t)
       PROVE  recs'[t].pc \in Recording
    <2>1. recs[t].pc \in {"tops", "enqueue"} /\ Go(t)
        BY <1>11 DEF RecordName, Enqueue
    <2>2. recs'[t].pc = RecordStep(recs[t].pc)
        BY ONLY TypeOK, <2>1, GoThread
    <2> QED BY <2>1, <2>2, RecordSteps DEF Recording
<1> QED BY ONLY [Next]_vars, NextCases, <1>1, <1>2, <1>3, <1>4, <1>5, <1>6, <1>7, <1>8, <1>9,
                <1>10, <1>11

-----------------------------------------------------------------------------
(* The table.                                                              *)

\* A full channel takes nothing; one that is not, and the history, take the event.
LEMMA EnqueueAppends ==
    ASSUME TypeOK, OneThreadEach, NEW t \in Threads, Enqueue(t)
    PROVE  /\ recs[t].pc = "enqueue" /\ recs[t].event \in Nat
           /\ \/ channel' = channel /\ queued' = queued
              \/ /\ channel' = Append(channel, recs[t].event)
                 /\ queued' = Append(queued, recs[t].event)
<1>1. recs[t].pc = "enqueue"
    BY DEF Enqueue
<1>2. recs[t].event \in Nat
    BY <1>1 DEF OneThreadEach, Recording, Events
<1> QED BY <1>1, <1>2 DEF Enqueue

\* Events leave the channel at its head and get the next ids.
LEMMA WriteTakes ==
    ASSUME TypeOK, TableIsQueued, NEW n \in 1..MaxEvents, Write(n)
    PROVE  /\ n \in Nat /\ lastRow' = lastRow + n /\ lastRow' \in Nat
           /\ channel' \in Seq(Nat) /\ Len(channel') = Len(channel) - n /\ n <= Len(channel)
           /\ \A k \in DOMAIN channel' : channel'[k] = channel[n + k] /\ n + k \in DOMAIN channel
           /\ DOMAIN rows' = DOMAIN rows \cup (lastRow + 1 .. lastRow + n)
           /\ \A i \in DOMAIN rows : rows'[i] = rows[i]
           /\ \A i \in lastRow + 1 .. lastRow + n :
                 rows'[i] = channel[i - lastRow] /\ i - lastRow \in DOMAIN channel
<1>1. n \in 1..Len(channel) /\ channel \in Seq(Nat) /\ lastRow \in Nat
    BY DEF Write, TypeOK
<1>2. Len(channel) \in Nat /\ DOMAIN channel = 1..Len(channel)
    BY <1>1
<1>3. n \in Nat /\ n <= Len(channel) /\ n >= 1
    BY <1>1, <1>2
<1>4. channel' = SubSeq(channel, n + 1, Len(channel)) /\ lastRow' = lastRow + n
    BY DEF Write
<1>5. /\ channel' \in Seq(Nat) /\ Len(channel') = Len(channel) - n
      /\ \A k \in 1..(Len(channel) - n) : channel'[k] = channel[n + k]
    <2>1. \A i \in n + 1 .. Len(channel) : channel[i] \in Nat
        BY <1>1, <1>2, <1>3
    <2>2. SubSeq(channel, n + 1, Len(channel))
            = [k \in 1..(Len(channel) - n) |-> channel[n + k]]
        BY <1>1, <1>2, <1>3
    <2>3. Len(channel) - n \in Nat
        BY <1>2, <1>3
    <2>4. \A k \in 1..(Len(channel) - n) : channel[n + k] \in Nat
        BY <1>2, <1>3, <2>1
    <2>5. PICK m \in Nat : m = Len(channel) - n
        BY <2>3
    <2> DEFINE f == [k \in 1..m |-> channel[n + k]]
    <2>6. f \in Seq(Nat) /\ Len(f) = m /\ \A k \in 1..m : f[k] = channel[n + k]
        BY <2>4, <2>5
    <2> QED BY <1>4, <2>2, <2>5, <2>6
<1>6. DOMAIN channel' = 1..(Len(channel) - n)
    BY <1>5
<1>7. \A k \in 1..(Len(channel) - n) : n + k \in DOMAIN channel
    BY <1>2, <1>3
<1>8. rows' = [i \in DOMAIN rows \cup (lastRow + 1 .. lastRow + n) |->
                   IF i > lastRow THEN channel[i - lastRow] ELSE rows[i]]
    BY DEF Write
<1>9. \A i \in DOMAIN rows : i \in Nat /\ ~(i > lastRow)
    BY <1>1 DEF TableIsQueued
<1>10. \A i \in DOMAIN rows : rows'[i] = rows[i]
    BY <1>8, <1>9
<1>11. \A i \in lastRow + 1 .. lastRow + n : i > lastRow /\ i - lastRow \in 1..Len(channel)
    BY <1>1, <1>2, <1>3
<1>12. \A i \in lastRow + 1 .. lastRow + n : rows'[i] = channel[i - lastRow]
    BY <1>8, <1>11
<1>13. DOMAIN rows' = DOMAIN rows \cup (lastRow + 1 .. lastRow + n)
    BY <1>8
<1>14. lastRow' \in Nat
    BY <1>1, <1>3, <1>4
<1> QED BY <1>2, <1>3, <1>4, <1>5, <1>6, <1>7, <1>10, <1>11, <1>12, <1>13, <1>14

\* A purge only takes rows away.
LEMMA PurgeKeeps ==
    ASSUME NEW newest, Purge(newest)
    PROVE  DOMAIN rows' \subseteq DOMAIN rows /\ \A i \in DOMAIN rows' : rows'[i] = rows[i]
BY DEF Purge

\* The table goes on to hold what was queued, by id.
LEMMA TableStep ==
    ASSUME TypeOK, OneThreadEach, TableIsQueued, [Next]_vars
    PROVE  TableIsQueued'
<1>1. ASSUME UNCHANGED <<channel, queued, rows, lastRow>> PROVE TableIsQueued'
    BY <1>1 DEF TableIsQueued
<1>2. ASSUME NEW t \in Threads, Enqueue(t) PROVE TableIsQueued'
    <2>1. PICK e \in Nat : e = recs[t].event
        BY <1>2, EnqueueAppends
    <2>2. rows' = rows /\ lastRow' = lastRow
        BY <1>2 DEF Enqueue
    <2>3. CASE channel' = channel /\ queued' = queued
        BY <1>1, <2>2, <2>3
    <2>4. CASE channel' = Append(channel, e) /\ queued' = Append(queued, e)
        <3>1. channel \in Seq(Nat) /\ queued \in Seq(Nat) /\ lastRow \in Nat
            BY DEF TypeOK
        <3>2. PICK l \in Nat : l = Len(channel)
            BY <3>1
        <3>3. Len(queued) = lastRow + l
            BY <3>2 DEF TableIsQueued
        <3>4. /\ Len(channel') = l + 1 /\ DOMAIN channel' = 1..(l + 1) /\ channel'[l + 1] = e
              /\ \A k \in 1..l : channel'[k] = channel[k]
            BY <2>4, <3>1, <3>2
        <3>5. /\ Len(queued') = lastRow + l + 1 /\ queued'[lastRow + l + 1] = e
              /\ \A i \in 1..(lastRow + l) : queued'[i] = queued[i]
            BY <2>4, <3>1, <3>3
        <3>6. \A k \in 1..l : channel[k] = queued[lastRow + k]
            <4>1. DOMAIN channel = 1..l
                BY <3>1, <3>2
            <4> QED BY <4>1 DEF TableIsQueued
        <3>7. ASSUME NEW k \in 1..(l + 1) PROVE channel'[k] = queued'[lastRow + k]
            <4>1. CASE k = l + 1
                BY <3>1, <3>2, <3>4, <3>5, <4>1
            <4>2. CASE k \in 1..l
                <5>1. lastRow + k \in 1..(lastRow + l)
                    BY <3>1, <4>2
                <5> QED BY <3>4, <3>5, <3>6, <4>2, <5>1
            <4> QED BY <3>7, <4>1, <4>2
        <3>8. \A i \in 1..lastRow : i \in 1..(lastRow + l)
            BY <3>1
        <3>9. \A i \in DOMAIN rows : rows[i] = queued'[i]
            BY <3>5, <3>8 DEF TableIsQueued
        <3> QED BY <2>2, <3>1, <3>4, <3>5, <3>7, <3>9 DEF TableIsQueued
    <2> QED BY <1>2, <2>1, <2>3, <2>4, EnqueueAppends
<1>3. ASSUME NEW n \in 1..MaxEvents, Write(n) PROVE TableIsQueued'
    <2>1. /\ n \in Nat /\ lastRow' = lastRow + n
          /\ Len(channel') = Len(channel) - n
          /\ \A k \in DOMAIN channel' : channel'[k] = channel[n + k] /\ n + k \in DOMAIN channel
          /\ DOMAIN rows' = DOMAIN rows \cup (lastRow + 1 .. lastRow + n)
          /\ \A i \in DOMAIN rows : rows'[i] = rows[i]
          /\ \A i \in lastRow + 1 .. lastRow + n :
                rows'[i] = channel[i - lastRow] /\ i - lastRow \in DOMAIN channel
        BY <1>3, WriteTakes
    <2>2. queued' = queued
        BY <1>3 DEF Write
    <2>3. lastRow \in Nat /\ channel \in Seq(Nat) /\ channel' \in Seq(Nat)
        BY <1>3, WriteTakes DEF TypeOK
    <2>4. Len(channel) \in Nat
        BY <2>3
    <2>5. Len(queued') = lastRow' + Len(channel')
        BY ONLY <2>1, <2>2, <2>3, <2>4, TableIsQueued DEF TableIsQueued
    <2>6. \A k \in DOMAIN channel' : channel'[k] = queued[lastRow + (n + k)]
        BY <2>1 DEF TableIsQueued
    <2>7. DOMAIN channel' \subseteq Nat
        BY <2>3
    <2>8. \A k \in DOMAIN channel' : channel'[k] = queued'[lastRow' + k]
        <3> SUFFICES ASSUME NEW k \in DOMAIN channel' PROVE channel'[k] = queued'[lastRow' + k]
            OBVIOUS
        <3>1. lastRow + (n + k) = lastRow' + k
            BY <2>1, <2>3, <2>7
        <3> QED BY <2>2, <2>6, <3>1
    <2>9. ASSUME NEW i \in DOMAIN rows' PROVE i \in 1..lastRow' /\ rows'[i] = queued'[i]
        <3>1. CASE i \in DOMAIN rows
            <4>1. i \in 1..lastRow /\ rows[i] = queued[i]
                BY <3>1 DEF TableIsQueued
            <4>2. i \in 1..(lastRow + n)
                BY <2>1, <2>3, <4>1
            <4> QED BY <2>1, <2>2, <3>1, <4>1, <4>2
        <3>2. CASE i \in lastRow + 1 .. lastRow + n
            <4>1. rows'[i] = channel[i - lastRow] /\ i - lastRow \in DOMAIN channel
                BY <2>1, <3>2
            <4>2. channel[i - lastRow] = queued[lastRow + (i - lastRow)]
                BY <4>1 DEF TableIsQueued
            <4>3. n \in Nat /\ lastRow \in Nat
                BY <2>1, <2>3
            <4>4. lastRow + (i - lastRow) = i /\ i \in 1..(lastRow + n)
                BY ONLY <3>2, <4>3
            <4> QED BY <2>1, <2>2, <4>1, <4>2, <4>4
        <3> QED BY <2>1, <2>9, <3>1, <3>2
    <2>10. DOMAIN rows' \subseteq 1..lastRow'
        BY <2>9
    <2> QED BY <2>5, <2>8, <2>9, <2>10 DEF TableIsQueued
<1>4. ASSUME NEW newest \in Range(rows), Purge(newest) PROVE TableIsQueued'
    <2>1. UNCHANGED <<channel, queued, lastRow>>
        BY <1>4 DEF Purge
    <2> QED BY <1>4, <2>1, PurgeKeeps DEF TableIsQueued
<1>5. \A t \in Threads :
        /\ \A name \in Names, outcome \in Outcomes :
              Answer(t, name, outcome) => UNCHANGED <<channel, queued, rows, lastRow>>
        /\ \A c \in Counters : Increment(t, c) => UNCHANGED <<channel, queued, rows, lastRow>>
        /\ RecordName(t) \/ Publish(t) => UNCHANGED <<channel, queued, rows, lastRow>>
    BY DEF Answer, Increment, RecordName, Publish
<1>6. \A v \in Viewers : ViewStep(v) => UNCHANGED <<channel, queued, rows, lastRow>>
    BY ViewKeeps
<1>7. UNCHANGED vars => UNCHANGED <<channel, queued, rows, lastRow>>
    BY DEF vars
<1> QED BY ONLY [Next]_vars, NextCases, <1>1, <1>2, <1>3, <1>4, <1>5, <1>6, <1>7

-----------------------------------------------------------------------------
(* The figures.                                                            *)

\* There are finitely many events.
LEMMA EventsFinite ==
    ASSUME TypeOK, NEW S \in SUBSET Events
    PROVE  IsFiniteSet(S) /\ Cardinality(S) \in Nat
<1>1. Len(events) \in Nat
    BY DEF TypeOK
<1>2. IsFiniteSet(Events)
    BY <1>1, FS_Interval DEF Events
<1>3. IsFiniteSet(S)
    BY <1>2, FS_Subset
<1> QED BY <1>3, FS_CardinalityType

\* A counter counts an event when its increment is made, and only then.
LEMMA CountsStep ==
    ASSUME TypeOK, OneThreadEach, CountsAreExact, [Next]_vars
    PROVE  CountsAreExact'
<1>1. ASSUME UNCHANGED <<recs, events, count>> PROVE CountsAreExact'
    <2>1. \A c \in Counters : Done(c)' = Done(c)
        BY <1>1 DEF Done, Events
    <2> QED BY <1>1, <2>1 DEF CountsAreExact
<1>2. ASSUME NEW t \in Threads, NEW name \in Names, NEW outcome \in Outcomes,
             Answer(t, name, outcome)
      PROVE  CountsAreExact'
    <2>1. /\ recs[t].pc = "idle" /\ recs'[t].pc = "count"
          /\ recs'[t].event = Len(events) + 1
          /\ recs'[t].todo = Counted(outcome)
          /\ \A u \in Threads \ {t} : recs'[u] = recs[u]
        BY <1>2, AnswerThread
    <2>2. /\ Events' = Events \cup {Len(events) + 1} /\ Len(events) + 1 \notin Events
          /\ \A e \in Events : events'[e] = events[e]
          /\ events'[Len(events) + 1].outcome = outcome
        BY <1>2, AnswerEvents
    <2>3. count' = count
        BY <1>2 DEF Answer
    <2>4. ASSUME NEW c \in Counters PROVE Done(c)' = Done(c)
        <3>1. Len(events) + 1 \notin Done(c)'
            BY <2>1, <2>2 DEF Done, Recording
        <3>2. \A e \in Events : e \in Done(c)' <=> e \in Done(c)
            <4> SUFFICES ASSUME NEW e \in Events PROVE e \in Done(c)' <=> e \in Done(c)
                OBVIOUS
            <4>1. \A u \in Threads : (recs'[u].pc \in Recording /\ recs'[u].event = e)
                                 <=> (recs[u].pc \in Recording /\ recs[u].event = e)
                BY <2>1, <2>2 DEF Recording
            <4>2. \A u \in Threads : recs'[u].pc \in Recording /\ recs'[u].event = e
                                        => recs'[u].todo = recs[u].todo
                BY <2>1, <2>2 DEF Recording
            <4> QED BY <2>2, <4>1, <4>2 DEF Done
        <3>3. Done(c) \subseteq Events /\ Done(c)' \subseteq Events \cup {Len(events) + 1}
            BY <2>2 DEF Done
        <3> QED BY <3>1, <3>2, <3>3
    <2> QED BY <2>3, <2>4 DEF CountsAreExact
<1>3. ASSUME NEW t \in Threads, NEW c \in Counters, Increment(t, c) PROVE CountsAreExact'
    <2> DEFINE x == recs[t].event
    <2>1. /\ recs[t].pc = "count" /\ c \in recs[t].todo
          /\ recs'[t].pc \in {"tops", "count"}
          /\ recs'[t].event = x
          /\ recs'[t].todo = recs[t].todo \ {c}
          /\ \A u \in Threads \ {t} : recs'[u] = recs[u]
        BY ONLY TypeOK, <1>3, IncrementThread
    <2>2. /\ x \in Events /\ c \in Counted(events[x].outcome)
          /\ \A u \in Threads \ {t} : recs[u].pc \in Recording => recs[u].event # x
        BY <2>1 DEF OneThreadEach, Recording
    <2>3. events' = events /\ count' = [count EXCEPT ![c] = @ + 1]
        BY <1>3 DEF Increment
    <2>4. count \in [Counters -> Nat]
        BY DEF TypeOK
    <2>5. Done(c)' = Done(c) \cup {x} /\ x \notin Done(c)
        <3>1. x \notin Done(c)
            BY <2>1 DEF Done, Recording
        <3>2. x \in Done(c)'
            BY <2>1, <2>2, <2>3 DEF Done, Events
        <3>3. \A e \in Events \ {x} : e \in Done(c)' <=> e \in Done(c)
            BY <2>1, <2>2, <2>3 DEF Done, Events, Recording
        <3>4. Done(c) \subseteq Events /\ Done(c)' \subseteq Events
            BY <2>3 DEF Done, Events
        <3> QED BY <3>1, <3>2, <3>3, <3>4
    <2>6. Cardinality(Done(c)') = Cardinality(Done(c)) + 1
        <3>1. Done(c) \in SUBSET Events
            BY DEF Done
        <3>2. IsFiniteSet(Done(c))
            BY <3>1, EventsFinite
        <3> QED BY <2>5, <3>2, FS_AddElement
    <2>7. ASSUME NEW d \in Counters \ {c} PROVE Done(d)' = Done(d)
        <3>1. \A u \in Threads :
                  (recs'[u].pc \in Recording /\ d \in recs'[u].todo)
                      <=> (recs[u].pc \in Recording /\ d \in recs[u].todo)
            BY <2>1 DEF Recording
        <3>2. \A u \in Threads : recs[u].pc \in Recording => recs'[u].event = recs[u].event
            BY <2>1
        <3> QED BY <2>3, <3>1, <3>2 DEF Done, Events
    <2>8. ASSUME NEW d \in Counters PROVE count'[d] = Cardinality(Done(d)')
        <3>1. count[d] = Cardinality(Done(d))
            BY DEF CountsAreExact
        <3>2. CASE d = c
            BY <2>3, <2>4, <2>6, <3>1, <3>2
        <3>3. CASE d # c
            BY <2>3, <2>4, <2>7, <3>1, <3>3
        <3> QED BY <3>2, <3>3
    <2> QED BY <2>8 DEF CountsAreExact
<1>4. ASSUME NEW t \in Threads, RecordName(t) \/ Enqueue(t) \/ Publish(t)
      PROVE  CountsAreExact'
    <2>1. recs[t].pc \in {"tops", "enqueue", "publish"} /\ events' = events /\ count' = count
        BY <1>4 DEF RecordName, Enqueue, Publish
    <2>2. recs[t].todo = {}
        BY <2>1 DEF OneThreadEach, Recording
    <2>3. /\ \A u \in Threads \ {t} : recs'[u] = recs[u]
          /\ recs'[t].pc \in Recording => recs'[t].todo = {}
        <3>1. Advance(t)
            BY <1>4 DEF Advance
        <3> QED BY <2>2, <3>1, AdvanceThread
    <2>4. ASSUME NEW c \in Counters PROVE Done(c)' = Done(c)
        <3>1. \A u \in Threads : (recs'[u].pc \in Recording /\ c \in recs'[u].todo)
                                 <=> (recs[u].pc \in Recording /\ c \in recs[u].todo)
            BY <2>2, <2>3
        <3>2. \A u \in Threads : recs[u].pc \in Recording /\ c \in recs[u].todo
                                    => recs'[u].event = recs[u].event
            BY <2>2, <2>3
        <3> QED BY <2>1, <3>1, <3>2 DEF Done, Events
    <2> QED BY <2>1, <2>4 DEF CountsAreExact
<1>5. \A n \in 1..MaxEvents : Write(n) => UNCHANGED <<recs, events, count>>
    BY DEF Write
<1>6. \A newest \in Range(rows) : Purge(newest) => UNCHANGED <<recs, events, count>>
    BY DEF Purge
<1>7. \A v \in Viewers : ViewStep(v) => UNCHANGED <<recs, events, count>>
    BY ViewKeeps
<1>8. UNCHANGED vars => UNCHANGED <<recs, events, count>>
    BY DEF vars
<1> QED BY ONLY [Next]_vars, NextCases, <1>1, <1>2, <1>3, <1>4, <1>5, <1>6, <1>7, <1>8

\* Which events the top names have seen depends on who is before that step.
LEMMA NamedKept ==
    ASSUME NEW n, events' = events,
           \A u \in Threads : (recs'[u].pc \in {"count", "tops"})
                                 <=> (recs[u].pc \in {"count", "tops"}),
           \A u \in Threads : recs[u].pc \in {"count", "tops"} => recs'[u].event = recs[u].event
    PROVE  Named(n)' = Named(n)
BY DEF Named, Events

\* What a name's turn at the shard changes.
LEMMA RecordNameNamed ==
    ASSUME TypeOK, OneThreadEach, NEW t \in Threads, RecordName(t),
           NEW x, x = recs[t].event, NEW name, name = events[x].name
    PROVE  /\ x \in Events
           /\ Named(name)' = Named(name) \cup {x} /\ x \notin Named(name)
           /\ \A n \in Names \ {name} : Named(n)' = Named(n)
<1>1. recs[t].pc = "tops" /\ Go(t) /\ events' = events
    BY DEF RecordName
<1>2. recs'[t].pc = "enqueue" /\ \A u \in Threads \ {t} : recs'[u] = recs[u]
    BY ONLY TypeOK, <1>1, GoThread, RecordSteps
<1>3. /\ x \in Events
      /\ \A u \in Threads \ {t} : recs[u].pc \in {"count", "tops"} => recs[u].event # x
    BY <1>1 DEF OneThreadEach, Recording
<1>4. \A e \in Events \ {x} :
          (\E u \in Threads : recs'[u].pc \in {"count", "tops"} /\ recs'[u].event = e)
              <=> (\E u \in Threads : recs[u].pc \in {"count", "tops"} /\ recs[u].event = e)
    BY <1>1, <1>2
<1>5. ~ \E u \in Threads : recs'[u].pc \in {"count", "tops"} /\ recs'[u].event = x
    BY <1>2, <1>3
<1>6. \E u \in Threads : recs[u].pc \in {"count", "tops"} /\ recs[u].event = x
    BY <1>1
<1>7. \A n : \A e \in Events \ {x} : e \in Named(n)' <=> e \in Named(n)
    BY <1>1, <1>4 DEF Named, Events
<1>8. x \notin Named(name) /\ x \in Named(name)'
    BY <1>1, <1>3, <1>5, <1>6 DEF Named, Events
<1>9. \A n \in Names \ {name} : x \notin Named(n) /\ x \notin Named(n)'
    BY <1>1 DEF Named
<1>10. \A n : Named(n) \subseteq Events /\ Named(n)' \subseteq Events
    BY <1>1 DEF Named, Events
<1>11. Named(name)' = Named(name) \cup {x}
    BY <1>3, <1>7, <1>8, <1>10
<1>12. \A n \in Names \ {name} : Named(n)' = Named(n)
    BY <1>7, <1>9, <1>10
<1> QED BY <1>3, <1>8, <1>11, <1>12

\* A tracked name's number is how often it was asked; the rest is for lack of room.
LEMMA TopsStep ==
    ASSUME SizesAssumption, TypeOK, OneThreadEach, TopsAreExact, [Next]_vars
    PROVE  TopsAreExact' /\ DOMAIN tops' \subseteq Names /\ tops' \in [DOMAIN tops' -> Nat]
<1> DEFINE Goal == TopsAreExact' /\ DOMAIN tops' \subseteq Names
                     /\ tops' \in [DOMAIN tops' -> Nat]
<1>0. DOMAIN tops \subseteq Names /\ tops \in [DOMAIN tops -> Nat]
    BY DEF TypeOK
<1>1. ASSUME tops' = tops, \A n \in Names : Named(n)' = Named(n) PROVE Goal
    BY <1>0, <1>1 DEF TopsAreExact
<1>2. ASSUME NEW t \in Threads, NEW name \in Names, NEW outcome \in Outcomes,
             Answer(t, name, outcome)
      PROVE  Goal
    <2>1. /\ recs[t].pc = "idle" /\ recs'[t].pc = "count"
          /\ recs'[t].event = Len(events) + 1
          /\ \A u \in Threads \ {t} : recs'[u] = recs[u]
        BY <1>2, AnswerThread
    <2>2. /\ Events' = Events \cup {Len(events) + 1} /\ Len(events) + 1 \notin Events
          /\ \A e \in Events : events'[e] = events[e]
        BY <1>2, AnswerEvents
    <2>3. tops' = tops
        BY <1>2 DEF Answer
    <2>4. ASSUME NEW n \in Names PROVE Named(n)' = Named(n)
        <3>1. Len(events) + 1 \notin Named(n)'
            BY <2>1, <2>2 DEF Named
        <3>2. \A e \in Events : \A u \in Threads :
                  (recs'[u].pc \in {"count", "tops"} /\ recs'[u].event = e)
                      <=> (recs[u].pc \in {"count", "tops"} /\ recs[u].event = e)
            BY <2>1, <2>2
        <3>3. \A e \in Events : e \in Named(n)' <=> e \in Named(n)
            BY <2>2, <3>2 DEF Named
        <3>4. Named(n) \subseteq Events /\ Named(n)' \subseteq Events \cup {Len(events) + 1}
            BY <2>2 DEF Named
        <3> QED BY <3>1, <3>3, <3>4
    <2> QED BY <1>1, <2>3, <2>4
<1>3. ASSUME NEW t \in Threads, NEW c \in Counters, Increment(t, c) PROVE Goal
    <2>1. /\ recs[t].pc = "count" /\ recs'[t].pc \in {"tops", "count"}
          /\ recs'[t].event = recs[t].event
          /\ \A u \in Threads \ {t} : recs'[u] = recs[u]
        BY ONLY TypeOK, <1>3, IncrementThread
    <2>2. events' = events /\ tops' = tops
        BY <1>3 DEF Increment
    <2>3. \A n \in Names : Named(n)' = Named(n)
        BY <2>1, <2>2, NamedKept
    <2> QED BY <1>1, <2>2, <2>3
<1>4. ASSUME NEW t \in Threads, Enqueue(t) \/ Publish(t) PROVE Goal
    <2>1. recs[t].pc \in {"enqueue", "publish"} /\ events' = events /\ tops' = tops /\ Go(t)
        BY <1>4 DEF Enqueue, Publish
    <2>2. /\ \A u \in Threads \ {t} : recs'[u] = recs[u]
          /\ recs'[t].pc \in {"publish", "idle"}
        BY ONLY TypeOK, <2>1, GoThread, RecordSteps
    <2>3. \A n \in Names : Named(n)' = Named(n)
        BY <2>1, <2>2, NamedKept
    <2> QED BY <1>1, <2>1, <2>3
<1>5. ASSUME NEW t \in Threads, RecordName(t) PROVE Goal
    <2>0. PICK x : x = recs[t].event
        OBVIOUS
    <2>2. PICK name \in Names : name = events[x].name
        <3>1. x \in Events
            BY <1>5, <2>0 DEF RecordName, OneThreadEach, Recording
        <3> QED BY <3>1, EventType
    <2>1. /\ x \in Events
          /\ Named(name)' = Named(name) \cup {x} /\ x \notin Named(name)
          /\ \A n \in Names \ {name} : Named(n)' = Named(n)
        BY <1>5, <2>0, <2>2, RecordNameNamed
    <2>3. tops' = CountName(name)
        BY <1>5, <2>0, <2>2 DEF RecordName
    <2>4. Named(name) \in SUBSET Events
        BY DEF Named
    <2>5. Cardinality(Named(name)') = Cardinality(Named(name)) + 1
        BY <2>1, <2>2, <2>4, EventsFinite, FS_AddElement
    <2>6. PICK m \in Nat : m = MaxTracked
        BY DEF SizesAssumption
    <2>7. CASE name \in DOMAIN tops
        <3>1. tops' = [tops EXCEPT ![name] = @ + 1]
            BY <2>3, <2>7 DEF CountName
        <3>2. DOMAIN tops' = DOMAIN tops
            BY <3>1
        <3>3. tops'[name] = tops[name] + 1 /\ \A n \in DOMAIN tops \ {name} : tops'[n] = tops[n]
            BY <1>0, <2>7, <3>1
        <3>4. \A n \in DOMAIN tops : tops'[n] = Cardinality(Named(n)')
            BY <1>0, <2>1, <2>2, <2>5, <2>7, <3>3 DEF TopsAreExact
        <3>5. tops' \in [DOMAIN tops -> Nat]
            <4>1. tops[name] + 1 \in Nat
                BY <1>0, <2>7
            <4> QED BY <1>0, <3>1, <4>1
        <3>6. \A n \in Names \ DOMAIN tops :
                  Named(n)' = {} \/ Cardinality(DOMAIN tops) = MaxTracked
            BY <2>1, <2>2, <2>7 DEF TopsAreExact
        <3> QED BY <1>0, <3>2, <3>4, <3>5, <3>6 DEF TopsAreExact
    <2>8. CASE name \notin DOMAIN tops /\ Cardinality(DOMAIN tops) < MaxTracked
        <3>1. tops' = Put(tops, name, 1)
            BY <2>3, <2>8 DEF CountName
        <3>2. /\ DOMAIN tops' = DOMAIN tops \cup {name}
              /\ tops' \in [DOMAIN tops \cup {name} -> Nat]
              /\ tops'[name] = 1 /\ \A n \in DOMAIN tops : tops'[n] = tops[n]
            BY <1>0, <2>8, <3>1 DEF Put
        <3>3. PICK k \in Nat : k = Cardinality(DOMAIN tops)
            BY FS_CardinalityType DEF TopsAreExact
        <3>4. /\ IsFiniteSet(DOMAIN tops \cup {name})
              /\ Cardinality(DOMAIN tops \cup {name}) = k + 1
            BY <2>8, <3>3, FS_AddElement DEF TopsAreExact
        <3>5. k < m /\ k + 1 <= m /\ k # m
            BY <2>6, <2>8, <3>3
        <3>6. \A n \in Names \ DOMAIN tops : Named(n) = {}
            BY <2>6, <3>3, <3>5 DEF TopsAreExact
        <3>7. Cardinality(Named(name)') = 1
            BY <2>5, <2>8, <3>6, FS_EmptySet
        <3>8. \A n \in DOMAIN tops' : tops'[n] = Cardinality(Named(n)')
            BY <1>0, <2>1, <2>2, <2>8, <3>2, <3>7 DEF TopsAreExact
        <3>9. \A n \in Names \ DOMAIN tops' : Named(n)' = {}
            BY <2>1, <2>2, <3>2, <3>6
        <3>10. Cardinality(DOMAIN tops') <= MaxTracked
            BY <2>6, <3>2, <3>4, <3>5
        <3> QED BY <1>0, <3>2, <3>4, <3>8, <3>9, <3>10 DEF TopsAreExact
    <2>9. CASE name \notin DOMAIN tops /\ ~(Cardinality(DOMAIN tops) < MaxTracked)
        <3>1. tops' = tops
            BY <2>3, <2>9 DEF CountName
        <3>2. PICK k \in Nat : k = Cardinality(DOMAIN tops)
            BY FS_CardinalityType DEF TopsAreExact
        <3>3. k = m
            BY <2>6, <2>9, <3>2 DEF TopsAreExact
        <3>4. \A n \in DOMAIN tops : tops'[n] = Cardinality(Named(n)')
            BY <1>0, <2>1, <2>2, <2>9, <3>1 DEF TopsAreExact
        <3> QED BY <1>0, <2>6, <3>1, <3>2, <3>3, <3>4 DEF TopsAreExact
    <2> QED BY <2>7, <2>8, <2>9
<1>6. \A n \in 1..MaxEvents : Write(n) => UNCHANGED <<recs, events, tops>>
    BY DEF Write
<1>7. \A newest \in Range(rows) : Purge(newest) => UNCHANGED <<recs, events, tops>>
    BY DEF Purge
<1>8. \A v \in Viewers : ViewStep(v) => UNCHANGED <<recs, events, tops>>
    BY ViewKeeps
<1>9. UNCHANGED vars => UNCHANGED <<recs, events, tops>>
    BY DEF vars
<1>10. UNCHANGED <<recs, events, tops>> => Goal
    <2> SUFFICES ASSUME UNCHANGED <<recs, events, tops>> PROVE Goal
        OBVIOUS
    <2>1. \A n \in Names : Named(n)' = Named(n)
        BY DEF Named, Events
    <2> QED BY <1>1, <2>1
<1> HIDE DEF Goal
<1>11. Goal
    BY ONLY [Next]_vars, NextCases, <1>2, <1>3, <1>4, <1>5, <1>6, <1>7, <1>8, <1>9, <1>10
<1> QED BY <1>11 DEF Goal

-----------------------------------------------------------------------------
(* What the threads, the writer and the purge do to a page.                *)

\* The types of all but the pages and the top names.
LEMMA SharedType ==
    ASSUME TypeOK, OneThreadEach, TableIsQueued, [Next]_vars
    PROVE  /\ count' \in [Counters -> Nat]
           /\ recs' \in [Threads -> Records]
           /\ channel' \in Seq(Nat) /\ sent' \in Seq(Nat) /\ queued' \in Seq(Nat)
           /\ lastRow' \in Nat
           /\ events' \in Seq([name : Names, outcome : Outcomes])
<1> DEFINE P == /\ count' \in [Counters -> Nat]
                /\ recs' \in [Threads -> Records]
                /\ channel' \in Seq(Nat) /\ sent' \in Seq(Nat) /\ queued' \in Seq(Nat)
                /\ lastRow' \in Nat
                /\ events' \in Seq([name : Names, outcome : Outcomes])
<1>0. /\ count \in [Counters -> Nat]
      /\ recs \in [Threads -> Records]
      /\ channel \in Seq(Nat) /\ sent \in Seq(Nat) /\ queued \in Seq(Nat)
      /\ lastRow \in Nat
      /\ events \in Seq([name : Names, outcome : Outcomes])
    BY DEF TypeOK
<1>1. UNCHANGED <<count, recs, channel, lastRow, sent, queued, events>> => P
    BY <1>0
<1>2. ASSUME NEW t \in Threads, NEW name \in Names, NEW outcome \in Outcomes,
             Answer(t, name, outcome)
      PROVE  P
    <2>1. UNCHANGED <<count, channel, lastRow, sent, queued>>
        BY <1>2 DEF Answer
    <2>2. recs' \in [Threads -> Records] /\ events' \in Seq([name : Names, outcome : Outcomes])
        BY <1>2, AnswerThread, AnswerEvents
    <2> QED BY ONLY <1>0, <2>1, <2>2
<1>3. ASSUME NEW t \in Threads, Advance(t), UNCHANGED <<channel, lastRow, sent, queued>>
      PROVE  P
    <2>1. recs' \in [Threads -> Records] /\ events' = events
        BY <1>3, AdvanceThread
    <2>2. count' \in [Counters -> Nat]
        <3>1. CASE \E c \in Counters : Increment(t, c)
            <4>1. PICK c \in Counters : count' = [count EXCEPT ![c] = @ + 1]
                BY <3>1 DEF Increment
            <4>2. count[c] + 1 \in Nat
                BY <1>0
            <4> QED BY <1>0, <4>1, <4>2
        <3>2. CASE RecordName(t) \/ Enqueue(t) \/ Publish(t)
            BY <1>0, <3>2 DEF RecordName, Enqueue, Publish
        <3> QED BY <1>3, <3>1, <3>2 DEF Advance
    <2> QED BY ONLY <1>0, <1>3, <2>1, <2>2
<1>4. ASSUME NEW t \in Threads, Enqueue(t) PROVE P
    <2>1. recs' \in [Threads -> Records]
        BY <1>4, AdvanceThread DEF Advance
    <2>2. UNCHANGED <<count, lastRow, sent, events>>
        BY <1>4 DEF Enqueue
    <2>3. PICK e \in Nat : \/ channel' = channel /\ queued' = queued
                           \/ channel' = Append(channel, e) /\ queued' = Append(queued, e)
        BY <1>4, EnqueueAppends
    <2>4. Append(channel, e) \in Seq(Nat) /\ Append(queued, e) \in Seq(Nat)
        BY ONLY <1>0, <2>3
    <2>5. channel' \in Seq(Nat) /\ queued' \in Seq(Nat)
        BY <1>0, <2>3, <2>4
    <2> QED BY ONLY <1>0, <2>1, <2>2, <2>5
<1>5. ASSUME NEW t \in Threads, Publish(t) PROVE P
    <2>1. recs' \in [Threads -> Records]
        BY <1>5, AdvanceThread DEF Advance
    <2>2. UNCHANGED <<count, channel, lastRow, queued, events>>
        BY <1>5 DEF Publish
    <2>3. sent' \in Seq(Nat)
        BY <1>5, PublishSends
    <2> QED BY ONLY <1>0, <2>1, <2>2, <2>3
<1>6. ASSUME NEW n \in 1..MaxEvents, Write(n) PROVE P
    <2>1. lastRow' \in Nat /\ channel' \in Seq(Nat)
        BY <1>6, WriteTakes
    <2>2. UNCHANGED <<count, recs, sent, queued, events>>
        BY <1>6 DEF Write
    <2> QED BY ONLY <1>0, <2>1, <2>2
<1>7. \A newest \in Range(rows) :
          Purge(newest) => UNCHANGED <<count, recs, channel, lastRow, sent, queued, events>>
    BY DEF Purge
<1>8. \A v \in Viewers :
          ViewStep(v) => UNCHANGED <<count, recs, channel, lastRow, sent, queued, events>>
    BY ViewKeeps
<1>9. UNCHANGED vars => UNCHANGED <<count, recs, channel, lastRow, sent, queued, events>>
    BY DEF vars
<1>10. \A t \in Threads :
          /\ \A c \in Counters :
                Increment(t, c) => Advance(t) /\ UNCHANGED <<channel, lastRow, sent, queued>>
          /\ RecordName(t) => Advance(t) /\ UNCHANGED <<channel, lastRow, sent, queued>>
    BY ONLY AdvanceKeeps
<1> HIDE DEF P
<1>11. P
    BY ONLY [Next]_vars, NextCases, <1>1, <1>2, <1>3, <1>4, <1>5, <1>6, <1>7, <1>8, <1>9, <1>10
<1> QED BY <1>11 DEF P

\* The histories and the counters only grow; the table grows above its last id and may
\* shrink anywhere.
Grows ==
    /\ Events \subseteq Events' /\ \A e \in Events : events'[e] = events[e]
    /\ Len(sent) <= Len(sent') /\ \A p \in 1..Len(sent) : sent'[p] = sent[p]
    /\ \A c \in Counters : count[c] <= count'[c]
    /\ lastRow <= lastRow' /\ \A i \in 1..lastRow : queued'[i] = queued[i]
    /\ \A i \in DOMAIN rows' : i > lastRow \/ (i \in DOMAIN rows /\ rows'[i] = rows[i])

\* Every step is of that kind.
LEMMA NextGrows ==
    ASSUME TypeOK, OneThreadEach, TableIsQueued, [Next]_vars
    PROVE  Grows
<1>0. /\ count \in [Counters -> Nat]
      /\ Len(channel) \in Nat /\ Len(sent) \in Nat /\ Len(queued) \in Nat
      /\ lastRow \in Nat /\ Len(events) \in Nat
    BY DEF TypeOK
<1>1. ASSUME UNCHANGED <<events, sent, count, lastRow, queued, rows>> PROVE Grows
    BY <1>0, <1>1 DEF Grows, Events
<1>2. ASSUME NEW t \in Threads, NEW name \in Names, NEW outcome \in Outcomes,
             Answer(t, name, outcome)
      PROVE  Grows
    <2>1. UNCHANGED <<sent, count, lastRow, queued, rows>>
        BY <1>2 DEF Answer
    <2>2. Events \subseteq Events' /\ \A e \in Events : events'[e] = events[e]
        BY <1>2, AnswerEvents
    <2> QED BY <1>0, <2>1, <2>2 DEF Grows
<1>3. ASSUME NEW t \in Threads, NEW c \in Counters, Increment(t, c) PROVE Grows
    <2>1. UNCHANGED <<events, sent, lastRow, queued, rows>>
          /\ count' = [count EXCEPT ![c] = @ + 1]
        BY <1>3 DEF Increment
    <2>2. \A d \in Counters : count[d] <= count'[d]
        BY <1>0, <2>1
    <2> QED BY <1>0, <2>1, <2>2 DEF Grows, Events
<1>4. ASSUME NEW t \in Threads, Enqueue(t) PROVE Grows
    <2>1. UNCHANGED <<events, sent, count, lastRow, rows>>
        BY <1>4 DEF Enqueue
    <2>2. PICK e \in Nat : queued' = queued \/ queued' = Append(queued, e)
        BY <1>4, EnqueueAppends
    <2>3. \A i \in 1..Len(queued) : queued'[i] = queued[i]
        BY <2>2 DEF TypeOK
    <2>4. \A i \in 1..lastRow : i \in 1..Len(queued)
        BY <1>0 DEF TableIsQueued
    <2> QED BY <1>0, <2>1, <2>3, <2>4 DEF Grows, Events
<1>5. ASSUME NEW t \in Threads, Publish(t) PROVE Grows
    <2>1. UNCHANGED <<events, count, lastRow, queued, rows>>
        BY <1>5 DEF Publish
    <2>2. DOMAIN sent = 1..Len(sent) /\ Len(sent') = Len(sent) + 1
          /\ \A p \in DOMAIN sent : sent'[p] = sent[p]
        BY <1>5, PublishSends
    <2>3. Len(sent) <= Len(sent')
        BY <1>0, <2>2
    <2> QED BY <1>0, <2>1, <2>2, <2>3 DEF Grows, Events
<1>6. ASSUME NEW n \in 1..MaxEvents, Write(n) PROVE Grows
    <2>1. UNCHANGED <<events, sent, count, queued>>
        BY <1>6 DEF Write
    <2>2. /\ n \in Nat /\ lastRow' = lastRow + n
          /\ DOMAIN rows' = DOMAIN rows \cup (lastRow + 1 .. lastRow + n)
          /\ \A i \in DOMAIN rows : rows'[i] = rows[i]
        BY <1>6, WriteTakes
    <2>3. \A i \in lastRow + 1 .. lastRow + n : i > lastRow
        BY <1>0, <2>2
    <2>4. lastRow <= lastRow'
        BY <1>0, <2>2
    <2> QED BY <1>0, <2>1, <2>2, <2>3, <2>4 DEF Grows, Events
<1>7. ASSUME NEW newest \in Range(rows), Purge(newest) PROVE Grows
    <2>1. UNCHANGED <<events, sent, count, lastRow, queued>>
        BY <1>7 DEF Purge
    <2> QED BY <1>0, <1>7, <2>1, PurgeKeeps DEF Grows, Events
<1>8. \A t \in Threads :
          RecordName(t) => UNCHANGED <<events, sent, count, lastRow, queued, rows>>
    BY DEF RecordName
<1>9. \A v \in Viewers : ViewStep(v) => UNCHANGED <<events, sent, count, lastRow, queued, rows>>
    BY ViewKeeps
<1>10. UNCHANGED vars => UNCHANGED <<events, sent, count, lastRow, queued, rows>>
    BY DEF vars
<1> QED BY ONLY [Next]_vars, NextCases, <1>1, <1>2, <1>3, <1>4, <1>5, <1>6, <1>7, <1>8, <1>9, <1>10

\* The live rows of a page are events, and stay the same ones.
LEMMA StreamKept ==
    ASSUME TypeOK, SentOnce, Grows, TypeOK', SentOnce', NEW w \in Pages, StreamInOrder(w)
    PROVE  /\ StreamInOrder(w)'
           /\ \A k \in DOMAIN w.live : w.live[k] \in Events
           /\ \A k \in DOMAIN w.live, q \in DOMAIN sent' :
                 sent'[q] = w.live[k] => q \in DOMAIN sent /\ sent[q] = w.live[k]
<1>1. /\ DOMAIN sent = 1..Len(sent) /\ Len(sent) \in Nat
      /\ DOMAIN sent' = 1..Len(sent') /\ Len(sent') \in Nat
    BY DEF TypeOK
<1>2. w.next \in Nat /\ w.next <= Len(sent)
    BY DEF Pages, StreamInOrder
<1>3. Len(sent) <= Len(sent') /\ \A p \in DOMAIN sent : p \in DOMAIN sent' /\ sent'[p] = sent[p]
    BY <1>1 DEF Grows
<1>4. \A p \in 1..w.next : p \in DOMAIN sent
    BY <1>1, <1>2
<1>5. \A k \in DOMAIN w.live : w.live[k] \in Events
    BY <1>4 DEF StreamInOrder, SentOnce
<1>6. ASSUME NEW k \in DOMAIN w.live, NEW q \in DOMAIN sent', sent'[q] = w.live[k]
      PROVE  q \in DOMAIN sent /\ sent[q] = w.live[k]
    <2>1. PICK p \in 1..w.next : sent[p] = w.live[k]
        BY DEF StreamInOrder
    <2>2. p \in DOMAIN sent /\ p \in DOMAIN sent' /\ sent'[p] = sent'[q]
        BY <1>3, <1>4, <1>6, <2>1
    <2>3. p = q
        BY <1>6, <2>2 DEF SentOnce, IsInjective
    <2> QED BY <2>1, <2>2, <2>3
<1>7. w.next <= Len(sent')
    BY <1>1, <1>2, <1>3
<1>8. \A k \in DOMAIN w.live : \E p \in 1..w.next : sent'[p] = w.live[k]
    BY <1>3, <1>4 DEF StreamInOrder
<1>9. \A j, k \in DOMAIN w.live, p, q \in DOMAIN sent' :
          j < k /\ sent'[p] = w.live[j] /\ sent'[q] = w.live[k] => p < q
    BY <1>6 DEF StreamInOrder
<1>10. w.pc \in {"seed", "page"} => w.live = <<>>
    BY DEF StreamInOrder
<1>11. StreamInOrder(w)'
    BY <1>7, <1>8, <1>9, <1>10 DEF StreamInOrder
<1> QED BY <1>5, <1>6, <1>11

\* The figures on show stay what they were, and true of the rows on show.
LEMMA FiguresKept ==
    ASSUME TypeOK, SentOnce, Grows, TypeOK', SentOnce', NEW w \in Pages, StreamInOrder(w),
           FiguresFollow(w)
    PROVE  FiguresFollow(w)'
<1>1. /\ DOMAIN sent = 1..Len(sent) /\ Len(sent) \in Nat /\ Len(sent') \in Nat
    BY DEF TypeOK
<1>2. /\ w.next \in Nat /\ w.next <= Len(sent) /\ w.shown \in [Counters -> Nat]
      /\ DOMAIN w.read \subseteq Counters /\ \A c \in DOMAIN w.read : w.read[c] \in Nat
    BY DEF Pages, StreamInOrder
<1>3. \A c \in Counters : Passed(c, w.next)' = Passed(c, w.next)
    <2> SUFFICES ASSUME NEW c \in Counters PROVE Passed(c, w.next)' = Passed(c, w.next)
        OBVIOUS
    <2>1. \A p \in 1..w.next : sent'[p] = sent[p] /\ sent[p] \in Events
        BY <1>1, <1>2 DEF Grows, SentOnce
    <2> QED BY <2>1 DEF Passed, Grows
<1>4. \A c \in Counters : RowsOf(w.live, c)' = RowsOf(w.live, c)
    <2>1. \A k \in DOMAIN w.live : events'[w.live[k]] = events[w.live[k]]
        BY StreamKept DEF Grows
    <2> QED BY <2>1 DEF RowsOf
<1>5. \A c \in Counters : count[c] \in Nat /\ count'[c] \in Nat /\ count[c] <= count'[c]
    BY DEF TypeOK, Grows
<1>6. ASSUME w.pc = "counters", NEW c \in DOMAIN w.read
      PROVE  w.read[c] <= count'[c] /\ w.read[c] >= Cardinality(Passed(c, w.next)')
    <2>1. c \in Counters /\ w.read[c] <= count[c] /\ w.read[c] >= Cardinality(Passed(c, w.next))
        BY <1>2, <1>6 DEF FiguresFollow
    <2>2. w.read[c] <= count'[c]
        BY <1>2, <1>5, <2>1
    <2> QED BY <1>3, <2>1, <2>2
<1>7. ASSUME w.pc = "wait", NEW c \in Counters
      PROVE  /\ w.shown[c] <= count'[c]
             /\ w.shown[c] >= Cardinality(RowsOf(w.live, c)')
             /\ w.next < Len(sent') \/ w.shown[c] >= Cardinality(Passed(c, w.next)')
    <2>1. /\ w.shown[c] <= count[c] /\ w.shown[c] >= Cardinality(RowsOf(w.live, c))
          /\ w.next < Len(sent) \/ w.shown[c] >= Cardinality(Passed(c, w.next))
        BY <1>7 DEF FiguresFollow
    <2>2. w.shown[c] <= count'[c]
        BY <1>2, <1>5, <2>1
    <2>3. w.next < Len(sent) => w.next < Len(sent')
        BY <1>1, <1>2 DEF Grows
    <2> QED BY <1>3, <1>4, <2>1, <2>2, <2>3
<1>8. w.pc \in {"page", "wait"} => DOMAIN w.read = {}
    BY DEF FiguresFollow
<1> QED BY <1>6, <1>7, <1>8 DEF FiguresFollow

\* New rows lie above the history.
LEMMA HistoryKept ==
    ASSUME TypeOK, TableIsQueued, Grows, TypeOK', NEW w \in Pages, HistoryFollows(w),
           DOMAIN rows' \subseteq Nat
    PROVE  HistoryFollows(w)'
<1> DEFINE h == w.history
<1>1. lastRow \in Nat /\ lastRow' \in Nat /\ lastRow <= lastRow'
    BY DEF TypeOK, Grows
<1>2. h \in Seq(HistoryRows)
    BY DEF Pages
<1>3. \A k \in DOMAIN h : h[k].id \in 1..lastRow /\ h[k].event = queued[h[k].id]
    BY DEF HistoryFollows
<1>4. \A k \in DOMAIN h : h[k].id \in 1..lastRow' /\ h[k].event = queued'[h[k].id]
    BY <1>1, <1>3 DEF Grows
<1>5. ASSUME NEW i \in DOMAIN rows', h # <<>>, h[Len(h)].id <= i, i <= h[1].id
      PROVE  \E k \in DOMAIN h : h[k].id = i
    <2>1. 1 \in DOMAIN h
        BY <1>2, <1>5
    <2>2. h[1].id \in 1..lastRow /\ i \in Nat
        BY <1>3, <1>5, <2>1
    <2>3. ~(i > lastRow)
        BY <1>1, <1>5, <2>2
    <2>4. i \in DOMAIN rows
        BY <1>5, <2>3 DEF Grows
    <2> QED BY <1>5, <2>4 DEF HistoryFollows
<1> QED BY <1>4, <1>5 DEF HistoryFollows

\* What may still come as history is what may have come before.
LEMMA SeamKept ==
    ASSUME TypeOK, SentOnce, TableIsQueued, Grows, TypeOK', SentOnce', NEW w \in Pages,
           StreamInOrder(w), HistoryFollows(w), SeamHolds(w), DOMAIN rows' \subseteq Nat
    PROVE  SeamHolds(w)'
<1>1. w.cursor \in Nat /\ lastRow \in Nat /\ w.history \in Seq(HistoryRows)
    BY DEF Pages, TypeOK
<1>2. w.cursor <= lastRow
    <2>1. CASE w.cursor = 0
        BY <1>1, <2>1
    <2>2. CASE w.cursor # 0
        <3>1. w.history # <<>> /\ w.cursor = w.history[Len(w.history)].id
            BY <2>2 DEF HistoryFollows
        <3>2. Len(w.history) \in DOMAIN w.history
            BY <1>1, <3>1
        <3>3. w.cursor \in 1..lastRow
            BY <3>1, <3>2 DEF HistoryFollows
        <3> QED BY <1>1, <3>3
    <2> QED BY <2>1, <2>2
<1>3. ASSUME NEW i \in DOMAIN rows', i < w.cursor PROVE i \in DOMAIN rows /\ rows'[i] = rows[i]
    <2>1. ~(i > lastRow)
        BY <1>1, <1>2, <1>3
    <2> QED BY <2>1 DEF Grows
<1>4. Old(w)' \subseteq Old(w)
    BY <1>3 DEF Old
<1>5. DOMAIN sent \subseteq DOMAIN sent' /\ \A p \in DOMAIN sent : sent'[p] = sent[p]
    <2>1. /\ DOMAIN sent = 1..Len(sent) /\ Len(sent) \in Nat
          /\ DOMAIN sent' = 1..Len(sent') /\ Len(sent') \in Nat
        BY DEF TypeOK
    <2> QED BY <2>1 DEF Grows
<1>6. \A k \in DOMAIN w.live, q \in DOMAIN sent' :
                 sent'[q] = w.live[k] => q \in DOMAIN sent /\ sent[q] = w.live[k]
    BY StreamKept
<1> SUFFICES ASSUME NEW e \in Old(w)', e \notin w.straddle
             PROVE  \E p \in DOMAIN sent' :
                       /\ sent'[p] = e
                       /\ w.pc \notin {"seed", "page"} => p <= w.next
                       /\ \A k \in DOMAIN w.live, q \in DOMAIN sent' : sent'[q] = w.live[k] => p < q
    BY DEF SeamHolds
<1>7. PICK p \in DOMAIN sent :
         /\ sent[p] = e
         /\ w.pc \notin {"seed", "page"} => p <= w.next
         /\ \A k \in DOMAIN w.live, q \in DOMAIN sent : sent[q] = w.live[k] => p < q
    BY <1>4 DEF SeamHolds
<1>8. p \in DOMAIN sent' /\ sent'[p] = e
    BY <1>5, <1>7
<1>9. \A k \in DOMAIN w.live, q \in DOMAIN sent' : sent'[q] = w.live[k] => p < q
    BY <1>6, <1>7
<1> QED BY <1>7, <1>8, <1>9

\* A page that does nothing keeps what it promises.
LEMMA ViewKept ==
    ASSUME TypeOK, SentOnce, TableIsQueued, Grows, TypeOK', SentOnce', TableIsQueued',
           NEW w \in {Away} \cup Pages, ViewHolds(w)
    PROVE  ViewHolds(w)'
<1>1. DOMAIN rows' \subseteq Nat
    BY DEF TableIsQueued, TypeOK
<1>2. CASE w = Away
    BY <1>2 DEF ViewHolds
<1>3. CASE w # Away
    BY <1>1, <1>3, StreamKept, FiguresKept, HistoryKept, SeamKept DEF ViewHolds
<1> QED BY <1>2, <1>3

-----------------------------------------------------------------------------
(* The pages of history.                                                   *)

\* A page is a falling sequence of ids below the cursor, with all rows down to its last.
LEMMA PageFacts ==
    ASSUME SizesAssumption, TypeOK, TableIsQueued, NEW before \in Nat,
           NEW order \in NewestFirst(PageIds(before))
    PROVE  /\ order \in Seq(Nat)
           /\ \A k \in DOMAIN order :
                 order[k] \in DOMAIN rows /\ (before = 0 \/ order[k] < before)
           /\ \A j, k \in DOMAIN order : j < k => order[j] > order[k]
           /\ order # <<>> =>
                 \A i \in DOMAIN rows : (before = 0 \/ i < before) /\ order[Len(order)] <= i =>
                    \E k \in DOMAIN order : order[k] = i
<1> DEFINE older == {i \in DOMAIN rows : before = 0 \/ i < before}
           above(i) == {j \in older : j > i}
           ids == PageIds(before)
<1>1. DOMAIN rows \subseteq Nat /\ DOMAIN rows \subseteq 1..lastRow /\ lastRow \in Nat
    BY DEF TableIsQueued, TypeOK
<1>2. ids = {i \in older : Cardinality(above(i)) < PageSize}
    BY DEF PageIds
<1>3. IsFiniteSet(older) /\ \A i : IsFiniteSet(above(i)) /\ Cardinality(above(i)) \in Nat
    <2>1. IsFiniteSet(1..lastRow)
        BY <1>1, FS_Interval
    <2>2. older \in SUBSET (1..lastRow) /\ \A i : above(i) \in SUBSET (1..lastRow)
        BY <1>1
    <2> HIDE DEF older, above
    <2> QED BY <2>1, <2>2, FS_Subset, FS_CardinalityType
<1>4. ids \in SUBSET older
    BY <1>2
<1>5. IsFiniteSet(ids)
    <2> HIDE DEF ids, older
    <2> QED BY <1>3, <1>4, FS_Subset
<1>6. PICK n \in Nat : n = Cardinality(ids)
    <2> HIDE DEF ids
    <2> QED BY <1>5, FS_CardinalityType
<1>7. /\ order \in [1..n -> ids] /\ Range(order) = ids
      /\ \A j, k \in DOMAIN order : j < k => order[j] > order[k]
    BY <1>6 DEF NewestFirst
<1>8. ids \subseteq Nat
    BY <1>1, <1>4
<1>9. order \in Seq(Nat) /\ DOMAIN order = 1..n /\ Len(order) = n
    <2> HIDE DEF ids
    <2>1. order \in [1..n -> Nat]
        BY <1>7, <1>8
    <2> QED BY <1>6, <2>1
<1>10. \A k \in DOMAIN order :
           order[k] \in ids /\ order[k] \in DOMAIN rows /\ (before = 0 \/ order[k] < before)
    BY <1>4, <1>7, <1>9
<1>11. ASSUME order # <<>>, NEW i \in DOMAIN rows, before = 0 \/ i < before,
              order[Len(order)] <= i
       PROVE  \E k \in DOMAIN order : order[k] = i
    <2>1. Len(order) \in DOMAIN order
        BY <1>9, <1>11
    <2>2. PICK m \in ids : m = order[Len(order)]
        BY <1>10, <2>1
    <2>3. i \in Nat /\ m \in Nat /\ m <= i
        BY <1>1, <1>8, <1>11, <2>2
    <2>4. above(i) \in SUBSET above(m)
        BY <1>1, <2>3
    <2>5. Cardinality(above(m)) < PageSize
        BY <1>2, <2>2
    <2>6. Cardinality(above(i)) <= Cardinality(above(m))
        <3>1. PICK A : A = above(i)
            OBVIOUS
        <3>2. PICK B : B = above(m)
            OBVIOUS
        <3> QED BY ONLY <1>3, <2>4, <3>1, <3>2, FS_Subset
    <2>7. Cardinality(above(i)) < PageSize
        <3>1. PICK a \in Nat : a = Cardinality(above(i))
            BY <1>3
        <3>2. PICK b \in Nat : b = Cardinality(above(m))
            BY <1>3
        <3>3. PICK s \in Nat : s = PageSize
            BY DEF SizesAssumption
        <3> QED BY ONLY <2>5, <2>6, <3>1, <3>2, <3>3
    <2>8. i \in older
        BY <1>11
    <2>9. i \in ids
        BY <1>2, <2>7, <2>8
    <2> HIDE DEF ids
    <2> QED BY <1>7, <2>9 DEF Range
<1> QED BY <1>7, <1>9, <1>10, <1>11

\* The rows of a page as a browser gets them.
LEMMA ShowsType ==
    ASSUME TypeOK, TableIsQueued, NEW order \in Seq(Nat),
           \A k \in DOMAIN order : order[k] \in DOMAIN rows
    PROVE  /\ Shows(order) \in Seq(HistoryRows) /\ Len(Shows(order)) = Len(order)
           /\ DOMAIN Shows(order) = DOMAIN order
           /\ \A k \in DOMAIN order :
                 /\ Shows(order)[k].id = order[k] /\ Shows(order)[k].event = rows[order[k]]
                 /\ order[k] \in 1..lastRow /\ rows[order[k]] = queued[order[k]]
                 /\ rows[order[k]] \in Nat
<1>1. \A i \in DOMAIN rows : i \in 1..lastRow /\ rows[i] = queued[i] /\ rows[i] \in Nat
    <2> SUFFICES ASSUME NEW i \in DOMAIN rows
                 PROVE  i \in 1..lastRow /\ rows[i] = queued[i] /\ rows[i] \in Nat
        OBVIOUS
    <2>1. i \in 1..lastRow /\ rows[i] = queued[i]
        BY DEF TableIsQueued
    <2>2. lastRow \in Nat /\ Len(channel) \in Nat /\ queued \in Seq(Nat)
        BY DEF TypeOK
    <2>3. Len(queued) = lastRow + Len(channel)
        BY DEF TableIsQueued
    <2>4. i \in 1..Len(queued)
        BY <2>1, <2>2, <2>3
    <2>5. queued[i] \in Nat
        BY <2>2, <2>4
    <2> QED BY <2>1, <2>5
<1>2. PICK n \in Nat : n = Len(order) /\ DOMAIN order = 1..n
    OBVIOUS
<1> DEFINE f == [k \in 1..n |-> [id |-> order[k], event |-> rows[order[k]]]]
<1>3. Shows(order) = f
    BY <1>2 DEF Shows
<1>4. \A k \in 1..n : [id |-> order[k], event |-> rows[order[k]]] \in HistoryRows
    BY <1>1, <1>2 DEF HistoryRows
<1>5. f \in [1..n -> HistoryRows]
    BY <1>4
<1>6. \A k \in 1..n : f[k].id = order[k] /\ f[k].event = rows[order[k]]
    OBVIOUS
<1> HIDE DEF f
<1>7. f \in Seq(HistoryRows) /\ Len(f) = n /\ DOMAIN f = 1..n
    BY <1>5
<1> QED BY <1>1, <1>2, <1>3, <1>6, <1>7

\* No counter has been read yet.
LEMMA NothingRead == <<>> \in UNION {[S -> Nat] : S \in SUBSET Counters} /\ DOMAIN <<>> = {}
<1>1. DOMAIN <<>> = {}
    OBVIOUS
<1>2. <<>> \in [{} -> Nat]
    OBVIOUS
<1>3. {} \in SUBSET Counters
    OBVIOUS
<1> QED BY <1>1, <1>2, <1>3

-----------------------------------------------------------------------------
(* What a browser's own steps do to its page.                              *)

\* What all pages share when they open.
Opens(w, pc, order) ==
    /\ w \in Pages /\ w.pc = pc /\ w.history = Shows(order) /\ w.cursor = Oldest(order)
    /\ w.live = <<>> /\ w.next = 0 /\ w.read = <<>>
    /\ w.straddle = IF order = <<>> THEN {} ELSE Range(rows) \ Range(sent)

LEMMA ViewFields ==
    ASSUME TypeOK, TableIsQueued, NEW pc \in {"seed", "page"}, NEW order \in Seq(Nat),
           \A k \in DOMAIN order : order[k] \in DOMAIN rows, NEW w, w = View(pc, order)
    PROVE  Opens(w, pc, order)
<1>1. Shows(order) \in Seq(HistoryRows)
    BY ShowsType
<1>2. Oldest(order) \in Nat
    <2>1. CASE order = <<>>
        BY <2>1 DEF Oldest
    <2>2. CASE order # <<>>
        <3>1. Len(order) \in DOMAIN order
            BY <2>2
        <3> QED BY <2>2, <3>1 DEF Oldest
    <2> QED BY <2>1, <2>2
<1>3. [c \in Counters |-> 0] \in [Counters -> Nat]
    OBVIOUS
<1>4. Range(rows) \subseteq Nat
    <2>1. \A i \in DOMAIN rows : rows[i] \in Nat
        <3> SUFFICES ASSUME NEW i \in DOMAIN rows PROVE rows[i] \in Nat
            OBVIOUS
        <3>1. i \in Nat
            BY DEF TableIsQueued, TypeOK
        <3>2. <<i>> \in Seq(Nat) /\ DOMAIN <<i>> = {1} /\ <<i>>[1] = i
            BY <3>1
        <3>3. PICK o \in Seq(Nat) : DOMAIN o = {1} /\ o[1] = i
            BY <3>2
        <3> QED BY <3>3, ShowsType
    <2> QED BY <2>1 DEF Range
<1>5. (IF order = <<>> THEN {} ELSE Range(rows) \ Range(sent)) \in SUBSET Nat
    BY <1>4
<1>6. PICK h \in Seq(HistoryRows) : h = Shows(order)
    BY <1>1
<1>7. PICK cursor \in Nat : cursor = Oldest(order)
    BY <1>2
<1>8. PICK shown \in [Counters -> Nat] : shown = [c \in Counters |-> 0]
    BY <1>3
<1>9. PICK late \in SUBSET Nat :
          late = IF order = <<>> THEN {} ELSE Range(rows) \ Range(sent)
    BY <1>5
<1>10. PICK none \in UNION {[S -> Nat] : S \in SUBSET Counters} : none = <<>>
    BY NothingRead
<1>11. w = [pc |-> pc, history |-> h, cursor |-> cursor, live |-> <<>>, next |-> 0,
            read |-> none, shown |-> shown, straddle |-> late]
    BY <1>6, <1>7, <1>8, <1>9, <1>10 DEF View
<1>12. <<>> \in Seq(Nat)
    OBVIOUS
<1>13. w \in Pages
    BY ONLY <1>11, <1>12, pc \in {"seed", "page"}, h \in Seq(HistoryRows), cursor \in Nat,
            none \in UNION {[S -> Nat] : S \in SUBSET Counters}, shown \in [Counters -> Nat],
            late \in SUBSET Nat DEF Pages
<1> QED BY ONLY <1>6, <1>7, <1>9, <1>10, <1>11, <1>13 DEF Opens

\* A page that opens: nothing live, nothing read, and one page of history or none.
LEMMA OpenHolds ==
    ASSUME TypeOK, TableIsQueued, NEW pc \in {"seed", "page"}, NEW order \in Seq(Nat),
           \A k \in DOMAIN order : order[k] \in DOMAIN rows,
           \A j, k \in DOMAIN order : j < k => order[j] > order[k],
           order # <<>> => \A i \in DOMAIN rows :
                              order[Len(order)] <= i => \E k \in DOMAIN order : order[k] = i,
           NEW w, w = View(pc, order)
    PROVE  w \in Pages /\ ViewHolds(w)
<1>1. /\ w \in Pages /\ w.pc = pc /\ w.history = Shows(order) /\ w.cursor = Oldest(order)
      /\ w.live = <<>> /\ w.next = 0 /\ w.read = <<>>
      /\ w.straddle = IF order = <<>> THEN {} ELSE Range(rows) \ Range(sent)
    <2>1. Opens(w, pc, order)
        BY ONLY TypeOK, TableIsQueued, pc \in {"seed", "page"}, order \in Seq(Nat),
                \A k \in DOMAIN order : order[k] \in DOMAIN rows, w = View(pc, order), ViewFields
    <2> QED BY ONLY <2>1 DEF Opens
<1>2. Len(sent) \in Nat /\ DOMAIN <<>> = {}
    BY NothingRead DEF TypeOK
<1>3. StreamInOrder(w)
    BY <1>1, <1>2 DEF StreamInOrder
<1>4. FiguresFollow(w)
    BY <1>1, <1>2 DEF FiguresFollow
<1>5. PICK h : h = Shows(order)
    OBVIOUS
<1>6. /\ h \in Seq(HistoryRows) /\ Len(h) = Len(order) /\ DOMAIN h = DOMAIN order
      /\ \A k \in DOMAIN order :
            /\ h[k].id = order[k] /\ h[k].event = rows[order[k]]
            /\ order[k] \in 1..lastRow /\ rows[order[k]] = queued[order[k]]
    BY <1>5, ShowsType
<1>7. order # <<>> => Len(order) \in DOMAIN order /\ h # <<>>
    BY <1>6
<1>8. HistoryFollows(w)
    <2>1. \A k \in DOMAIN h : h[k].id \in 1..lastRow /\ h[k].event = queued[h[k].id]
        BY <1>6
    <2>2. \A j, k \in DOMAIN h : j < k => h[j].id > h[k].id
        BY <1>6
    <2>3. w.cursor # 0 => h # <<>> /\ w.cursor = h[Len(h)].id
        BY <1>1, <1>6, <1>7 DEF Oldest
    <2>4. ASSUME NEW i \in DOMAIN rows, h # <<>>, h[Len(h)].id <= i
          PROVE  \E k \in DOMAIN h : h[k].id = i
        <3>1. order # <<>>
            BY <1>6, <2>4
        <3>2. order[Len(order)] <= i
            BY <1>6, <1>7, <2>4, <3>1
        <3> QED BY <1>6, <3>1, <3>2
    <2> QED BY <1>1, <1>5, <2>1, <2>2, <2>3, <2>4 DEF HistoryFollows
<1>9. SeamHolds(w)
    <2> SUFFICES ASSUME NEW e \in Old(w), e \notin w.straddle
                 PROVE  \E p \in DOMAIN sent :
                           /\ sent[p] = e
                           /\ w.pc \notin {"seed", "page"} => p <= w.next
                           /\ \A k \in DOMAIN w.live, q \in DOMAIN sent :
                                 sent[q] = w.live[k] => p < q
        BY DEF SeamHolds
    <2>1. e \in Range(rows)
        BY <1>1, <1>5, <1>6 DEF Old, Range
    <2>2. order # <<>>
        <3> SUFFICES ASSUME order = <<>> PROVE FALSE
            OBVIOUS
        <3>1. w.cursor = 0 /\ DOMAIN h = {}
            BY <1>1, <1>2, <1>6 DEF Oldest
        <3>2. \A i \in DOMAIN rows : ~(i < w.cursor)
            BY <3>1 DEF TableIsQueued, TypeOK
        <3> QED BY <1>1, <1>5, <3>1, <3>2 DEF Old
    <2>3. e \in Range(sent)
        BY <1>1, <2>1, <2>2
    <2> QED BY <1>1, <1>2, <2>3 DEF Range
<1> QED BY <1>1, <1>3, <1>4, <1>8, <1>9 DEF ViewHolds

\* Rows that are different events are no more than the events.
LEMMA RowsFit ==
    ASSUME NEW live, NEW S, NEW T, IsFiniteSet(T), \A k \in S : live[k] \in T,
           \A j, k \in S : live[j] = live[k] => j = k
    PROVE  Cardinality(S) <= Cardinality(T) /\ Cardinality(S) \in Nat
<1> DEFINE f == [k \in S |-> live[k]]
<1>1. f \in Injection(S, T)
    BY DEF Injection, IsInjective
<1>2. IsFiniteSet(S) /\ Cardinality(S) <= Cardinality(T)
    BY <1>1, FS_Injection
<1> QED BY <1>2, FS_CardinalityType

\* The live rows of a page are different events, all of them behind the receiver.
LEMMA LiveRowsDiffer ==
    ASSUME TypeOK, SentOnce, NEW w \in Pages, StreamInOrder(w)
    PROVE  /\ \A k \in DOMAIN w.live : w.live[k] \in Events
           /\ \A k \in DOMAIN w.live : \E p \in 1..w.next : p \in DOMAIN sent /\ sent[p] = w.live[k]
           /\ \A j, k \in DOMAIN w.live : w.live[j] = w.live[k] => j = k
<1>1. DOMAIN sent = 1..Len(sent) /\ Len(sent) \in Nat
    BY DEF TypeOK
<1>2. w.next \in Nat /\ w.next <= Len(sent) /\ w.live \in Seq(Nat)
    BY DEF Pages, StreamInOrder
<1>3. \A p \in 1..w.next : p \in DOMAIN sent
    BY <1>1, <1>2
<1>4. \A k \in DOMAIN w.live : \E p \in 1..w.next : p \in DOMAIN sent /\ sent[p] = w.live[k]
    BY <1>3 DEF StreamInOrder
<1>5. \A k \in DOMAIN w.live : w.live[k] \in Events
    BY <1>4 DEF SentOnce
<1>6. ASSUME NEW j \in DOMAIN w.live, NEW k \in DOMAIN w.live, w.live[j] = w.live[k], j # k
      PROVE  FALSE
    <2>1. PICK p \in DOMAIN sent : sent[p] = w.live[k]
        BY <1>4
    <2>2. j \in Nat /\ k \in Nat
        BY <1>2
    <2>3. j < k \/ k < j
        BY <1>6, <2>2
    <2>4. p < p
        BY <1>6, <2>1, <2>3 DEF StreamInOrder
    <2>5. p \in Nat
        BY <1>1, <2>1
    <2> QED BY <2>4, <2>5
<1> QED BY <1>4, <1>5, <1>6

\* So the rows of a counter are no more than what has passed, and that has been counted.
LEMMA RowsPassedCounted ==
    ASSUME TypeOK, SentOnce, CountsAreExact, NEW w \in Pages, StreamInOrder(w),
           NEW c \in Counters
    PROVE  /\ Cardinality(RowsOf(w.live, c)) <= Cardinality(Passed(c, w.next))
           /\ Cardinality(Passed(c, w.next)) <= count[c]
           /\ Cardinality(RowsOf(w.live, c)) \in Nat /\ Cardinality(Passed(c, w.next)) \in Nat
<1>1. Passed(c, w.next) \in SUBSET Events /\ Done(c) \in SUBSET Events
    BY DEF Passed, Done
<1>2. /\ IsFiniteSet(Passed(c, w.next)) /\ Cardinality(Passed(c, w.next)) \in Nat
      /\ IsFiniteSet(Done(c))
    BY <1>1, EventsFinite
<1>3. \A k \in RowsOf(w.live, c) : w.live[k] \in Passed(c, w.next)
    BY LiveRowsDiffer DEF RowsOf, Passed
<1>4. \A j, k \in RowsOf(w.live, c) : w.live[j] = w.live[k] => j = k
    BY LiveRowsDiffer DEF RowsOf
<1>5. /\ Cardinality(RowsOf(w.live, c)) <= Cardinality(Passed(c, w.next))
      /\ Cardinality(RowsOf(w.live, c)) \in Nat
    BY <1>2, <1>3, <1>4, RowsFit
<1>6. Passed(c, w.next) \in SUBSET Done(c)
    <2>1. \A p \in 1..w.next : p \in DOMAIN sent
        BY DEF StreamInOrder, Pages, TypeOK
    <2>2. \A p \in 1..w.next : \A t \in Threads : recs[t].pc \in Recording => recs[t].event # sent[p]
        BY <2>1 DEF SentOnce
    <2> QED BY <2>2 DEF Passed, Done
<1>7. Cardinality(Passed(c, w.next)) <= Cardinality(Done(c))
    BY <1>2, <1>6, FS_Subset
<1> QED BY <1>2, <1>5, <1>7 DEF CountsAreExact

\* The parts of the invariant that a step leaves alone follow from the fields it keeps.
LEMMA HistoryFields ==
    ASSUME NEW w, NEW x, x.history = w.history, x.cursor = w.cursor, HistoryFollows(w)
    PROVE  HistoryFollows(x) /\ Old(x) = Old(w)
BY DEF HistoryFollows, Old

\* The page opens its stream where the broadcast is.
LEMMA SubscribeHolds ==
    ASSUME TypeOK, NEW w \in Pages, w.pc = "page", ViewHolds(w),
           NEW x, x = [w EXCEPT !.pc = "counters", !.next = Len(sent)]
    PROVE  x \in Pages /\ ViewHolds(x)
<1>1. Len(sent) \in Nat /\ DOMAIN sent = 1..Len(sent)
    BY DEF TypeOK
<1>2. /\ x \in Pages /\ x.pc = "counters" /\ x.next = Len(sent) /\ x.history = w.history
      /\ x.cursor = w.cursor /\ x.live = w.live /\ x.read = w.read /\ x.straddle = w.straddle
    BY <1>1 DEF Pages
<1>3. w # Away
    BY DEF Away
<1>4. StreamInOrder(w) /\ FiguresFollow(w) /\ HistoryFollows(w) /\ SeamHolds(w)
    BY <1>3 DEF ViewHolds
<1>5. w.live = <<>> /\ DOMAIN w.read = {} /\ DOMAIN <<>> = {}
    BY <1>4, NothingRead DEF StreamInOrder, FiguresFollow
<1>6. StreamInOrder(x)
    BY <1>1, <1>2, <1>5 DEF StreamInOrder
<1>7. FiguresFollow(x)
    BY <1>2, <1>5 DEF FiguresFollow
<1>8. HistoryFollows(x) /\ Old(x) = Old(w)
    BY <1>2, <1>4, HistoryFields
<1>9. \A p \in DOMAIN sent : p <= Len(sent)
    BY <1>1
<1>10. SeamHolds(x)
    BY <1>2, <1>4, <1>5, <1>8, <1>9 DEF SeamHolds
<1> QED BY <1>2, <1>6, <1>7, <1>8, <1>10 DEF ViewHolds

\* What is left alone when neither the stream nor the history moves.
LEMMA StillHolds ==
    ASSUME NEW w, NEW x, x.history = w.history, x.cursor = w.cursor, x.live = w.live,
           x.next = w.next, x.straddle = w.straddle,
           (x.pc \in {"seed", "page"}) <=> (w.pc \in {"seed", "page"}),
           StreamInOrder(w), HistoryFollows(w), SeamHolds(w)
    PROVE  StreamInOrder(x) /\ HistoryFollows(x) /\ SeamHolds(x)
<1>1. StreamInOrder(x)
    BY DEF StreamInOrder
<1>2. HistoryFollows(x) /\ Old(x) = Old(w)
    BY HistoryFields
<1>3. SeamHolds(x)
    BY <1>2 DEF SeamHolds
<1> QED BY <1>1, <1>2, <1>3

\* A counter is read; with the last one, they are all on show.
LEMMA LoadHolds ==
    ASSUME TypeOK, SentOnce, CountsAreExact, NEW w \in Pages, w.pc \in {"seed", "counters"},
           ViewHolds(w), NEW c \in Counters, c \notin DOMAIN w.read,
           NEW read, read = Put(w.read, c, count[c]),
           NEW x, x = IF DOMAIN read = Counters
                      THEN [w EXCEPT !.pc = IF w.pc = "seed" THEN "page" ELSE "wait",
                                     !.read = <<>>, !.shown = read]
                      ELSE [w EXCEPT !.read = read]
    PROVE  x \in Pages /\ ViewHolds(x)
<1>1. w # Away
    BY DEF Away
<1>2. StreamInOrder(w) /\ FiguresFollow(w) /\ HistoryFollows(w) /\ SeamHolds(w)
    BY <1>1 DEF ViewHolds
<1>3. count \in [Counters -> Nat]
    BY DEF TypeOK
<1>4. DOMAIN w.read \subseteq Counters /\ \A d \in DOMAIN w.read : w.read[d] \in Nat
    BY DEF Pages
<1>5. /\ DOMAIN read = DOMAIN w.read \cup {c} /\ read[c] = count[c]
      /\ \A d \in DOMAIN w.read : read[d] = w.read[d]
      /\ read \in [DOMAIN w.read \cup {c} -> Nat]
    BY <1>3, <1>4 DEF Put
<1>6. read \in UNION {[S -> Nat] : S \in SUBSET Counters}
    <2>1. DOMAIN w.read \cup {c} \in SUBSET Counters
        BY <1>4
    <2> QED BY <1>5, <2>1
<1>7. ASSUME w.pc = "counters", NEW d \in DOMAIN read
      PROVE  /\ d \in Counters /\ read[d] \in Nat /\ read[d] <= count[d]
             /\ read[d] >= Cardinality(Passed(d, w.next))
    <2>1. d \in Counters /\ read[d] \in Nat /\ count[d] \in Nat
        BY <1>3, <1>4, <1>5, <1>7
    <2>2. CASE d = c
        <3>1. Cardinality(Passed(d, w.next)) <= count[d] /\ Cardinality(Passed(d, w.next)) \in Nat
            BY <1>2, <2>1, RowsPassedCounted
        <3> QED BY <1>5, <2>1, <2>2, <3>1
    <2>3. CASE d \in DOMAIN w.read
        BY <1>2, <1>5, <1>7, <2>1, <2>3 DEF FiguresFollow
    <2> QED BY <1>5, <1>7, <2>2, <2>3
<1>8. CASE DOMAIN read = Counters
    <2>1. PICK pc \in {"page", "wait"} : pc = IF w.pc = "seed" THEN "page" ELSE "wait"
        OBVIOUS
    <2>2. x = [w EXCEPT !.pc = pc, !.read = <<>>, !.shown = read]
        BY <1>8, <2>1
    <2>3. read \in [Counters -> Nat]
        BY <1>5, <1>8
    <2>4. /\ x.pc = pc /\ x.history = w.history /\ x.cursor = w.cursor /\ x.live = w.live
          /\ x.next = w.next /\ x.read = <<>> /\ x.shown = read /\ x.straddle = w.straddle
        BY <2>2 DEF Pages
    <2>5. x \in Pages
        BY <2>2, <2>3, NothingRead DEF Pages
    <2>6. (pc \in {"seed", "page"}) <=> (w.pc \in {"seed", "page"})
        BY <2>1
    <2>7. StreamInOrder(x) /\ HistoryFollows(x) /\ SeamHolds(x)
        BY ONLY <1>2, <2>4, <2>6, StillHolds
    <2>8. FiguresFollow(x)
        <3>1. ASSUME pc = "wait", NEW d \in Counters
              PROVE  /\ read[d] <= count[d] /\ read[d] >= Cardinality(RowsOf(w.live, d))
                     /\ read[d] >= Cardinality(Passed(d, w.next))
            <4>1. w.pc = "counters"
                BY <2>1, <3>1
            <4>2. read[d] \in Nat /\ read[d] <= count[d] /\ read[d] >= Cardinality(Passed(d, w.next))
                BY <1>7, <1>8, <4>1
            <4>3. /\ Cardinality(RowsOf(w.live, d)) <= Cardinality(Passed(d, w.next))
                  /\ Cardinality(RowsOf(w.live, d)) \in Nat
                  /\ Cardinality(Passed(d, w.next)) \in Nat
                BY <1>2, RowsPassedCounted
            <4>4. read[d] >= Cardinality(RowsOf(w.live, d))
                BY ONLY <4>2, <4>3
            <4> QED BY <4>2, <4>4
        <3>2. DOMAIN x.read = {} /\ x.pc # "counters"
            BY <2>1, <2>4, NothingRead
        <3> QED BY <2>4, <3>1, <3>2 DEF FiguresFollow
    <2> QED BY <2>5, <2>7, <2>8 DEF ViewHolds
<1>9. CASE DOMAIN read # Counters
    <2>1. x = [w EXCEPT !.read = read]
        BY <1>9
    <2>2. /\ x.pc = w.pc /\ x.history = w.history /\ x.cursor = w.cursor /\ x.live = w.live
          /\ x.next = w.next /\ x.read = read /\ x.straddle = w.straddle
        BY <2>1 DEF Pages
    <2>3. x \in Pages
        BY <1>6, <2>1 DEF Pages
    <2>4. StreamInOrder(x) /\ HistoryFollows(x) /\ SeamHolds(x)
        BY ONLY <1>2, <2>2, StillHolds
    <2>5. FiguresFollow(x)
        BY <1>7, <2>2 DEF FiguresFollow
    <2> QED BY <2>3, <2>4, <2>5 DEF ViewHolds
<1> QED BY <1>8, <1>9

\* The receiver has lagged: it goes on with what the ring still holds.
LEMMA LagHolds ==
    ASSUME SizesAssumption, TypeOK, NEW w \in Pages, w.pc = "wait", ViewHolds(w),
           Len(sent) - w.next > Capacity, NEW x, x = [w EXCEPT !.next = Len(sent) - Capacity]
    PROVE  x \in Pages /\ ViewHolds(x)
<1>1. w # Away
    BY DEF Away
<1>2. StreamInOrder(w) /\ FiguresFollow(w) /\ HistoryFollows(w) /\ SeamHolds(w)
    BY <1>1 DEF ViewHolds
<1>3. PICK n \in Nat : n = Len(sent) - Capacity /\ w.next < n /\ n < Len(sent)
    <2>1. Len(sent) \in Nat /\ w.next \in Nat /\ Capacity \in Nat \ {0}
        BY DEF TypeOK, Pages, SizesAssumption
    <2> QED BY <2>1
<1>4. x = [w EXCEPT !.next = n]
    BY <1>3
<1>5. /\ x.pc = w.pc /\ x.history = w.history /\ x.cursor = w.cursor /\ x.live = w.live
      /\ x.next = n /\ x.read = w.read /\ x.shown = w.shown /\ x.straddle = w.straddle
    BY <1>4 DEF Pages
<1>6. x \in Pages
    BY <1>4 DEF Pages
<1>7. w.next \in Nat /\ Len(sent) \in Nat /\ DOMAIN sent = 1..Len(sent)
    BY DEF Pages, TypeOK
<1>8. StreamInOrder(x)
    <2>1. \A p \in 1..w.next : p \in 1..n
        BY <1>3, <1>7
    <2>2. n <= Len(sent)
        BY <1>3, <1>7
    <2> QED BY <1>2, <1>5, <2>1, <2>2 DEF StreamInOrder
<1>9. FiguresFollow(x)
    BY <1>2, <1>3, <1>5 DEF FiguresFollow
<1>10. HistoryFollows(x) /\ Old(x) = Old(w)
    BY ONLY <1>2, <1>5, HistoryFields
<1>11. \A p \in DOMAIN sent : p <= w.next => p <= n
    BY <1>3, <1>7
<1>12. SeamHolds(x)
    BY <1>2, <1>5, <1>10, <1>11 DEF SeamHolds
<1> QED BY <1>6, <1>8, <1>9, <1>10, <1>12 DEF ViewHolds

\* A row comes: the next one of the broadcast.
LEMMA RowHolds ==
    ASSUME TypeOK, SentOnce, NEW w \in Pages, w.pc = "wait", ViewHolds(w), w.next < Len(sent),
           NEW x, x = [w EXCEPT !.pc = "counters", !.next = @ + 1,
                                !.live = Append(@, sent[w.next + 1])]
    PROVE  x \in Pages /\ ViewHolds(x)
<1>1. w # Away
    BY DEF Away
<1>2. StreamInOrder(w) /\ FiguresFollow(w) /\ HistoryFollows(w) /\ SeamHolds(w)
    BY <1>1 DEF ViewHolds
<1>3. /\ Len(sent) \in Nat /\ DOMAIN sent = 1..Len(sent) /\ w.next \in Nat /\ sent \in Seq(Nat)
      /\ w.live \in Seq(Nat)
    BY DEF TypeOK, Pages
<1>4. PICK n \in Nat : n = w.next + 1 /\ w.next \in Nat /\ n \in DOMAIN sent /\ n <= Len(sent)
    <2>1. PICK top \in Nat : top = Len(sent) /\ DOMAIN sent = 1..top /\ w.next < top
        BY <1>3
    <2>2. PICK n \in Nat : n = w.next + 1 /\ n \in 1..top
        BY ONLY <1>3, <2>1, top \in Nat
    <2> QED BY <1>3, <2>1, <2>2
<1>5. PICK e \in Nat : e = sent[n]
    BY <1>3, <1>4
<1>6. PICK l \in Seq(Nat) : l = w.live
    BY <1>3
<1>7. PICK m \in Seq(Nat) : m = Append(l, e)
    <2>1. Append(l, e) \in Seq(Nat)
        BY ONLY l \in Seq(Nat), e \in Nat
    <2> QED BY <2>1
<1>8. x = [w EXCEPT !.pc = "counters", !.next = n, !.live = m]
    BY <1>4, <1>5, <1>6, <1>7
<1>9. /\ x.pc = "counters" /\ x.history = w.history /\ x.cursor = w.cursor /\ x.live = m
      /\ x.next = n /\ x.read = w.read /\ x.straddle = w.straddle
    BY <1>8 DEF Pages
<1>10. x \in Pages
    BY <1>8 DEF Pages
<1>11. PICK z \in Nat :
          /\ z = Len(l) + 1 /\ DOMAIN l = 1..Len(l) /\ DOMAIN m = DOMAIN l \cup {z}
          /\ m[z] = e /\ (\A k \in DOMAIN l : m[k] = l[k] /\ k < z /\ k \in Nat)
    <2>1. /\ Len(l) \in Nat /\ DOMAIN l = 1..Len(l)
          /\ Len(m) = Len(l) + 1 /\ DOMAIN m = 1..(Len(l) + 1) /\ m[Len(l) + 1] = e
          /\ \A k \in 1..Len(l) : m[k] = l[k]
        BY ONLY <1>7, l \in Seq(Nat), e \in Nat, m \in Seq(Nat)
    <2>2. 1..(Len(l) + 1) = (1..Len(l)) \cup {Len(l) + 1}
        BY <2>1
    <2>3. \A k \in 1..Len(l) : k < Len(l) + 1 /\ k \in Nat
        BY <2>1
    <2> QED BY <2>1, <2>2, <2>3
<1>12. \A q \in DOMAIN sent : sent[q] = e => q = n
    BY <1>4, <1>5 DEF SentOnce, IsInjective
<1>13. ASSUME NEW k \in DOMAIN l, NEW p \in DOMAIN sent, sent[p] = l[k] PROVE p < n
    <2>1. PICK r \in 1..w.next : r \in DOMAIN sent /\ sent[r] = l[k]
        BY <1>2, <1>6, LiveRowsDiffer
    <2>2. r = p
        BY <1>13, <2>1 DEF SentOnce, IsInjective
    <2> QED BY ONLY <1>4, n \in Nat, r \in 1..w.next, <2>2
<1>14. StreamInOrder(x)
    <2>1. ASSUME NEW k \in DOMAIN m PROVE \E p \in 1..n : sent[p] = m[k]
        <3>1. CASE k = z
            BY <1>4, <1>5, <1>11, <3>1, <1>3
        <3>2. CASE k \in DOMAIN l
            <4>1. PICK p \in 1..w.next : sent[p] = l[k]
                BY <1>2, <1>6, <3>2 DEF StreamInOrder
            <4>2. p \in 1..n
                BY ONLY <1>4, n \in Nat, p \in 1..w.next
            <4> QED BY <1>11, <3>2, <4>1, <4>2
        <3> QED BY <1>11, <2>1, <3>1, <3>2
    <2>2. ASSUME NEW j \in DOMAIN m, NEW k \in DOMAIN m, NEW p \in DOMAIN sent,
                 NEW q \in DOMAIN sent, j < k, sent[p] = m[j], sent[q] = m[k]
          PROVE  p < q
        <3>1. j \in DOMAIN l
            <4>1. k \in DOMAIN l => k < z /\ k \in Nat
                BY <1>11
            <4>2. j = z => FALSE
                BY <1>11, <2>2, <4>1
            <4> QED BY <1>11, <2>2, <4>2
        <3>2. CASE k = z
            BY <1>11, <1>12, <1>13, <2>2, <3>1, <3>2
        <3>3. CASE k \in DOMAIN l
            BY <1>2, <1>6, <1>11, <2>2, <3>1, <3>3 DEF StreamInOrder
        <3> QED BY <1>11, <2>2, <3>2, <3>3
    <2> QED BY ONLY <1>4, <1>9, <2>1, <2>2 DEF StreamInOrder
<1>15. FiguresFollow(x)
    BY <1>2, <1>9 DEF FiguresFollow
<1>16. HistoryFollows(x) /\ Old(x) = Old(w)
    BY <1>2, <1>9, HistoryFields
<1>17. SeamHolds(x)
    <2> SUFFICES ASSUME NEW d \in Old(x), d \notin x.straddle
                 PROVE  \E p \in DOMAIN sent :
                           /\ sent[p] = d
                           /\ x.pc \notin {"seed", "page"} => p <= x.next
                           /\ \A k \in DOMAIN x.live, q \in DOMAIN sent :
                                 sent[q] = x.live[k] => p < q
        BY DEF SeamHolds
    <2>1. PICK p \in DOMAIN sent :
              /\ sent[p] = d /\ p <= w.next
              /\ \A k \in DOMAIN w.live, q \in DOMAIN sent : sent[q] = w.live[k] => p < q
        BY <1>2, <1>9, <1>16 DEF SeamHolds
    <2>2. p < n /\ p <= n
        BY ONLY <1>3, <1>4, n \in Nat, p \in DOMAIN sent, <2>1
    <2>3. \A k \in DOMAIN m, q \in DOMAIN sent : sent[q] = m[k] => p < q
        BY <1>6, <1>11, <1>12, <2>1, <2>2
    <2> QED BY <1>9, <2>1, <2>2, <2>3
<1> QED BY <1>10, <1>14, <1>15, <1>16, <1>17 DEF ViewHolds

\* An older page joins on below the cursor.
LEMMA OlderHolds ==
    ASSUME SizesAssumption, TypeOK, TableIsQueued, NEW w \in Pages, ViewHolds(w), w.cursor > 0,
           NEW order \in NewestFirst(PageIds(w.cursor)),
           NEW x, x = [w EXCEPT !.history = @ \o Shows(order), !.cursor = Oldest(order)]
    PROVE  x \in Pages /\ ViewHolds(x)
<1>0. lastRow \in Nat /\ DOMAIN rows \subseteq 1..lastRow
    BY ONLY TypeOK, TableIsQueued DEF TypeOK, TableIsQueued
<1>1. w # Away
    BY DEF Away, Pages
<1>2. StreamInOrder(w) /\ FiguresFollow(w) /\ HistoryFollows(w) /\ SeamHolds(w)
    BY <1>1 DEF ViewHolds
<1>3. PICK cur \in Nat : cur = w.cursor /\ cur > 0 /\ cur # 0
    BY DEF Pages
<1>4. /\ order \in Seq(Nat)
      /\ \A k \in DOMAIN order : order[k] \in DOMAIN rows /\ order[k] < cur
      /\ \A j, k \in DOMAIN order : j < k => order[j] > order[k]
      /\ order # <<>> => \A i \in DOMAIN rows : i < cur /\ order[Len(order)] <= i =>
                            \E k \in DOMAIN order : order[k] = i
    <2>1. order \in NewestFirst(PageIds(cur))
        BY <1>3
    <2> QED BY ONLY SizesAssumption, TypeOK, TableIsQueued, cur \in Nat, <1>3, <2>1, PageFacts
<1>5. PICK s \in Seq(HistoryRows) : s = Shows(order)
    BY ONLY TypeOK, TableIsQueued, <1>4, ShowsType
<1>6. /\ Len(s) = Len(order) /\ DOMAIN s = DOMAIN order
      /\ \A k \in DOMAIN order :
            /\ s[k].id = order[k] /\ s[k].event = rows[order[k]]
            /\ order[k] \in 1..lastRow /\ rows[order[k]] = queued[order[k]]
    BY ONLY TypeOK, TableIsQueued, <1>4, <1>5, ShowsType
<1>7. PICK h \in Seq(HistoryRows) : h = w.history
    BY DEF Pages
<1>8. PICK g \in Seq(HistoryRows) : g = h \o s
    <2>1. h \o s \in Seq(HistoryRows)
        BY ONLY h \in Seq(HistoryRows), s \in Seq(HistoryRows)
    <2> QED BY <2>1
<1>9. PICK a \in Nat : a = Len(h) /\ DOMAIN h = 1..a
    BY ONLY h \in Seq(HistoryRows)
<1>10. PICK b \in Nat : b = Len(s) /\ DOMAIN s = 1..b
    BY ONLY s \in Seq(HistoryRows)
<1>11. /\ Len(g) = a + b /\ DOMAIN g = 1..(a + b)
       /\ \A k \in 1..a : g[k] = h[k]
       /\ \A k \in 1..b : g[a + k] = s[k]
    BY ONLY h \in Seq(HistoryRows), s \in Seq(HistoryRows), g \in Seq(HistoryRows),
            <1>8, <1>9, <1>10
<1>12. PICK old \in Nat : old = Oldest(order) /\ (old = 0 \/ old < cur)
                            /\ (b = 0 => old = 0) /\ (b > 0 => old = order[b])
    <2>1. CASE order = <<>>
        BY <2>1, <1>6, <1>10 DEF Oldest
    <2>2. CASE order # <<>>
        <3>1. Len(order) \in DOMAIN order /\ Len(order) = b /\ b > 0
            BY <1>4, <1>6, <1>10, <2>2
        <3>2. Oldest(order) = order[b] /\ order[b] \in Nat /\ order[b] < cur
            BY <1>4, <2>2, <3>1 DEF Oldest
        <3> QED BY <3>1, <3>2
    <2> QED BY <2>1, <2>2
<1>13. x = [w EXCEPT !.history = g, !.cursor = old]
    BY <1>5, <1>7, <1>8, <1>12
<1>14. /\ x.pc = w.pc /\ x.history = g /\ x.cursor = old /\ x.live = w.live
       /\ x.next = w.next /\ x.read = w.read /\ x.shown = w.shown /\ x.straddle = w.straddle
    BY ONLY <1>13, w \in Pages DEF Pages
<1>15. x \in Pages
    BY ONLY <1>13, w \in Pages, g \in Seq(HistoryRows), old \in Nat DEF Pages
<1>16. StreamInOrder(x)
    BY <1>2, <1>14 DEF StreamInOrder
<1>17. FiguresFollow(x)
    BY <1>2, <1>14 DEF FiguresFollow
<1>18. ASSUME NEW k \in DOMAIN g
       PROVE  \/ k \in DOMAIN h /\ g[k] = h[k]
              \/ k - a \in DOMAIN s /\ g[k] = s[k - a] /\ k - a \in Nat
    <2>1. CASE k \in 1..a
        BY <1>9, <1>11, <2>1
    <2>2. CASE k \notin 1..a
        <3>1. k - a \in 1..b /\ a + (k - a) = k
            BY <1>11, <1>18, <2>2
        <3>2. g[a + (k - a)] = s[k - a]
            BY <1>11, <3>1
        <3> QED BY <1>10, <3>1, <3>2
    <2> QED BY <2>1, <2>2
<1>19. /\ h # <<>> /\ a > 0 /\ cur = h[a].id
       /\ \A k \in DOMAIN h : h[k].id \in 1..lastRow /\ h[k].event = queued[h[k].id]
       /\ \A j, k \in DOMAIN h : j < k => h[j].id > h[k].id
       /\ \A i \in DOMAIN rows : h[a].id <= i /\ i <= h[1].id => \E k \in DOMAIN h : h[k].id = i
    <2>1. h # <<>> /\ cur = h[a].id
        BY <1>2, <1>3, <1>7, <1>9 DEF HistoryFollows
    <2>2. a > 0
        BY <1>7, <1>9, <2>1
    <2> QED BY <1>2, <1>7, <1>9, <2>1, <2>2 DEF HistoryFollows
<1>20. \A j \in DOMAIN h : h[j].id >= cur /\ h[j].id \in Nat
    <2> SUFFICES ASSUME NEW j \in DOMAIN h PROVE h[j].id >= cur /\ h[j].id \in Nat
        OBVIOUS
    <2>1. h[j].id \in Nat
        BY ONLY <1>0, <1>19, j \in DOMAIN h
    <2>2. CASE j = a
        BY <1>3, <1>19, <2>1, <2>2
    <2>3. CASE j # a
        <3>1. j < a /\ a \in DOMAIN h
            BY <1>9, <1>19, <2>3
        <3>2. h[j].id > h[a].id
            BY <1>19, <3>1
        <3>3. PICK i \in Nat : i = h[j].id /\ i > cur
            BY ONLY <1>19, <2>1, <3>2
        <3> QED BY ONLY <3>3, cur \in Nat
    <2> QED BY <2>2, <2>3
<1>21. \A k \in DOMAIN s : s[k].id < cur /\ s[k].id \in Nat
    BY <1>4, <1>6
<1>22. HistoryFollows(x)
    <2>1. \A k \in DOMAIN g : g[k].id \in 1..lastRow /\ g[k].event = queued[g[k].id]
        <3> SUFFICES ASSUME NEW k \in DOMAIN g
                     PROVE  g[k].id \in 1..lastRow /\ g[k].event = queued[g[k].id]
            OBVIOUS
        <3>1. CASE k \in DOMAIN h /\ g[k] = h[k]
            BY <1>19, <3>1
        <3>2. CASE k - a \in DOMAIN s /\ g[k] = s[k - a]
            <4>1. PICK i : i = k - a /\ i \in DOMAIN order /\ g[k] = s[i]
                BY <1>6, <3>2
            <4> QED BY <1>6, <4>1
        <3> QED BY <1>18, <3>1, <3>2
    <2>2. ASSUME NEW j \in DOMAIN g, NEW k \in DOMAIN g, j < k PROVE g[j].id > g[k].id
        <3>1. j \in Nat /\ k \in Nat
            BY <1>11
        <3>2. CASE j \in DOMAIN h /\ k \in DOMAIN h
            BY <1>9, <1>11, <1>19, <2>2, <3>2
        <3>3. CASE j \in DOMAIN h /\ k \notin DOMAIN h
            <4>1. g[j] = h[j] /\ k - a \in DOMAIN s /\ g[k] = s[k - a]
                BY <1>9, <1>11, <1>18, <3>3
            <4>2. h[j].id >= cur /\ h[j].id \in Nat /\ s[k - a].id < cur /\ s[k - a].id \in Nat
                BY <1>20, <1>21, <3>3, <4>1
            <4>3. PICK m \in Nat : m = h[j].id /\ m >= cur
                BY <4>2
            <4>4. PICK n \in Nat : n = s[k - a].id /\ n < cur
                BY <4>2
            <4>5. m >= cur /\ n < cur
                BY ONLY <4>3, <4>4
            <4>6. m > n
                BY ONLY cur \in Nat, <4>5, m \in Nat, n \in Nat
            <4> QED BY ONLY <4>1, <4>3, <4>4, <4>6
        <3>4. CASE j \notin DOMAIN h
            <4>1. k \notin DOMAIN h
                BY <1>9, <1>11, <2>2, <3>1, <3>4
            <4>2. /\ j - a \in DOMAIN s /\ g[j] = s[j - a] /\ k - a \in DOMAIN s
                  /\ g[k] = s[k - a]
                BY <1>18, <3>4, <4>1
            <4>3. j - a < k - a
                BY <2>2, <3>1
            <4>4. PICK m \in DOMAIN order : m = j - a /\ g[j] = s[m]
                BY <1>6, <4>2
            <4>5. PICK n \in DOMAIN order : n = k - a /\ g[k] = s[n]
                BY <1>6, <4>2
            <4>6. order[m] > order[n]
                BY ONLY <1>4, <4>3, <4>4, <4>5, m \in DOMAIN order, n \in DOMAIN order
            <4> QED BY <1>6, <4>4, <4>5, <4>6
        <3> QED BY <3>2, <3>3, <3>4
    <2>3. g # <<>> /\ 1 \in DOMAIN g /\ g[1] = h[1] /\ Len(g) = a + b
        <3>1. 1 \in 1..a /\ 1 \in 1..(a + b) /\ a + b > 0
            BY <1>19
        <3>2. g # <<>>
            BY <1>11, <3>1
        <3> QED BY <1>11, <3>1, <3>2
    <2>4. b = 0 => g[Len(g)] = h[a]
        BY <1>11, <1>19
    <2>5. b > 0 => g[Len(g)] = s[b] /\ s[b].id = order[b] /\ b \in DOMAIN order
                     /\ order # <<>> /\ Len(order) = b
        BY <1>4, <1>6, <1>10, <1>11
    <2>6. old # 0 => old = g[Len(g)].id
        BY <1>12, <2>5
    <2>7. ASSUME NEW i \in DOMAIN rows, g[Len(g)].id <= i, i <= g[1].id
          PROVE  \E k \in DOMAIN g : g[k].id = i
        <3>1. i \in Nat
            BY ONLY <1>0, i \in DOMAIN rows
        <3>2. CASE cur <= i
            <4>1. PICK k \in DOMAIN h : h[k].id = i
                BY <1>19, <2>3, <2>7, <3>2
            <4>2. k \in DOMAIN g /\ g[k] = h[k]
                BY <1>9, <1>11, <4>1
            <4> QED BY <4>1, <4>2
        <3>3. CASE ~(cur <= i)
            <4>1. i < cur
                BY <1>3, <3>1, <3>3
            <4>2. b > 0
                <5>1. ~(cur <= i) /\ (b = 0 => cur <= i)
                    BY ONLY <1>19, <2>4, <2>7, <3>3
                <5> QED BY ONLY <5>1, b \in Nat
            <4>3. PICK k \in DOMAIN order : order[k] = i
                <5>1. order # <<>> /\ order[Len(order)] = g[Len(g)].id
                    BY ONLY <2>5, <4>2
                <5> QED BY ONLY <1>4, <2>7, <4>1, <5>1, i \in DOMAIN rows
            <4>4. k \in 1..b /\ a + k \in DOMAIN g /\ g[a + k] = s[k]
                BY ONLY <1>6, <1>10, <1>11, a \in Nat, b \in Nat, k \in DOMAIN order
            <4> QED BY <1>6, <4>3, <4>4
        <3> QED BY <3>2, <3>3
    <2>8. /\ \A j, k \in DOMAIN g : j < k => g[j].id > g[k].id
          /\ \A i \in DOMAIN rows : g # <<>> /\ g[Len(g)].id <= i /\ i <= g[1].id
                => \E k \in DOMAIN g : g[k].id = i
        BY <2>2, <2>7
    <2> QED BY ONLY <1>14, <2>1, <2>3, <2>6, <2>8 DEF HistoryFollows
<1>23. Old(x) \subseteq Old(w)
    <2>1. ASSUME NEW k \in DOMAIN g PROVE g[k].event \in Old(w)
        <3>1. CASE k \in DOMAIN h /\ g[k] = h[k]
            BY <1>7, <3>1 DEF Old
        <3>2. CASE k - a \in DOMAIN s /\ g[k] = s[k - a]
            <4>1. PICK j \in DOMAIN order : g[k] = s[j]
                BY ONLY <1>6, <3>2
            <4>2. g[k].event = rows[order[j]] /\ order[j] \in DOMAIN rows /\ order[j] < w.cursor
                BY ONLY <1>3, <1>4, <1>6, <4>1, j \in DOMAIN order
            <4> QED BY ONLY <4>2 DEF Old
        <3> QED BY <1>18, <2>1, <3>1, <3>2
    <2>2. ASSUME NEW i \in DOMAIN rows, i < old PROVE i < w.cursor
        <3>1. i \in Nat
            BY ONLY <1>0, i \in DOMAIN rows
        <3> QED BY <1>3, <1>12, <2>2, <3>1
    <2> QED BY <1>14, <2>1, <2>2 DEF Old
<1>24. SeamHolds(x)
    BY ONLY <1>2, <1>14, <1>23 DEF SeamHolds
<1> QED BY <1>15, <1>16, <1>17, <1>22, <1>24 DEF ViewHolds

\* Whatever a browser does, its page is one that keeps the promises.
LEMMA BrowserHolds ==
    ASSUME SizesAssumption, IInv, NEW v \in Viewers, ViewStep(v)
    PROVE  \E x \in {Away} \cup Pages : views' = [views EXCEPT ![v] = x] /\ ViewHolds(x)
<1>0. TypeOK /\ TableIsQueued /\ SentOnce /\ CountsAreExact
    BY DEF IInv
<1>1. views \in [Viewers -> {Away} \cup Pages] /\ Len(sent) \in Nat /\ Away.pc = "away"
    BY <1>0 DEF TypeOK, Away
<1>2. PICK w \in {Away} \cup Pages : w = views[v] /\ ViewHolds(w)
    BY <1>1 DEF IInv
<1>3. CASE Open(v)
    <2>1. PICK order \in NewestFirst(PageIds(0)) :
              views' = [views EXCEPT ![v] = View("page", order)]
        BY <1>3 DEF Open
    <2>2. /\ order \in Seq(Nat)
          /\ \A k \in DOMAIN order : order[k] \in DOMAIN rows
          /\ \A j, k \in DOMAIN order : j < k => order[j] > order[k]
          /\ order # <<>> => \A i \in DOMAIN rows :
                                order[Len(order)] <= i => \E k \in DOMAIN order : order[k] = i
        BY ONLY <1>0, SizesAssumption, order \in NewestFirst(PageIds(0)), PageFacts
    <2>3. View("page", order) \in Pages /\ ViewHolds(View("page", order))
        BY ONLY <1>0, <2>2, OpenHolds
    <2> QED BY <2>1, <2>3
<1>4. CASE OpenDashboard(v)
    <2>1. <<>> \in Seq(Nat) /\ DOMAIN <<>> = {}
        BY NothingRead
    <2>2. View("seed", <<>>) \in Pages /\ ViewHolds(View("seed", <<>>))
        BY ONLY <1>0, <2>1, OpenHolds
    <2> QED BY <1>4, <2>2 DEF OpenDashboard
<1>5. CASE Subscribe(v)
    <2>1. w \in Pages /\ w.pc = "page"
        BY <1>1, <1>2, <1>5 DEF Subscribe
    <2> DEFINE x == [w EXCEPT !.pc = "counters", !.next = Len(sent)]
    <2>2. views' = [views EXCEPT ![v] = x]
        BY <1>1, <1>2, <1>5 DEF Subscribe, Subscribed
    <2>3. x \in Pages /\ ViewHolds(x)
        BY ONLY <1>0, <1>2, <2>1, SubscribeHolds
    <2> QED BY <2>2, <2>3
<1>6. CASE Receive(v)
    <2>1. w \in Pages /\ w.pc = "wait" /\ w.next < Len(sent)
        BY <1>1, <1>2, <1>6 DEF Receive
    <2>2. CASE Len(sent) - w.next > Capacity
        <3> DEFINE x == [w EXCEPT !.next = Len(sent) - Capacity]
        <3>1. views' = [views EXCEPT ![v] = x]
            BY <1>2, <1>6, <2>2 DEF Receive
        <3>2. x \in Pages /\ ViewHolds(x)
            BY ONLY SizesAssumption, <1>0, <1>2, <2>1, <2>2, LagHolds
        <3> QED BY <3>1, <3>2
    <2>3. CASE ~(Len(sent) - w.next > Capacity)
        <3> DEFINE x == [w EXCEPT !.pc = "counters", !.next = @ + 1,
                                  !.live = Append(@, sent[w.next + 1])]
        <3>1. views' = [views EXCEPT ![v] = x]
            BY <1>2, <1>6, <2>3 DEF Receive
        <3>2. x \in Pages /\ ViewHolds(x)
            BY ONLY <1>0, <1>2, <2>1, RowHolds
        <3> QED BY <3>1, <3>2
    <2> QED BY <2>2, <2>3
<1>7. CASE Older(v)
    <2>1. w \in Pages /\ w.cursor > 0
        BY <1>1, <1>2, <1>7 DEF Older
    <2>2. PICK order \in NewestFirst(PageIds(w.cursor)) :
              views' = [views EXCEPT ![v].history = @ \o Shows(order), ![v].cursor = Oldest(order)]
        BY <1>2, <1>7 DEF Older
    <2> DEFINE x == [w EXCEPT !.history = @ \o Shows(order), !.cursor = Oldest(order)]
    <2>3. views' = [views EXCEPT ![v] = x]
        BY <1>1, <1>2, <2>2
    <2>4. x \in Pages /\ ViewHolds(x)
        BY ONLY SizesAssumption, <1>0, <1>2, <2>1, order \in NewestFirst(PageIds(w.cursor)),
                OlderHolds
    <2> QED BY <2>3, <2>4
<1>8. CASE Close(v)
    BY <1>8 DEF Close, ViewHolds
<1>9. ASSUME NEW c \in Counters, Load(v, c)
      PROVE  \E x \in {Away} \cup Pages : views' = [views EXCEPT ![v] = x] /\ ViewHolds(x)
    <2>1. w \in Pages /\ w.pc \in {"seed", "counters"} /\ c \notin DOMAIN w.read
        BY <1>1, <1>2, <1>9 DEF Load
    <2> DEFINE read == Put(w.read, c, count[c])
               x == IF DOMAIN read = Counters
                    THEN [w EXCEPT !.pc = IF w.pc = "seed" THEN "page" ELSE "wait",
                                   !.read = <<>>, !.shown = read]
                    ELSE [w EXCEPT !.read = read]
    <2>2. views' = [views EXCEPT ![v] = x]
        BY <1>2, <1>9 DEF Load
    <2>3. x \in Pages /\ ViewHolds(x)
        BY ONLY <1>0, <1>2, <2>1, c \in Counters, LoadHolds
    <2> QED BY <2>2, <2>3
<1> QED BY <1>3, <1>4, <1>5, <1>6, <1>7, <1>8, <1>9 DEF ViewStep

-----------------------------------------------------------------------------
(* The invariant.                                                          *)

\* A step of anyone keeps all pages in order.
LEMMA ViewsStep ==
    ASSUME SizesAssumption, IInv, [Next]_vars, SentOnce', TableIsQueued',
           TopsAreExact' /\ DOMAIN tops' \subseteq Names /\ tops' \in [DOMAIN tops' -> Nat]
    PROVE  TypeOK' /\ \A v \in Viewers : ViewHolds(views[v])'
<1>0. TypeOK /\ OneThreadEach /\ TableIsQueued /\ SentOnce
      /\ \A v \in Viewers : ViewHolds(views[v])
    BY DEF IInv
<1>1. views \in [Viewers -> {Away} \cup Pages]
    BY <1>0 DEF TypeOK
<1>2. Grows
    BY <1>0, NextGrows
<1>3. \E f \in [Viewers -> {Away} \cup Pages] :
          views' = f /\ \A v \in Viewers : ViewHolds(f[v])
    <2> DEFINE P == \E f \in [Viewers -> {Away} \cup Pages] :
                       views' = f /\ \A v \in Viewers : ViewHolds(f[v])
    <2>1. ASSUME views' = views PROVE P
        BY <1>0, <1>1, <2>1
    <2>2. ASSUME NEW v \in Viewers, ViewStep(v) PROVE P
        <3>1. PICK x \in {Away} \cup Pages : views' = [views EXCEPT ![v] = x] /\ ViewHolds(x)
            BY <2>2, BrowserHolds
        <3>2. PICK f : f = [views EXCEPT ![v] = x]
            OBVIOUS
        <3>3. f \in [Viewers -> {Away} \cup Pages]
            BY <1>1, <3>2
        <3>4. \A u \in Viewers : f[u] = x \/ f[u] = views[u]
            BY <1>1, <3>2
        <3>5. \A u \in Viewers : ViewHolds(f[u])
            BY <1>0, <3>1, <3>4
        <3> QED BY <3>1, <3>2, <3>3, <3>5
    <2>3. UNCHANGED vars => views' = views
        BY DEF vars
    <2>4. \A t \in Threads :
            /\ \A name \in Names, outcome \in Outcomes : Answer(t, name, outcome) => views' = views
            /\ \A c \in Counters : Increment(t, c) => views' = views
            /\ RecordName(t) \/ Enqueue(t) \/ Publish(t) => views' = views
        BY DEF Answer, Increment, RecordName, Enqueue, Publish
    <2>5. \A n \in 1..MaxEvents : Write(n) => views' = views
        BY DEF Write
    <2>6. \A newest \in Range(rows) : Purge(newest) => views' = views
        BY DEF Purge
    <2> HIDE DEF P
    <2>7. P
        BY ONLY [Next]_vars, NextCases, <2>1, <2>2, <2>3, <2>4, <2>5, <2>6
    <2> QED BY <2>7 DEF P
<1>4. PICK f \in [Viewers -> {Away} \cup Pages] : views' = f /\ \A v \in Viewers : ViewHolds(f[v])
    BY <1>3
<1>5. TypeOK'
    <2>1. /\ count' \in [Counters -> Nat]
          /\ recs' \in [Threads -> Records]
          /\ channel' \in Seq(Nat) /\ sent' \in Seq(Nat) /\ queued' \in Seq(Nat)
          /\ lastRow' \in Nat
          /\ events' \in Seq([name : Names, outcome : Outcomes])
        BY ONLY <1>0, [Next]_vars, SharedType
    <2> QED BY <1>4, <2>1 DEF TypeOK
<1>6. ASSUME NEW v \in Viewers PROVE ViewHolds(views[v])'
    <2>1. PICK w \in {Away} \cup Pages : w = f[v] /\ ViewHolds(w)
        BY <1>4
    <2>2. ViewHolds(w)'
        BY ONLY <1>0, <1>2, <1>5, SentOnce', TableIsQueued', w \in {Away} \cup Pages, <2>1, ViewKept
    <2>3. views'[v] = w
        BY <1>4, <2>1
    <2> QED BY <2>2, <2>3
<1> QED BY <1>5, <1>6

\* It holds at the start, before the first query and the first page.
LEMMA InitHolds == SizesAssumption /\ Init => IInv
<1> SUFFICES ASSUME SizesAssumption, Init PROVE IInv
    OBVIOUS
<1>1. /\ count = [c \in Counters |-> 0] /\ tops = <<>> /\ recs = [t \in Threads |-> Idle]
      /\ channel = <<>> /\ rows = <<>> /\ lastRow = 0 /\ sent = <<>> /\ queued = <<>>
      /\ events = <<>> /\ views = [v \in Viewers |-> Away]
    BY DEF Init
<1>2. \A S : <<>> \in Seq(S) /\ <<>> \in [{} -> S]
    OBVIOUS
<1>3. DOMAIN <<>> = {} /\ Len(<<>>) = 0
    OBVIOUS
<1>4. TypeOK
    <2>1. count \in [Counters -> Nat] /\ lastRow \in Nat
        BY <1>1
    <2>2. recs \in [Threads -> Records] /\ views \in [Viewers -> {Away} \cup Pages]
        BY <1>1 DEF Records
    <2>3. DOMAIN tops \subseteq Names /\ tops \in [DOMAIN tops -> Nat]
        BY <1>1, <1>2, <1>3
    <2>4. /\ channel \in Seq(Nat) /\ sent \in Seq(Nat) /\ queued \in Seq(Nat)
          /\ events \in Seq([name : Names, outcome : Outcomes])
        BY <1>1, <1>2
    <2> QED BY <2>1, <2>2, <2>3, <2>4 DEF TypeOK
<1>5. Events = {} /\ \A t \in Threads : recs[t].pc \notin Recording
    BY <1>1, <1>3 DEF Events, Idle, Recording
<1>6. OneThreadEach /\ QueuedOnce /\ SentOnce /\ SentOrRecorded
    BY <1>1, <1>3, <1>5 DEF OneThreadEach, QueuedOnce, SentOnce, SentOrRecorded, IsInjective
<1>7. TableIsQueued
    BY <1>1, <1>3 DEF TableIsQueued
<1>8. \A c : Done(c) = {} /\ Named(c) = {}
    BY <1>5 DEF Done, Named
<1>9. CountsAreExact
    BY <1>1, <1>8, FS_EmptySet DEF CountsAreExact
<1>10. TopsAreExact
    <2>1. 0 <= MaxTracked
        BY DEF SizesAssumption
    <2> QED BY <1>1, <1>3, <1>8, <2>1, FS_EmptySet DEF TopsAreExact
<1>11. \A v \in Viewers : ViewHolds(views[v])
    BY <1>1 DEF ViewHolds
<1> QED BY <1>4, <1>6, <1>7, <1>9, <1>10, <1>11 DEF IInv

\* Every step of a thread, the writer, the purge or a browser keeps it.
LEMMA NextHolds == SizesAssumption /\ IInv /\ [Next]_vars => IInv'
<1> SUFFICES ASSUME SizesAssumption, IInv, [Next]_vars PROVE IInv'
    OBVIOUS
<1>1. TypeOK /\ OneThreadEach /\ QueuedOnce /\ SentOnce /\ SentOrRecorded /\ TableIsQueued
      /\ CountsAreExact /\ TopsAreExact
    BY DEF IInv
<1>2. OneThreadEach' /\ QueuedOnce' /\ SentOnce' /\ SentOrRecorded' /\ TableIsQueued'
    BY ONLY <1>1, [Next]_vars, OneThreadStep, QueuedStep, SentStep, SentOrStep, TableStep
<1>3. CountsAreExact'
    BY ONLY <1>1, [Next]_vars, CountsStep
<1>4. TopsAreExact' /\ DOMAIN tops' \subseteq Names /\ tops' \in [DOMAIN tops' -> Nat]
    BY ONLY SizesAssumption, <1>1, [Next]_vars, TopsStep
<1>5. TypeOK' /\ \A v \in Viewers : ViewHolds(views[v])'
    BY ONLY SizesAssumption, IInv, [Next]_vars, <1>2, <1>4, ViewsStep
<1> QED BY ONLY <1>2, <1>3, <1>4, <1>5 DEF IInv

-----------------------------------------------------------------------------
(* The theorems.                                                           *)

\* The inductive invariant holds in every reachable state: the threads of record, the
\* table, the counters and every page.
THEOREM Invariance == Spec => []IInv
BY SizesAssumption, InitHolds, NextHolds, PTL DEF Spec

\* In a sequence without repetitions an element has one position.
LEMMA PositionIs ==
    ASSUME NEW s, IsInjective(s), NEW p \in DOMAIN s
    PROVE  Position(s, s[p]) = p
<1>1. \E i \in DOMAIN s : s[i] = s[p]
    OBVIOUS
<1>2. Position(s, s[p]) \in DOMAIN s /\ s[Position(s, s[p])] = s[p]
    BY <1>1 DEF Position
<1> QED BY <1>2 DEF IsInjective

\* A page that is not away, and what the invariant says of it.
LEMMA PageOf ==
    ASSUME IInv, NEW v \in Viewers, views[v] # Away
    PROVE  /\ views[v] \in Pages /\ StreamInOrder(views[v]) /\ FiguresFollow(views[v])
           /\ HistoryFollows(views[v]) /\ SeamHolds(views[v])
BY DEF IInv, TypeOK, ViewHolds

\* When no query is being recorded, all that was counted has been broadcast.
LEMMA AllPassed ==
    ASSUME IInv, recs = [t \in Threads |-> Idle], NEW c \in Counters
    PROVE  Passed(c, Len(sent)) = Done(c)
<1>1. \A t \in Threads : recs[t].pc \notin Recording
    BY DEF Idle, Recording
<1>2. DOMAIN sent = 1..Len(sent)
    BY DEF IInv, TypeOK
<1>3. \A e \in Events : \E p \in 1..Len(sent) : sent[p] = e
    BY <1>1, <1>2 DEF IInv, SentOrRecorded
<1> QED BY <1>1, <1>3 DEF Passed, Done

\* The figures on show cover the rows on show, after any lag, and in the end are the
\* counters (TelemetrySink::record, Stats::snapshot, events of web/live_log.rs).
THEOREM FiguresAreCovered == Spec => []FiguresCoverRows
<1>1. IInv => FiguresCoverRows
    <2> SUFFICES ASSUME IInv, NEW v \in Viewers, views[v].pc = "wait"
                 PROVE  /\ \A c \in Counters :
                              views[v].shown[c] >= Cardinality(LiveRows(v, c))
                        /\ \A n \in Names :
                              IF n \in DOMAIN tops THEN tops[n] >= Cardinality(NameRows(v, n))
                              ELSE NameRows(v, n) = {} \/ Cardinality(DOMAIN tops) = MaxTracked
                        /\ views[v].next = Len(sent) /\ recs = [t \in Threads |-> Idle]
                              => views[v].shown = count
        BY DEF FiguresCoverRows
    <2>0. TypeOK /\ SentOnce /\ CountsAreExact /\ TopsAreExact
        BY DEF IInv
    <2>1. views[v] # Away
        BY DEF Away
    <2>2. PICK w \in Pages : w = views[v] /\ w.pc = "wait" /\ StreamInOrder(w) /\ FiguresFollow(w)
        BY <2>1, PageOf
    <2>3. \A c \in Counters : LiveRows(v, c) = RowsOf(w.live, c)
        BY <2>2 DEF LiveRows, RowsOf
    <2>4. \A c \in Counters :
              /\ w.shown[c] <= count[c] /\ w.shown[c] >= Cardinality(RowsOf(w.live, c))
              /\ w.next < Len(sent) \/ w.shown[c] >= Cardinality(Passed(c, w.next))
        BY <2>2 DEF FiguresFollow
    <2>5. ASSUME NEW n \in Names
          PROVE  IF n \in DOMAIN tops THEN tops[n] >= Cardinality(NameRows(v, n))
                 ELSE NameRows(v, n) = {} \/ Cardinality(DOMAIN tops) = MaxTracked
        <3>1. \A k \in NameRows(v, n) : w.live[k] \in Named(n)
            <4> SUFFICES ASSUME NEW k \in NameRows(v, n) PROVE w.live[k] \in Named(n)
                OBVIOUS
            <4>1. k \in DOMAIN w.live /\ events[w.live[k]].name = n
                BY <2>2 DEF NameRows
            <4>2. PICK p \in DOMAIN sent : sent[p] = w.live[k]
                BY <2>0, <2>2, <4>1, LiveRowsDiffer
            <4>3. sent[p] \in Events /\ \A t \in Threads : recs[t].pc \in Recording
                                                             => recs[t].event # sent[p]
                BY <2>0 DEF SentOnce
            <4> QED BY <4>1, <4>2, <4>3 DEF Named, Recording
        <3>2. \A j, k \in NameRows(v, n) : w.live[j] = w.live[k] => j = k
            BY <2>0, <2>2, LiveRowsDiffer DEF NameRows
        <3>3. Named(n) \in SUBSET Events
            BY DEF Named
        <3>4. IsFiniteSet(Named(n)) /\ Cardinality(Named(n)) \in Nat
            BY <2>0, <3>3, EventsFinite
        <3>5. Cardinality(NameRows(v, n)) <= Cardinality(Named(n))
              /\ Cardinality(NameRows(v, n)) \in Nat
            BY ONLY <3>1, <3>2, <3>4, RowsFit
        <3>6. CASE n \in DOMAIN tops
            <4>1. tops[n] = Cardinality(Named(n))
                BY <2>0, <3>6 DEF TopsAreExact
            <4>2. tops[n] >= Cardinality(NameRows(v, n))
                BY ONLY <3>4, <3>5, <4>1
            <4> QED BY <3>6, <4>2
        <3>7. CASE n \notin DOMAIN tops
            <4>1. Named(n) = {} \/ Cardinality(DOMAIN tops) = MaxTracked
                BY <2>0, <3>7 DEF TopsAreExact
            <4> QED BY <3>1, <3>7, <4>1
        <3> QED BY <3>6, <3>7
    <2>6. ASSUME w.next = Len(sent), recs = [t \in Threads |-> Idle] PROVE w.shown = count
        <3>1. count \in [Counters -> Nat] /\ w.shown \in [Counters -> Nat] /\ Len(sent) \in Nat
            BY <2>0 DEF TypeOK, Pages
        <3>2. ASSUME NEW c \in Counters PROVE w.shown[c] = count[c]
            <4>1. count[c] = Cardinality(Done(c))
                BY <2>0 DEF CountsAreExact
            <4>2. Done(c) = Passed(c, w.next)
                BY <2>6, AllPassed
            <4>3. w.shown[c] >= count[c]
                BY <2>4, <2>6, <3>1, <4>1, <4>2
            <4>4. w.shown[c] <= count[c]
                BY <2>4
            <4> QED BY <3>1, <4>3, <4>4
        <3> QED BY <3>1, <3>2
    <2> QED BY <2>2, <2>3, <2>4, <2>5, <2>6
<1> QED BY <1>1, Invariance, PTL

\* The history of a page is in the order of the queue, without a row twice and without a
\* gap (SqliteQueryLogRepo::page, query_log_older).
THEOREM HistoryWhole == Spec => []HistoryIsWhole
<1>1. IInv => HistoryIsWhole
    <2> SUFFICES ASSUME IInv, NEW v \in Viewers, views[v] # Away, NEW h, h = views[v].history
                 PROVE  /\ \A j, k \in DOMAIN h : j < k =>
                              Position(queued, h[j].event) > Position(queued, h[k].event)
                        /\ \A i \in DOMAIN rows :
                              h # <<>> /\ h[Len(h)].id <= i /\ i <= h[1].id =>
                                  \E k \in DOMAIN h : h[k].event = rows[i]
        BY DEF HistoryIsWhole
    <2>0. TypeOK /\ QueuedOnce /\ TableIsQueued
        BY DEF IInv
    <2>1. /\ \A k \in DOMAIN h : h[k].id \in 1..lastRow /\ h[k].event = queued[h[k].id]
          /\ \A j, k \in DOMAIN h : j < k => h[j].id > h[k].id
          /\ \A i \in DOMAIN rows :
                h # <<>> /\ h[Len(h)].id <= i /\ i <= h[1].id => \E k \in DOMAIN h : h[k].id = i
        BY PageOf DEF HistoryFollows
    <2>2. \A i \in 1..lastRow : i \in DOMAIN queued
        <3>1. lastRow \in Nat /\ Len(channel) \in Nat /\ DOMAIN queued = 1..Len(queued)
            BY <2>0 DEF TypeOK
        <3> QED BY <2>0, <3>1 DEF TableIsQueued
    <2>3. \A k \in DOMAIN h : Position(queued, h[k].event) = h[k].id
        BY <2>0, <2>1, <2>2, PositionIs DEF QueuedOnce
    <2>4. \A i \in DOMAIN rows : rows[i] = queued[i]
        BY <2>0 DEF TableIsQueued
    <2> QED BY <2>1, <2>3, <2>4
<1> QED BY <1>1, Invariance, PTL

\* A query is on a page twice only if it was in the table before it was broadcast, and the
\* live rows come in order and never twice (LiveLog::subscribe, query_log, events).
THEOREM NothingComesTwice == Spec => []NothingTwice
<1>1. IInv => NothingTwice
    <2> SUFFICES ASSUME IInv, NEW v \in Viewers, views[v] # Away, NEW w, w = views[v]
                 PROVE  /\ {w.history[k].event : k \in DOMAIN w.history} \cap Range(w.live)
                              \subseteq w.straddle
                        /\ \A j, k \in DOMAIN w.live :
                              j < k => Position(sent, w.live[j]) < Position(sent, w.live[k])
        BY DEF NothingTwice
    <2>0. TypeOK /\ SentOnce
        BY DEF IInv
    <2>1. w \in Pages /\ StreamInOrder(w) /\ SeamHolds(w)
        BY PageOf
    <2>2. \A k \in DOMAIN w.live : \E p \in DOMAIN sent : sent[p] = w.live[k]
        BY <2>0, <2>1, LiveRowsDiffer
    <2>3. ASSUME NEW a \in DOMAIN w.history, NEW k \in DOMAIN w.live,
                 w.history[a].event = w.live[k]
          PROVE  w.live[k] \in w.straddle
        <3> SUFFICES ASSUME w.live[k] \notin w.straddle PROVE FALSE
            OBVIOUS
        <3>1. w.live[k] \in Old(w)
            BY <2>3 DEF Old
        <3>2. PICK p \in DOMAIN sent :
                  /\ sent[p] = w.live[k]
                  /\ \A j \in DOMAIN w.live, q \in DOMAIN sent : sent[q] = w.live[j] => p < q
            BY <2>1, <3>1 DEF SeamHolds
        <3>3. p < p /\ p \in Nat
            BY <2>0, <3>2 DEF TypeOK
        <3> QED BY <3>3
    <2>4. ASSUME NEW j \in DOMAIN w.live, NEW k \in DOMAIN w.live, j < k
          PROVE  Position(sent, w.live[j]) < Position(sent, w.live[k])
        <3>1. PICK p \in DOMAIN sent : sent[p] = w.live[j]
            BY <2>2
        <3>2. PICK q \in DOMAIN sent : sent[q] = w.live[k]
            BY <2>2
        <3>3. Position(sent, w.live[j]) = p /\ Position(sent, w.live[k]) = q
            BY <2>0, <3>1, <3>2, PositionIs DEF SentOnce
        <3> QED BY <2>1, <2>4, <3>1, <3>2, <3>3 DEF StreamInOrder
    <2> QED BY <2>3, <2>4 DEF Range
<1> QED BY <1>1, Invariance, PTL
-----------------------------------------------------------------------------
(* The figures of a stream, from one event to the next.                    *)

\* No figure on show or read is ahead of its counter, and none is read that is behind the
\* one on show.
NotAhead(w) ==
    w # Away => \A c \in Counters :
        /\ w.shown[c] <= count[c]
        /\ c \in DOMAIN w.read => w.shown[c] <= w.read[c] /\ w.read[c] <= count[c]

NoneAhead == \A v \in Viewers : NotAhead(views[v])

\* A page that is there keeps its figures or raises them.
Rises(w, x) == w # Away /\ x # Away => \A c \in Counters : w.shown[c] <= x.shown[c]

\* What a browser sees of the total or of an outcome never goes down while its page is
\* open, though threads count and a snapshot reads without a lock
\* (Stats::record, Stats::snapshot, events of web/live_log.rs).
FiguresNeverFall == [][\A v \in Viewers : Rises(views[v], views'[v])]_vars

\* A page whose figures are left alone.
LEMMA SameFigures ==
    ASSUME NEW w \in Pages, NEW x, x.shown = w.shown, x.read = w.read, NotAhead(w)
    PROVE  NotAhead(x) /\ Rises(w, x)
<1>1. w # Away
    BY DEF Pages, Away
<1>2. w.shown \in [Counters -> Nat]
    BY DEF Pages
<1> QED BY <1>1, <1>2 DEF NotAhead, Rises

\* A counter is read, which is not below what it was when it was read before.
LEMMA LoadRises ==
    ASSUME TypeOK, NEW w \in Pages, NotAhead(w), NEW c \in Counters, c \notin DOMAIN w.read,
           NEW read, read = Put(w.read, c, count[c]),
           NEW x, x = IF DOMAIN read = Counters
                      THEN [w EXCEPT !.pc = IF w.pc = "seed" THEN "page" ELSE "wait",
                                     !.read = <<>>, !.shown = read]
                      ELSE [w EXCEPT !.read = read]
    PROVE  NotAhead(x) /\ Rises(w, x)
<1>1. w # Away
    BY DEF Pages, Away
<1>2. count \in [Counters -> Nat] /\ w.shown \in [Counters -> Nat]
    BY DEF TypeOK, Pages
<1>3. DOMAIN w.read \subseteq Counters
    BY DEF Pages
<1>4. /\ DOMAIN read = DOMAIN w.read \cup {c} /\ read[c] = count[c]
      /\ \A d \in DOMAIN w.read : read[d] = w.read[d]
    BY DEF Put
<1>5. \A d \in Counters : w.shown[d] <= count[d]
    BY <1>1 DEF NotAhead
<1>6. \A d \in DOMAIN read : w.shown[d] <= read[d] /\ read[d] <= count[d]
    <2> SUFFICES ASSUME NEW d \in DOMAIN read PROVE w.shown[d] <= read[d] /\ read[d] <= count[d]
        OBVIOUS
    <2>1. CASE d = c
        BY <1>2, <1>4, <1>5, <2>1
    <2>2. CASE d \in DOMAIN w.read
        BY <1>1, <1>3, <1>4, <2>2 DEF NotAhead
    <2> QED BY <1>4, <2>1, <2>2
<1>7. CASE DOMAIN read = Counters
    <2>1. x.shown = read /\ DOMAIN x.read = {}
        BY <1>7, NothingRead DEF Pages
    <2> QED BY <1>6, <1>7, <2>1 DEF NotAhead, Rises
<1>8. CASE DOMAIN read # Counters
    <2>1. x.shown = w.shown /\ x.read = read
        BY <1>8 DEF Pages
    <2> QED BY <1>2, <1>5, <1>6, <2>1 DEF NotAhead, Rises
<1> QED BY <1>7, <1>8

\* A page begins with nothing on show.
LEMMA OpenRises ==
    ASSUME TypeOK, NEW pc, NEW order
    PROVE  NotAhead(View(pc, order)) /\ Rises(Away, View(pc, order))
<1>1. View(pc, order).shown = [c \in Counters |-> 0] /\ View(pc, order).read = <<>>
    BY DEF View
<1>2. \A c \in Counters : count[c] \in Nat
    BY DEF TypeOK
<1> QED BY <1>1, <1>2, NothingRead DEF NotAhead, Rises

\* What a browser's own steps do to its figures.
LEMMA BrowserRises ==
    ASSUME TypeOK, NEW v \in Viewers, ViewStep(v), NotAhead(views[v])
    PROVE  \E x : views' = [views EXCEPT ![v] = x] /\ NotAhead(x) /\ Rises(views[v], x)
<1>1. views \in [Viewers -> {Away} \cup Pages] /\ Len(sent) \in Nat /\ Away.pc = "away"
    BY DEF TypeOK, Away
<1>2. PICK w \in {Away} \cup Pages : w = views[v] /\ NotAhead(w)
    BY <1>1
<1>3. CASE Open(v) \/ OpenDashboard(v)
    <2>1. views[v] = Away
        BY <1>3 DEF Open, OpenDashboard
    <2>2. \E pc, order : views' = [views EXCEPT ![v] = View(pc, order)]
        BY <1>3 DEF Open, OpenDashboard
    <2> QED BY <2>1, <2>2, OpenRises
<1>4. CASE Subscribe(v)
    <2>1. w \in Pages
        BY <1>1, <1>2, <1>4 DEF Subscribe
    <2> DEFINE x == [w EXCEPT !.pc = "counters", !.next = Len(sent)]
    <2>2. views' = [views EXCEPT ![v] = x]
        BY <1>1, <1>2, <1>4 DEF Subscribe, Subscribed
    <2>3. x.shown = w.shown /\ x.read = w.read
        BY <2>1 DEF Pages
    <2>4. NotAhead(x) /\ Rises(w, x)
        BY ONLY <1>2, <2>1, <2>3, SameFigures
    <2> QED BY <1>2, <2>2, <2>4
<1>5. CASE Receive(v)
    <2>1. w \in Pages
        BY <1>1, <1>2, <1>5 DEF Receive
    <2> DEFINE x == IF Len(sent) - w.next > Capacity
                    THEN [w EXCEPT !.next = Len(sent) - Capacity]
                    ELSE [w EXCEPT !.pc = "counters", !.next = @ + 1,
                                   !.live = Append(@, sent[w.next + 1])]
    <2>2. views' = [views EXCEPT ![v] = x]
        BY <1>2, <1>5 DEF Receive
    <2>3. x.shown = w.shown /\ x.read = w.read
        BY <2>1 DEF Pages
    <2>4. NotAhead(x) /\ Rises(w, x)
        BY ONLY <1>2, <2>1, <2>3, SameFigures
    <2> QED BY <1>2, <2>2, <2>4
<1>6. CASE Older(v)
    <2>1. w \in Pages
        BY <1>1, <1>2, <1>6 DEF Older
    <2>2. PICK order \in NewestFirst(PageIds(w.cursor)) :
              views' = [views EXCEPT ![v].history = @ \o Shows(order), ![v].cursor = Oldest(order)]
        BY <1>2, <1>6 DEF Older
    <2> DEFINE x == [w EXCEPT !.history = @ \o Shows(order), !.cursor = Oldest(order)]
    <2>3. views' = [views EXCEPT ![v] = x]
        BY <1>1, <1>2, <2>2
    <2>4. x.shown = w.shown /\ x.read = w.read
        BY <2>1 DEF Pages
    <2>5. NotAhead(x) /\ Rises(w, x)
        BY ONLY <1>2, <2>1, <2>4, SameFigures
    <2> QED BY <1>2, <2>3, <2>5
<1>7. CASE Close(v)
    BY <1>7 DEF Close, NotAhead, Rises
<1>8. ASSUME NEW c \in Counters, Load(v, c)
      PROVE  \E x : views' = [views EXCEPT ![v] = x] /\ NotAhead(x) /\ Rises(views[v], x)
    <2>1. w \in Pages /\ c \notin DOMAIN w.read
        BY <1>1, <1>2, <1>8 DEF Load
    <2> DEFINE read == Put(w.read, c, count[c])
               x == IF DOMAIN read = Counters
                    THEN [w EXCEPT !.pc = IF w.pc = "seed" THEN "page" ELSE "wait",
                                   !.read = <<>>, !.shown = read]
                    ELSE [w EXCEPT !.read = read]
    <2>2. views' = [views EXCEPT ![v] = x]
        BY <1>2, <1>8 DEF Load
    <2>3. NotAhead(x) /\ Rises(w, x)
        BY ONLY TypeOK, <1>2, <2>1, c \in Counters, LoadRises
    <2> QED BY <1>2, <2>2, <2>3
<1> QED BY <1>3, <1>4, <1>5, <1>6, <1>7, <1>8 DEF ViewStep

\* Counters only go up, so that a page which does nothing is not overtaken by them.
LEMMA KeepsNotAhead ==
    ASSUME TypeOK, TypeOK', \A c \in Counters : count[c] <= count'[c],
           NEW w \in {Away} \cup Pages, NotAhead(w)
    PROVE  NotAhead(w)'
<1>1. CASE w = Away
    BY <1>1 DEF NotAhead
<1>2. CASE w \in Pages
    <2>1. w.shown \in [Counters -> Nat] /\ \A c \in DOMAIN w.read : w.read[c] \in Nat
        BY <1>2 DEF Pages
    <2>2. \A c \in Counters : count[c] \in Nat /\ count'[c] \in Nat
        BY DEF TypeOK
    <2> QED BY <2>1, <2>2 DEF NotAhead
<1> QED BY <1>1, <1>2

\* A step of anyone.
LEMMA FiguresStep ==
    ASSUME IInv, IInv', NoneAhead, [Next]_vars
    PROVE  NoneAhead' /\ \A v \in Viewers : Rises(views[v], views'[v])
<1>0. TypeOK /\ TypeOK' /\ OneThreadEach /\ TableIsQueued
    BY DEF IInv
<1>1. /\ views \in [Viewers -> {Away} \cup Pages] /\ views' \in [Viewers -> {Away} \cup Pages]
    BY <1>0 DEF TypeOK
<1>2. \A c \in Counters : count[c] <= count'[c]
    BY <1>0, NextGrows DEF Grows
<1>3. \A u \in Viewers : NotAhead(views[u]) /\ Rises(views[u], views[u])
    <2> SUFFICES ASSUME NEW u \in Viewers PROVE NotAhead(views[u]) /\ Rises(views[u], views[u])
        OBVIOUS
    <2>1. PICK w \in {Away} \cup Pages : w = views[u] /\ NotAhead(w)
        BY <1>1 DEF NoneAhead
    <2>2. Rises(w, w)
        BY SameFigures, <2>1 DEF Rises
    <2> QED BY <2>1, <2>2
<1> DEFINE P == \E f \in [Viewers -> {Away} \cup Pages] :
                   views' = f /\ \A u \in Viewers : NotAhead(f[u]) /\ Rises(views[u], f[u])
<1>4. ASSUME views' = views PROVE P
    BY <1>1, <1>3, <1>4
<1>5. ASSUME NEW v \in Viewers, ViewStep(v) PROVE P
    <2>1. PICK x : views' = [views EXCEPT ![v] = x] /\ NotAhead(x) /\ Rises(views[v], x)
        BY <1>0, <1>3, <1>5, BrowserRises
    <2>2. PICK f \in [Viewers -> {Away} \cup Pages] : f = views'
        BY <1>1
    <2>3. f[v] = x /\ \A u \in Viewers \ {v} : f[u] = views[u]
        BY <1>1, <2>1, <2>2
    <2>4. \A u \in Viewers : NotAhead(f[u]) /\ Rises(views[u], f[u])
        BY <1>3, <2>1, <2>3
    <2> QED BY <2>2, <2>4
<1>6. UNCHANGED vars => views' = views
    BY DEF vars
<1>7. \A t \in Threads :
        /\ \A name \in Names, outcome \in Outcomes : Answer(t, name, outcome) => views' = views
        /\ \A c \in Counters : Increment(t, c) => views' = views
        /\ RecordName(t) \/ Enqueue(t) \/ Publish(t) => views' = views
    BY DEF Answer, Increment, RecordName, Enqueue, Publish
<1>8. /\ \A n \in 1..MaxEvents : Write(n) => views' = views
      /\ \A newest \in Range(rows) : Purge(newest) => views' = views
    BY DEF Write, Purge
<1>9. P
    <2> HIDE DEF P
    <2> QED BY ONLY [Next]_vars, NextCases, <1>4, <1>5, <1>6, <1>7, <1>8
<1>10. PICK f \in [Viewers -> {Away} \cup Pages] :
           views' = f /\ \A u \in Viewers : NotAhead(f[u]) /\ Rises(views[u], f[u])
    BY <1>9
<1>11. ASSUME NEW u \in Viewers PROVE NotAhead(views[u])'
    <2>1. PICK w \in {Away} \cup Pages : w = f[u] /\ NotAhead(w)
        BY <1>10
    <2>2. NotAhead(w)'
        BY ONLY <1>0, <1>2, <2>1, w \in {Away} \cup Pages, KeepsNotAhead
    <2>3. views'[u] = w
        BY <1>10, <2>1
    <2> QED BY <2>2, <2>3
<1> QED BY <1>10, <1>11 DEF NoneAhead

\* The figures a browser sees never fall while its page is open.
THEOREM FiguresRise == Spec => FiguresNeverFall
<1>1. Init => NoneAhead
    BY DEF Init, NoneAhead, NotAhead
<1>2. IInv /\ IInv' /\ NoneAhead /\ [Next]_vars => NoneAhead'
    BY FiguresStep
<1>3. IInv /\ IInv' /\ NoneAhead /\ [Next]_vars
        => [\A v \in Viewers : Rises(views[v], views'[v])]_vars
    BY FiguresStep
<1> QED BY <1>1, <1>2, <1>3, Invariance, PTL DEF Spec, FiguresNeverFall

\* Nothing that was recorded is rewritten: a counter never falls, the broadcast keeps its
\* order, an id keeps its event and is not handed out again after a purge or a clear
\* (AUTOINCREMENT), which is what a page's cursor relies on.
THEOREM NothingIsRewritten == Spec => [][Grows]_vars
<1>1. IInv /\ [Next]_vars => [Grows]_vars
    BY NextGrows DEF IInv
<1> QED BY <1>1, Invariance, PTL DEF Spec

\* Every variable keeps its type.
THEOREM Typing == Spec => []TypeOK
<1>1. IInv => TypeOK
    BY DEF IInv
<1> QED BY <1>1, Invariance, PTL
=============================================================================
