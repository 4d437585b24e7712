-------------------------- MODULE QueryLog_proofs --------------------------
(***************************************************************************)
(* Proofs about QueryLog: what is missing from the log is counted, what    *)
(* was buffered at the stop is written, and what was purged does not come  *)
(* back, for any number of sockets, connections, messages and upsets, and  *)
(* any capacities of the channel, the batches and the purge.               *)
(***************************************************************************)
EXTENDS QueryLog, FiniteSetTheorems, SequenceTheorems, TLAPS

-----------------------------------------------------------------------------
(* The inductive invariant.                                                *)

\* What is buffered, oldest first.
Pipe == batch \o channel
Piped == Ids(ToSet(Pipe))

\* What is in the table, was, or was lost with its batch.
Saved == Ids(rows) \cup gone \cup lost

\* The writer begins when all subsystems run and leaves its loop when the token is
\* cancelled; it holds events in between its receives and its flushes only.
WriterInPhase ==
    /\ ~cancelled => pending = {} /\ wpc \in {"wait", "coalesce", "flush"}
    /\ app \in Starting \cup {"failed"} => ~cancelled /\ wpc = "wait"
    /\ wpc \in {"wait", "drain", "exit"} => batch = <<>>

\* An event has an id of its own, which no later event has had.
OneIdEach ==
    /\ \A i, j \in 1..Len(Pipe) : Pipe[i].id = Pipe[j].id => i = j
    /\ \A d, e \in rows : d.id = e.id => d = e
    /\ IsFiniteSet(rows)
    /\ Piped \cap Saved = {}
    /\ Ids(rows) \cap gone = {}
    /\ Piped \cup Saved \subseteq 0..Left + total

\* What is under way is from this day or the last one, which no purge has reached.
UnderWayIsRecent ==
    /\ retention \in Retentions
    /\ cutoff < day /\ purged < day
    /\ \A t \in Tasks : task[t] = "service" => since[t] <= day /\ day <= since[t] + 1
    /\ \A i \in 1..Len(Pipe) : Pipe[i].ts <= day /\ day <= Pipe[i].ts + 1

\* Where the events are that were buffered when the token was cancelled.
TailIsOnItsWay ==
    app # "forced" =>
        /\ pending \subseteq Piped \cup Saved
        /\ wpc = "lastFlush" => pending \subseteq Ids(ToSet(batch)) \cup Saved
        /\ wpc = "exit" => pending \subseteq Saved

IInv ==
    /\ TypeOK
    /\ WriterInPhase
    /\ OneIdEach
    /\ UnderWayIsRecent
    /\ TailIsOnItsWay
    /\ RetentionHolds
    /\ LossesAreCounted

-----------------------------------------------------------------------------
(* Sequences of events.                                                    *)

\* The ids in a sequence of events.
LEMMA SeqIds ==
    ASSUME NEW s \in Seq(Event)
    PROVE  /\ Len(s) \in Nat
           /\ \A i \in 1..Len(s) : s[i] \in Event
           /\ ToSet(s) = {s[i] : i \in 1..Len(s)}
           /\ ToSet(s) \subseteq Event
           /\ Ids(ToSet(s)) = {s[i].id : i \in 1..Len(s)}
<1>1. Len(s) \in Nat /\ s \in [1..Len(s) -> Event] /\ DOMAIN s = 1..Len(s)
    BY LenProperties
<1>2. ToSet(s) = {s[i] : i \in 1..Len(s)}
    BY <1>1 DEF ToSet
<1> QED BY <1>1, <1>2 DEF Ids

\* Without an id twice, there are as many as the sequence is long.
LEMMA DistinctSeq ==
    ASSUME NEW s \in Seq(Event),
           \A i, j \in 1..Len(s) : s[i].id = s[j].id => i = j
    PROVE  /\ IsFiniteSet(ToSet(s)) /\ Cardinality(ToSet(s)) = Len(s)
           /\ IsFiniteSet(Ids(ToSet(s))) /\ Cardinality(Ids(ToSet(s))) = Len(s)
<1>1. Len(s) \in Nat /\ IsFiniteSet(1..Len(s)) /\ Cardinality(1..Len(s)) = Len(s)
    BY SeqIds, FS_Interval
<1>2. s \in Bijection(1..Len(s), ToSet(s))
    <2>1. s \in [1..Len(s) -> ToSet(s)]
        BY SeqIds, LenProperties
    <2>2. \A i, j \in 1..Len(s) : s[i] = s[j] => i = j
        OBVIOUS
    <2>3. \A e \in ToSet(s) : \E i \in 1..Len(s) : s[i] = e
        BY SeqIds
    <2> QED BY <2>1, <2>2, <2>3 DEF Bijection, Injection, Surjection, IsInjective
<1>3. IsFiniteSet(ToSet(s)) /\ Cardinality(ToSet(s)) = Len(s)
    BY <1>1, <1>2, FS_Bijection DEF ExistsBijection
<1>4. PICK f : f = [i \in 1..Len(s) |-> s[i].id]
    OBVIOUS
<1>5. f \in Bijection(1..Len(s), Ids(ToSet(s)))
    <2>1. f \in [1..Len(s) -> Ids(ToSet(s))]
        BY <1>4, SeqIds
    <2>2. \A i, j \in 1..Len(s) : f[i] = f[j] => i = j
        BY <1>4
    <2>3. \A e \in Ids(ToSet(s)) : \E i \in 1..Len(s) : f[i] = e
        BY <1>4, SeqIds
    <2> QED BY <2>1, <2>2, <2>3 DEF Bijection, Injection, Surjection, IsInjective
<1>6. IsFiniteSet(Ids(ToSet(s))) /\ Cardinality(Ids(ToSet(s))) = Len(s)
    BY <1>1, <1>5, FS_Bijection DEF ExistsBijection
<1> QED BY <1>3, <1>6

\* So it is for rows.
LEMMA DistinctRows ==
    ASSUME NEW S, S \subseteq Event, IsFiniteSet(S), \A d, e \in S : d.id = e.id => d = e
    PROVE  IsFiniteSet(Ids(S)) /\ Cardinality(Ids(S)) = Cardinality(S)
<1>1. PICK f : f = [e \in S |-> e.id]
    OBVIOUS
<1>2. f \in Bijection(S, Ids(S))
    <2>1. f \in [S -> Ids(S)]
        BY <1>1 DEF Ids
    <2>2. \A d, e \in S : f[d] = f[e] => d = e
        BY <1>1
    <2>3. \A i \in Ids(S) : \E e \in S : f[e] = i
        BY <1>1 DEF Ids
    <2> QED BY <2>1, <2>2, <2>3 DEF Bijection, Injection, Surjection, IsInjective
<1> QED BY <1>2, FS_Bijection DEF ExistsBijection

\* What is common to sets that have nothing in common.
LEMMA DisjointUnion ==
    ASSUME NEW S, NEW T, IsFiniteSet(S), IsFiniteSet(T), S \cap T = {}
    PROVE  IsFiniteSet(S \cup T) /\ Cardinality(S \cup T) = Cardinality(S) + Cardinality(T)
<1>1. Cardinality(S \cap T) = 0
    BY FS_EmptySet
<1> QED BY <1>1, FS_Union, FS_CardinalityType

\* The pipe: the batch, then the channel.
LEMMA PipeParts ==
    ASSUME NEW b \in Seq(Event), NEW c \in Seq(Event), NEW p, p = b \o c
    PROVE  /\ p \in Seq(Event)
           /\ Len(p) = Len(b) + Len(c)
           /\ \A i \in 1..Len(b) : i \in 1..Len(p) /\ p[i] = b[i]
           /\ \A i \in 1..Len(c) : Len(b) + i \in 1..Len(p) /\ p[Len(b) + i] = c[i]
           /\ ToSet(p) = ToSet(b) \cup ToSet(c)
           /\ Ids(ToSet(p)) = Ids(ToSet(b)) \cup Ids(ToSet(c))
<1>1. Len(b) \in Nat /\ Len(c) \in Nat
    BY SeqIds
<1>2. /\ p \in Seq(Event) /\ Len(p) = Len(b) + Len(c)
      /\ \A i \in 1..Len(b) + Len(c) : p[i] = IF i <= Len(b) THEN b[i] ELSE c[i - Len(b)]
    BY ConcatProperties
<1>3. \A i \in 1..Len(b) : i \in 1..Len(p) /\ p[i] = b[i]
    BY <1>1, <1>2
<1>4. \A i \in 1..Len(c) : Len(b) + i \in 1..Len(p) /\ p[Len(b) + i] = c[i]
    <2> TAKE i \in 1..Len(c)
    <2>1. Len(b) + i \in 1..Len(b) + Len(c) /\ ~(Len(b) + i <= Len(b)) /\ Len(b) + i - Len(b) = i
        BY <1>1
    <2> QED BY <1>2, <2>1
<1>0. /\ ToSet(p) = {p[i] : i \in 1..Len(p)} /\ ToSet(b) = {b[i] : i \in 1..Len(b)}
      /\ ToSet(c) = {c[i] : i \in 1..Len(c)}
    BY <1>2, SeqIds
<1>5. ToSet(p) \subseteq ToSet(b) \cup ToSet(c)
    <2> SUFFICES ASSUME NEW i \in 1..Len(p)
                 PROVE  p[i] \in ToSet(b) \cup ToSet(c)
        BY <1>0
    <2>1. CASE i <= Len(b)
        BY <1>1, <1>2, <2>1, SeqIds
    <2>2. CASE ~(i <= Len(b))
        <3>1. i - Len(b) \in 1..Len(c) /\ p[i] = c[i - Len(b)]
            BY <1>1, <1>2, <2>2
        <3> QED BY <3>1, SeqIds
    <2> QED BY <2>1, <2>2
<1>6. ToSet(b) \cup ToSet(c) \subseteq ToSet(p)
    <2>1. \A i \in 1..Len(b) : b[i] \in ToSet(p)
        BY <1>0, <1>3
    <2>2. \A i \in 1..Len(c) : c[i] \in ToSet(p)
        BY <1>0, <1>4
    <2> QED BY <1>0, <2>1, <2>2
<1>7. ToSet(p) = ToSet(b) \cup ToSet(c)
    BY <1>5, <1>6
<1> QED BY <1>2, <1>3, <1>4, <1>7 DEF Ids

LEMMA PipeIds ==
    ASSUME NEW b \in Seq(Event), NEW c \in Seq(Event)
    PROVE  /\ ToSet(b \o c) = ToSet(b) \cup ToSet(c)
           /\ Ids(ToSet(b \o c)) = Ids(ToSet(b)) \cup Ids(ToSet(c))
BY PipeParts

LEMMA Reassociate ==
    ASSUME NEW b \in Seq(Event), NEW u \in Seq(Event), NEW v \in Seq(Event)
    PROVE  (b \o u) \o v = b \o (u \o v)
BY ConcatAssociative

\* recv_many moves events from the channel to the batch, and the pipe stays as it is.
LEMMA ReceivesPipe ==
    ASSUME NEW limit \in Nat, batch \in Seq(Event), channel \in Seq(Event), Receives(limit)
    PROVE  /\ batch' \in Seq(Event) /\ channel' \in Seq(Event)
           /\ batch' \o channel' = batch \o channel
           /\ Len(batch') <= Len(batch) + limit /\ Len(channel') <= Len(channel)
           /\ Len(batch') = Len(batch) + limit \/ channel' = <<>>
<1>1. PICK b, c : b = batch /\ c = channel
    OBVIOUS
<1>2. b \in Seq(Event) /\ c \in Seq(Event) /\ Len(b) \in Nat /\ Len(c) \in Nat
    BY <1>1, SeqIds
<1>3. PICK n \in 0..Len(c) : n = Lesser(limit, Len(c))
    BY <1>2 DEF Lesser
<1>4. PICK u, v : u = SubSeq(c, 1, n) /\ v = SubSeq(c, n + 1, Len(c))
    OBVIOUS
<1>5. batch' = b \o u /\ channel' = v
    BY <1>1, <1>3, <1>4 DEF Receives
<1>6. \A i \in 1..Len(c) : c[i] \in Event
    BY <1>2, SeqIds
<1>7. u \in Seq(Event) /\ Len(u) = n
    <2>1. \A i \in 1..n : c[i] \in Event
        BY <1>2, <1>3, <1>6
    <2> QED BY <1>3, <1>4, <2>1, SubSeqProperties
<1>8. v \in Seq(Event) /\ Len(v) = Len(c) - n
    <2>1. \A i \in n + 1..Len(c) : c[i] \in Event
        BY <1>2, <1>3, <1>6
    <2>2. v \in Seq(Event) /\ Len(v) = IF n + 1 <= Len(c) THEN Len(c) - (n + 1) + 1 ELSE 0
        BY <1>2, <1>3, <1>4, <2>1, SubSeqProperties
    <2> QED BY <1>2, <1>3, <2>2
<1>9. u \o v = c
    <2>1. 1 \in 1..Len(c) + 1 /\ n \in (1 - 1)..Len(c) /\ Len(c) \in n..Len(c)
        BY <1>2, <1>3
    <2>2. SubSeq(c, 1, n) \o SubSeq(c, n + 1, Len(c)) = SubSeq(c, 1, Len(c))
        BY <1>2, <2>1, ConcatAdjacentSubSeq
    <2> QED BY <1>2, <1>4, <2>2, SubSeqFull
<1>10. (b \o u) \o v = b \o c
    <2>1. PICK x \in Seq(Event), y \in Seq(Event), z \in Seq(Event) : x = b /\ y = u /\ z = v
        BY <1>2, <1>7, <1>8
    <2>2. (x \o y) \o z = x \o (y \o z)
        BY Reassociate
    <2> QED BY <1>9, <2>1, <2>2
<1>11. b \o u \in Seq(Event) /\ Len(b \o u) = Len(b) + n
    BY <1>2, <1>7, ConcatProperties
<1>12. n = limit \/ v = <<>>
    <2>1. n = limit \/ Len(v) = 0
        BY <1>2, <1>3, <1>8 DEF Lesser
    <2> QED BY <1>8, <2>1, EmptySeq
<1> QED BY <1>1, <1>2, <1>3, <1>5, <1>8, <1>10, <1>11, <1>12 DEF Lesser

\* An event is appended to the pipe.
LEMMA AppendPipe ==
    ASSUME NEW b \in Seq(Event), NEW c \in Seq(Event), NEW e \in Event,
           NEW d \in Seq(Event), d = Append(c, e),
           NEW p, p = b \o c, NEW q, q = b \o d
    PROVE  /\ q \in Seq(Event) /\ Len(q) = Len(p) + 1 /\ Len(p) \in Nat
           /\ \A i \in 1..Len(p) : q[i] = p[i]
           /\ q[Len(p) + 1] = e
<1>2. /\ Len(d) = Len(c) + 1 /\ d[Len(c) + 1] = e
      /\ \A i \in 1..Len(c) : d[i] = c[i]
    BY AppendProperties
<1>3. Len(b) \in Nat /\ Len(c) \in Nat
    BY SeqIds
<1>4. /\ p \in Seq(Event) /\ Len(p) = Len(b) + Len(c)
      /\ \A i \in 1..Len(b) + Len(c) : p[i] = IF i <= Len(b) THEN b[i] ELSE c[i - Len(b)]
    BY ConcatProperties
<1>5. /\ q \in Seq(Event) /\ Len(q) = Len(b) + Len(d)
      /\ \A i \in 1..Len(b) + Len(d) : q[i] = IF i <= Len(b) THEN b[i] ELSE d[i - Len(b)]
    BY ConcatProperties
<1>6. \A i \in 1..Len(p) : q[i] = p[i]
    <2> TAKE i \in 1..Len(p)
    <2>1. i \in 1..Len(b) + Len(c) /\ i \in 1..Len(b) + Len(d)
        BY <1>2, <1>3, <1>4
    <2>2. CASE i <= Len(b)
        BY <1>4, <1>5, <2>1, <2>2
    <2>3. CASE ~(i <= Len(b))
        <3>1. i - Len(b) \in 1..Len(c)
            BY <1>3, <2>1, <2>3
        <3> QED BY <1>2, <1>4, <1>5, <2>1, <2>3, <3>1
    <2> QED BY <2>2, <2>3
<1>7. q[Len(p) + 1] = e
    <2>1. Len(p) + 1 \in 1..Len(b) + Len(d) /\ ~(Len(p) + 1 <= Len(b)) /\ Len(p) + 1 - Len(b) = Len(c) + 1
        BY <1>2, <1>3, <1>4
    <2> QED BY <1>2, <1>5, <2>1
<1>8. Len(q) = Len(p) + 1 /\ Len(p) \in Nat
    BY <1>2, <1>3, <1>4, <1>5
<1> QED BY <1>5, <1>6, <1>7, <1>8

\* What the invariant says of the pipe, by its parts.
LEMMA PipeFacts ==
    ASSUME IInv
    PROVE  /\ batch \in Seq(Event) /\ channel \in Seq(Event) /\ Pipe \in Seq(Event)
           /\ Len(batch) \in Nat /\ Len(channel) \in Nat /\ Len(Pipe) = Len(batch) + Len(channel)
           /\ Piped = Ids(ToSet(batch)) \cup Ids(ToSet(channel))
BY PipeParts, SeqIds DEF IInv, TypeOK, Pipe, Piped

\* What is saved can be counted.
LEMMA SavedCount ==
    ASSUME IInv
    PROVE  /\ IsFiniteSet(rows) /\ Cardinality(rows) \in Nat
           /\ IsFiniteSet(gone) /\ Cardinality(gone) \in Nat
           /\ IsFiniteSet(lost) /\ Cardinality(lost) \in Nat
<1>1. Left + total \in Nat
    BY ConstantsAssumption DEF IInv, TypeOK
<1>2. IsFiniteSet(0..Left + total)
    BY <1>1, FS_Interval
<1>3. gone \in SUBSET (0..Left + total) /\ lost \in SUBSET (0..Left + total)
    BY DEF IInv, OneIdEach, Saved
<1>4. IsFiniteSet(gone) /\ IsFiniteSet(lost) /\ IsFiniteSet(rows)
    BY <1>2, <1>3, FS_Subset DEF IInv, OneIdEach
<1> QED BY <1>4, FS_CardinalityType

-----------------------------------------------------------------------------
(* The listeners and the sink.                                             *)

TaskStates == {"free", "reading", "service", "reply", "stalled"}

\* The loops and the handlers, up to the service: a query gets the day it comes in.
LEMMA ListenInv ==
    ASSUME IInv, task' \in [Tasks -> TaskStates], since' \in [Tasks -> Nat], messages' \in Nat,
           \A t \in Tasks : task'[t] = "service" =>
               since'[t] = day \/ (task[t] = "service" /\ since'[t] = since[t]),
           UNCHANGED <<app, bound, cancelled, sinkVars, channel, writerVars, purgeVars, rows,
                       gone, settings, day, pending, upsets>>
    PROVE  IInv'
<1> USE DEF IInv, sinkVars, writerVars, purgeVars, settings
<1>1. TypeOK'
    BY DEF TypeOK, TaskStates
<1>2. WriterInPhase'
    BY DEF WriterInPhase
<1>3. OneIdEach'
    BY DEF OneIdEach, Piped, Pipe, Saved
<1>4. UnderWayIsRecent'
    <2>1. day \in Nat
        BY DEF TypeOK
    <2>2. ASSUME NEW t \in Tasks, task'[t] = "service"
          PROVE  since'[t] <= day /\ day <= since'[t] + 1
        <3>1. CASE since'[t] = day
            BY <2>1, <3>1
        <3>2. CASE task[t] = "service" /\ since'[t] = since[t]
            BY <3>2 DEF UnderWayIsRecent
        <3> QED BY <2>2, <3>1, <3>2
    <2> QED BY <2>2 DEF UnderWayIsRecent, Pipe
<1>5. TailIsOnItsWay'
    BY DEF TailIsOnItsWay, Piped, Pipe, Saved
<1>6. RetentionHolds' /\ LossesAreCounted'
    BY DEF RetentionHolds, LossesAreCounted, Accounted
<1> QED BY <1>1, <1>2, <1>3, <1>4, <1>5, <1>6

LEMMA ListenersInv ==
    ASSUME IInv,
           \/ \E u \in UdpHandlers : Receive(u)
           \/ \E c \in Connections : Accept(c) \/ Read(c) \/ Close(c) \/ Write(c) \/ Stall(c)
    PROVE  IInv'
<1>0. TypeOK
    BY DEF IInv
<1>1. ASSUME NEW t \in Tasks, Query(t)
      PROVE  /\ task' \in [Tasks -> TaskStates] /\ since' \in [Tasks -> Nat] /\ messages' \in Nat
             /\ \A x \in Tasks : task'[x] = "service" =>
                   since'[x] = day \/ (task[x] = "service" /\ since'[x] = since[x])
    BY <1>0, <1>1 DEF TypeOK, Query, Goto, TaskStates
<1>2. ASSUME NEW t \in Tasks, NEW to \in TaskStates \ {"service"}, Goto(t, to),
             UNCHANGED <<since, messages>>
      PROVE  /\ task' \in [Tasks -> TaskStates] /\ since' \in [Tasks -> Nat] /\ messages' \in Nat
             /\ \A x \in Tasks : task'[x] = "service" =>
                   since'[x] = day \/ (task[x] = "service" /\ since'[x] = since[x])
    BY <1>0, <1>2 DEF TypeOK, Goto, TaskStates
<1>3. /\ UdpHandlers \subseteq Tasks /\ Connections \subseteq Tasks
      /\ {"free", "reading", "reply", "stalled"} \subseteq TaskStates \ {"service"}
    BY DEF Tasks, TaskStates
<1>4. ASSUME NEW u \in UdpHandlers, Receive(u)
      PROVE  IInv'
    BY <1>1, <1>3, <1>4, ListenInv DEF Receive
<1>5. ASSUME NEW c \in Connections, Accept(c)
      PROVE  IInv'
    BY <1>2, <1>3, <1>5, ListenInv DEF Accept
<1>6. ASSUME NEW c \in Connections, Read(c)
      PROVE  IInv'
    BY <1>1, <1>2, <1>3, <1>6, ListenInv DEF Read
<1>7. ASSUME NEW c \in Connections, Close(c)
      PROVE  IInv'
    BY <1>2, <1>3, <1>7, ListenInv DEF Close
<1>8. ASSUME NEW c \in Connections, Write(c)
      PROVE  IInv'
    BY <1>2, <1>3, <1>8, ListenInv DEF Write
<1>9. ASSUME NEW c \in Connections, Stall(c)
      PROVE  IInv'
    BY <1>2, <1>3, <1>9, ListenInv DEF Stall
<1> QED BY <1>4, <1>5, <1>6, <1>7, <1>8, <1>9

\* TelemetryService::call: the event gets the next id and is buffered, dropped and
\* counted, or not wanted.
LEMMA ServeInv ==
    ASSUME IInv, NEW t \in Tasks, Serve(t)
    PROVE  IInv'
<1> USE DEF IInv, sinkVars, writerVars, purgeVars, settings
<1>2. /\ Left \in Nat /\ total \in Nat /\ since[t] \in Nat
      /\ since[t] <= day /\ day <= since[t] + 1
    BY ConstantsAssumption DEF TypeOK, Serve, UnderWayIsRecent
<1>1. PICK e \in Event : e = [id |-> Left + (total + 1), ts |-> since[t]]
    <2>1. [id |-> Left + (total + 1), ts |-> since[t]] \in Event
        BY <1>2 DEF Event
    <2> QED BY <2>1
<1>3. e \in Event /\ e.id = Left + (total + 1) /\ e.ts = since[t]
    BY <1>1, <1>2 DEF Event
<1>4. total' = total + 1 /\ Enqueue(e)
    BY <1>1 DEF Serve
<1>5. /\ task' \in [Tasks -> TaskStates] /\ since' \in [Tasks -> Nat]
      /\ \A x \in Tasks : task'[x] = "service" => task[x] = "service" /\ since'[x] = since[x]
    BY DEF Serve, Goto, TypeOK, TaskStates
<1>6. UNCHANGED <<app, bound, cancelled, messages, writerVars, purgeVars, rows,
                  gone, settings, day, pending, upsets>>
    BY DEF Serve
<1>7. wanted' \in Nat
    BY <1>4 DEF Enqueue, TypeOK
<1>8. WriterInPhase' /\ RetentionHolds'
    BY <1>6 DEF WriterInPhase, RetentionHolds
<1>9. \A x \in Tasks : task'[x] = "service" => since'[x] <= day /\ day <= since'[x] + 1
    BY <1>5 DEF UnderWayIsRecent
<1>10. CASE /\ enabled /\ wpc # "exit" /\ Len(channel) < ChannelCap
            /\ channel' = Append(channel, e)
            /\ UNCHANGED dropped
    <2>1. PICK p, q : p = Pipe /\ q = Pipe'
        OBVIOUS
    <2>2. /\ q \in Seq(Event) /\ Len(q) = Len(p) + 1 /\ Len(p) \in Nat
          /\ \A i \in 1..Len(p) : q[i] = p[i]
          /\ q[Len(p) + 1] = e
          /\ Ids(ToSet(q)) = Ids(ToSet(p)) \cup {e.id}
        <3>1. PICK b \in Seq(Event), c \in Seq(Event) : b = batch /\ c = channel
            BY PipeFacts
        <3>2. PICK d \in Seq(Event) : d = channel'
            BY <1>10, PipeFacts, AppendProperties
        <3>3. p = b \o c /\ q = b \o d /\ d = Append(c, e)
            BY <1>6, <1>10, <2>1, <3>1, <3>2 DEF Pipe
        <3>4. q \in Seq(Event) /\ Len(q) = Len(p) + 1 /\ Len(p) \in Nat
            BY <3>3, AppendPipe
        <3>5. \A i \in 1..Len(p) : q[i] = p[i]
            BY <3>3, AppendPipe
        <3>6. q[Len(p) + 1] = e
            BY <3>3, AppendPipe
        <3>7. Ids(ToSet(q)) = Ids(ToSet(p)) \cup {e.id}
            <4>1. /\ Ids(ToSet(q)) = {q[i].id : i \in 1..Len(q)}
                  /\ Ids(ToSet(p)) = {p[i].id : i \in 1..Len(p)}
                BY <2>1, <3>4, PipeFacts, SeqIds
            <4>2. 1..Len(q) = 1..Len(p) \cup {Len(p) + 1}
                BY <3>4
            <4>3. ASSUME NEW i \in 1..Len(q)
                  PROVE  q[i].id \in Ids(ToSet(p)) \cup {e.id}
                BY <3>5, <3>6, <4>1, <4>2
            <4>4. ASSUME NEW i \in 1..Len(p)
                  PROVE  p[i].id \in Ids(ToSet(q))
                <5>1. i \in 1..Len(q) /\ p[i].id = q[i].id
                    BY <3>5, <4>2
                <5> QED BY <4>1, <5>1
            <4>5. e.id \in Ids(ToSet(q))
                <5>1. Len(p) + 1 \in 1..Len(q) /\ e.id = q[Len(p) + 1].id
                    BY <3>6, <4>2
                <5> QED BY <4>1, <5>1
            <4> QED BY <4>1, <4>3, <4>4, <4>5
        <3> QED BY <3>4, <3>5, <3>6, <3>7
    <2>3. channel' \in Seq(Event) /\ Len(channel') = Len(channel) + 1
        BY <1>3, <1>10, PipeFacts, AppendProperties
    <2>4. TypeOK'
        <3>1. Len(channel') <= ChannelCap
            BY <1>10, <2>3, PipeFacts, ConstantsAssumption
        <3>2. total' \in Nat /\ dropped' \in Nat
            BY <1>2, <1>4, <1>10 DEF TypeOK
        <3> QED BY <1>5, <1>6, <1>7, <2>3, <3>1, <3>2 DEF TypeOK, TaskStates
    <2>5. Piped' = Piped \cup {e.id} /\ Saved' = Saved
        BY <1>6, <2>1, <2>2 DEF Piped, Saved
    <2>6. e.id \notin Piped \cup Saved /\ e.id \in 0..Left + total'
        BY <1>2, <1>3, <1>4 DEF OneIdEach
    <2>7. \A i \in 1..Len(p) : p[i].id # e.id
        <3>1. Piped = {p[i].id : i \in 1..Len(p)}
            BY <2>1, PipeFacts, SeqIds DEF Piped
        <3> QED BY <2>6, <3>1
    <2>8. \A i, j \in 1..Len(q) : q[i].id = q[j].id => i = j
        <3>1. \A i, j \in 1..Len(p) : p[i].id = p[j].id => i = j
            BY <2>1 DEF OneIdEach
        <3>2. \A i \in 1..Len(q) : i \in 1..Len(p) \/ i = Len(p) + 1
            BY <2>2
        <3> QED BY <2>2, <2>7, <3>1, <3>2
    <2>9. Piped' \cup Saved' \subseteq 0..Left + total'
        <3>1. 0..Left + total \subseteq 0..Left + total'
            BY <1>2, <1>4
        <3> QED BY <2>5, <2>6, <3>1 DEF OneIdEach
    <2>10. OneIdEach'
        BY <1>6, <2>1, <2>5, <2>6, <2>8, <2>9 DEF OneIdEach
    <2>11. UnderWayIsRecent'
        <3>1. \A i \in 1..Len(q) : i \in 1..Len(p) \/ i = Len(p) + 1
            BY <2>2
        <3>2. \A i \in 1..Len(q) : q[i].ts <= day /\ day <= q[i].ts + 1
            BY <1>2, <1>3, <2>1, <2>2, <3>1 DEF UnderWayIsRecent
        <3> QED BY <1>6, <1>9, <2>1, <3>2 DEF UnderWayIsRecent
    <2>12. TailIsOnItsWay'
        BY <1>6, <2>5 DEF TailIsOnItsWay
    <2>13. LossesAreCounted'
        <3> SUFFICES ASSUME app # "failed", ~cancelled
                     PROVE  Accounted'
            BY <1>6 DEF LossesAreCounted
        <3>1. Accounted
            BY DEF LossesAreCounted
        <3>2. wanted' = wanted + 1 /\ wanted \in Nat /\ dropped \in Nat
            BY <1>4, <1>10 DEF Enqueue, TypeOK
        <3>3. /\ Len(channel') = Len(channel) + 1 /\ Len(channel) \in Nat /\ Len(batch) \in Nat
              /\ UNCHANGED <<rows, gone, lost, batch, dropped>>
            BY <1>6, <1>10, <2>3, PipeFacts
        <3>4. Cardinality(rows) \in Nat /\ Cardinality(gone) \in Nat /\ Cardinality(lost) \in Nat
            BY SavedCount
        <3> QED BY <3>1, <3>2, <3>3, <3>4 DEF Accounted
    <2> QED BY <1>8, <2>4, <2>10, <2>11, <2>12, <2>13
<1>11. CASE UNCHANGED channel
    <2>1. dropped' \in Nat
        BY <1>4 DEF Enqueue, TypeOK
    <2>2. TypeOK'
        BY <1>4, <1>5, <1>6, <1>7, <1>11, <2>1 DEF TypeOK, TaskStates
    <2>3. OneIdEach'
        <3>1. 0..Left + total \subseteq 0..Left + total'
            BY <1>2, <1>4
        <3> QED BY <1>6, <1>11, <3>1 DEF OneIdEach, Piped, Pipe, Saved
    <2>4. UnderWayIsRecent'
        BY <1>6, <1>9, <1>11 DEF UnderWayIsRecent, Pipe
    <2>5. TailIsOnItsWay'
        BY <1>6, <1>11 DEF TailIsOnItsWay, Piped, Pipe, Saved
    <2>6. LossesAreCounted'
        <3> SUFFICES ASSUME app # "failed", ~cancelled
                     PROVE  Accounted'
            BY <1>6 DEF LossesAreCounted
        <3>1. wpc # "exit" /\ Accounted
            BY DEF WriterInPhase, LossesAreCounted
        <3>2. channel' # Append(channel, e)
            <4>1. Len(Append(channel, e)) = Len(channel) + 1 /\ Len(channel) \in Nat
                BY <1>3, PipeFacts, AppendProperties
            <4> QED BY <1>11, <4>1
        <3>3. \/ enabled /\ dropped' = dropped + 1 /\ wanted' = wanted + 1
              \/ ~enabled /\ dropped' = dropped /\ wanted' = wanted
            BY <1>4, <3>1, <3>2 DEF Enqueue
        <3>4. wanted \in Nat /\ dropped \in Nat
            BY DEF TypeOK
        <3> HIDE DEF IInv
        <3> QED BY <1>6, <1>11, <3>1, <3>3, <3>4, PipeFacts, SavedCount DEF Accounted
    <2> QED BY <1>8, <2>2, <2>3, <2>4, <2>5, <2>6
<1> QED BY <1>4, <1>10, <1>11 DEF Enqueue

-----------------------------------------------------------------------------
(* The writer.                                                             *)

\* The writer takes events over from the channel, or goes on to something else.
LEMMA MovesInv ==
    ASSUME IInv, NEW from, NEW to, WriterStep(from, to), 
           wpc' \in {"coalesce", "flush", "drain", "drainFlush", "lastFlush"},
           UNCHANGED <<lost, rows, gone, upsets>>,
           batch' \in Seq(Event), channel' \in Seq(Event), batch' \o channel' = batch \o channel,
           Len(batch') <= BatchCap, Len(channel') <= ChannelCap,
           wpc' = "drain" => batch' = <<>>,
           cancelled \/ wpc' \in {"coalesce", "flush"},
           wpc' = "lastFlush" => channel' = <<>>
    PROVE  IInv'
<1> USE DEF IInv, sinkVars, writerVars, purgeVars, settings, listenVars
<1>1. /\ Running /\ wpc = from /\ wpc' = to
      /\ UNCHANGED <<app, bound, cancelled, listenVars, sinkVars, purgeVars, settings, day, pending>>
    BY DEF WriterStep
<1>2. Pipe' = Pipe /\ Piped' = Piped /\ Saved' = Saved
    BY <1>1 DEF Pipe, Piped, Saved
<1>3. TypeOK'
    BY <1>1 DEF TypeOK
<1>4. WriterInPhase'
    BY <1>1 DEF WriterInPhase, Running, Starting
<1>5. OneIdEach'
    BY <1>1, <1>2 DEF OneIdEach
<1>6. UnderWayIsRecent'
    BY <1>1, <1>2 DEF UnderWayIsRecent
<1>7. TailIsOnItsWay'
    <2>1. ASSUME wpc' = "lastFlush"
          PROVE  Piped' = Ids(ToSet(batch'))
        <3>1. PICK b \in Seq(Event), c \in Seq(Event) : b = batch' /\ c = channel'
            OBVIOUS
        <3>2. c = <<>> /\ ToSet(c) = {}
            <4>1. c = <<>> /\ Len(c) = 0
                BY <2>1, <3>1, EmptySeq
            <4>2. ToSet(c) = {c[i] : i \in 1..Len(c)}
                BY SeqIds
            <4> QED BY <4>1, <4>2
        <3>3. Ids(ToSet(b \o c)) = Ids(ToSet(b)) \cup Ids(ToSet(c))
            BY ONLY b \in Seq(Event), c \in Seq(Event), PipeIds
        <3>4. Ids(ToSet(c)) = {}
            BY <3>2 DEF Ids
        <3> QED BY <3>1, <3>3, <3>4 DEF Piped, Pipe
    <2> QED BY <1>1, <1>2, <2>1 DEF TailIsOnItsWay
<1>8. RetentionHolds'
    BY <1>1 DEF RetentionHolds
<1>9. LossesAreCounted'
    <2> SUFFICES ASSUME app # "failed", ~cancelled
                 PROVE  Accounted'
        BY <1>1 DEF LossesAreCounted
    <2>1. Accounted
        BY DEF LossesAreCounted
    <2>2. Len(channel') + Len(batch') = Len(channel) + Len(batch)
        <3>1. PICK b \in Seq(Event), c \in Seq(Event) : b = batch' /\ c = channel'
            OBVIOUS
        <3>2. Len(b \o c) = Len(b) + Len(c) /\ Len(b) \in Nat /\ Len(c) \in Nat
            BY PipeParts, SeqIds
        <3>3. Len(Pipe) = Len(batch) + Len(channel) /\ Len(batch) \in Nat /\ Len(channel) \in Nat
            BY PipeFacts
        <3> QED BY <3>1, <3>2, <3>3 DEF Pipe
    <2>3. Len(channel') \in Nat /\ Len(batch') \in Nat /\ Len(channel) \in Nat /\ Len(batch) \in Nat
        BY PipeFacts, SeqIds
    <2>4. /\ rows' = rows /\ gone' = gone /\ lost' = lost /\ wanted' = wanted /\ dropped' = dropped
          /\ dropped \in Nat /\ wanted \in Nat
        BY <1>1 DEF TypeOK
    <2>5. Cardinality(rows) \in Nat /\ Cardinality(gone) \in Nat /\ Cardinality(lost) \in Nat
        BY SavedCount
    <2> QED BY ONLY <2>1, <2>2, <2>3, <2>4, <2>5 DEF Accounted
<1> QED BY <1>3, <1>4, <1>5, <1>6, <1>7, <1>8, <1>9

LEMMA CollectInv ==
    ASSUME IInv, Collect
    PROVE  IInv'
<1>0. TypeOK /\ BatchCap \in Nat /\ ChannelCap \in Nat
    BY ConstantsAssumption DEF IInv
<1>1. batch \in Seq(Event) /\ channel \in Seq(Event) /\ Len(batch) \in Nat /\ Len(channel) \in Nat
    BY PipeFacts
<1>2. BatchCap - Len(batch) \in Nat /\ Len(channel) <= ChannelCap
    BY <1>0, <1>1 DEF TypeOK
<1>3. PICK limit \in Nat : limit = BatchCap - Len(batch)
    BY <1>2
<1>4. Receives(limit)
    BY <1>3 DEF Collect
<1>5. /\ batch' \in Seq(Event) /\ channel' \in Seq(Event)
      /\ batch' \o channel' = batch \o channel
      /\ Len(batch') <= Len(batch) + limit /\ Len(channel') <= Len(channel)
    BY <1>1, <1>4, ReceivesPipe
<1>6. Len(batch') \in Nat /\ Len(channel') \in Nat
    BY <1>5, SeqIds
<1>7. Len(batch') <= BatchCap /\ Len(channel') <= ChannelCap
    BY <1>0, <1>1, <1>2, <1>3, <1>5, <1>6
<1>8. WriterStep(wpc, wpc') /\ wpc' \in {"coalesce", "flush"} /\ UNCHANGED <<lost, rows, gone, upsets>>
    BY DEF Collect, WriterStep
<1> QED BY <1>5, <1>7, <1>8, MovesInv

LEMMA DrainInv ==
    ASSUME IInv, Drain
    PROVE  IInv'
<1>0. TypeOK /\ BatchCap \in Nat /\ ChannelCap \in Nat
    BY ConstantsAssumption DEF IInv
<1>1. batch \in Seq(Event) /\ channel \in Seq(Event) /\ Len(batch) \in Nat /\ Len(channel) \in Nat
    BY PipeFacts
<1>2. Len(batch) = 0 /\ Len(channel) <= ChannelCap /\ cancelled
    <2>1. batch = <<>> /\ cancelled
        BY DEF Drain, WriterStep, IInv, WriterInPhase
    <2> QED BY <1>0, <1>1, <2>1, EmptySeq DEF TypeOK
<1>4. Receives(BatchCap)
    BY DEF Drain
<1>5. /\ batch' \in Seq(Event) /\ channel' \in Seq(Event)
      /\ batch' \o channel' = batch \o channel
      /\ Len(batch') <= Len(batch) + BatchCap /\ Len(channel') <= Len(channel)
      /\ Len(batch') = Len(batch) + BatchCap \/ channel' = <<>>
    BY <1>0, <1>1, <1>4, ReceivesPipe
<1>6. Len(batch') \in Nat /\ Len(channel') \in Nat
    BY <1>5, SeqIds
<1>7. Len(batch') <= BatchCap /\ Len(channel') <= ChannelCap
    BY <1>0, <1>1, <1>2, <1>5, <1>6
<1>8. /\ WriterStep("drain", wpc') /\ wpc' \in {"drainFlush", "lastFlush"}
      /\ UNCHANGED <<lost, rows, gone, upsets>>
    BY DEF Drain, WriterStep
<1>9. wpc' = "lastFlush" => channel' = <<>>
    BY <1>0, <1>2, <1>5 DEF Drain, WriterStep
<1> QED BY <1>2, <1>5, <1>7, <1>8, <1>9, MovesInv

LEMMA FlushingInv ==
    ASSUME IInv, Flushing \/ Cancelled
    PROVE  IInv'
<1>1. batch \in Seq(Event) /\ channel \in Seq(Event) /\ Len(batch) <= BatchCap /\ Len(channel) <= ChannelCap
    BY DEF IInv, TypeOK
<1>2. CASE Flushing
    <2>1. WriterStep("coalesce", "flush") /\ wpc' = "flush" /\ UNCHANGED <<batch, channel, lost, rows, gone, upsets>>
        BY <1>2 DEF Flushing, WriterStep
    <2> QED BY <1>1, <2>1, MovesInv
<1>3. CASE Cancelled
    <2>1. /\ WriterStep("wait", "drain") /\ wpc = "wait" /\ wpc' = "drain" /\ cancelled
          /\ UNCHANGED <<batch, channel, lost, rows, gone, upsets>>
        BY <1>3 DEF Cancelled, WriterStep
    <2>2. batch' = <<>>
        BY <2>1 DEF IInv, WriterInPhase
    <2> QED BY <1>1, <2>1, <2>2, MovesInv
<1> QED BY <1>2, <1>3

\* The ids of the pipe are those of its parts.
LEMMA PartsAreDistinct ==
    ASSUME NEW b \in Seq(Event), NEW c \in Seq(Event), NEW p, p = b \o c,
           \A i, j \in 1..Len(p) : p[i].id = p[j].id => i = j
    PROVE  /\ \A i, j \in 1..Len(b) : b[i].id = b[j].id => i = j
           /\ \A i, j \in 1..Len(c) : c[i].id = c[j].id => i = j
           /\ Ids(ToSet(b)) \cap Ids(ToSet(c)) = {}
<1>1. Len(b) \in Nat /\ Len(c) \in Nat
    BY SeqIds
<1>2. /\ \A i \in 1..Len(b) : i \in 1..Len(p) /\ p[i] = b[i]
      /\ \A i \in 1..Len(c) : Len(b) + i \in 1..Len(p) /\ p[Len(b) + i] = c[i]
    BY PipeParts
<1>3. \A i, j \in 1..Len(b) : b[i].id = b[j].id => i = j
    BY <1>2
<1>4. \A i, j \in 1..Len(c) : c[i].id = c[j].id => i = j
    <2> SUFFICES ASSUME NEW i \in 1..Len(c), NEW j \in 1..Len(c), c[i].id = c[j].id
                 PROVE  i = j
        OBVIOUS
    <2>1. /\ Len(b) + i \in 1..Len(p) /\ Len(b) + j \in 1..Len(p)
          /\ p[Len(b) + i].id = p[Len(b) + j].id
        BY <1>2
    <2>2. Len(b) + i = Len(b) + j
        BY <2>1
    <2> QED BY <1>1, <2>2
<1>5. \A i \in 1..Len(b), j \in 1..Len(c) : b[i].id # c[j].id
    <2> SUFFICES ASSUME NEW i \in 1..Len(b), NEW j \in 1..Len(c), b[i].id = c[j].id
                 PROVE  FALSE
        OBVIOUS
    <2>1. i = Len(b) + j
        BY <1>2
    <2> QED BY <1>1, <2>1
<1>6. /\ Ids(ToSet(b)) = {b[i].id : i \in 1..Len(b)}
      /\ Ids(ToSet(c)) = {c[i].id : i \in 1..Len(c)}
    BY SeqIds
<1>7. Ids(ToSet(b)) \cap Ids(ToSet(c)) = {}
    <2> SUFFICES ASSUME NEW x \in Ids(ToSet(b)), x \in Ids(ToSet(c))
                 PROVE  FALSE
        OBVIOUS
    <2>1. PICK i \in 1..Len(b) : x = b[i].id
        BY ONLY <1>6, x \in Ids(ToSet(b))
    <2>2. PICK j \in 1..Len(c) : x = c[j].id
        BY ONLY <1>6, x \in Ids(ToSet(c))
    <2> QED BY ONLY <1>5, <2>1, <2>2
<1> QED BY <1>3, <1>4, <1>7

LEMMA EmptyFacts == ToSet(<<>>) = {} /\ <<>> \in Seq(Event) /\ Len(<<>>) = 0
<1>1. PICK s \in Seq(Event) : s = <<>> /\ Len(s) = 0
    BY EmptySeq
<1>2. ToSet(s) = {s[i] : i \in 1..Len(s)}
    BY SeqIds
<1> QED BY <1>1, <1>2

\* An insert as one more set of rows, or of losses.
LEMMA InsertInv ==
    ASSUME IInv, InsertBatch, NEW from, NEW to, WriterStep(from, to),
           \/ /\ UNCHANGED channel /\ wpc' \in {"wait", "drain"}
              /\ wpc' = "drain" => cancelled
           \/ /\ channel' = <<>> /\ wpc = "lastFlush" /\ wpc' = "exit"
    PROVE  IInv'
<1> USE DEF IInv, sinkVars, writerVars, purgeVars, settings, listenVars
<1>1. /\ Running /\ batch' = <<>> /\ UNCHANGED gone
      /\ UNCHANGED <<app, bound, cancelled, listenVars, sinkVars, purgeVars, settings, day, pending>>
    BY DEF WriterStep, InsertBatch
<1>2. PICK b \in Seq(Event), c \in Seq(Event) : b = batch /\ c = channel
    BY PipeFacts
<1>3. PICK d \in Seq(Event) : d = channel' /\ (d = c \/ d = <<>>)
    BY <1>2, EmptyFacts
<1>4. Pipe' = d /\ Piped' = Ids(ToSet(d)) /\ Len(d) \in Nat
    BY <1>1, <1>3, ConcatEmptySeq, SeqIds DEF Pipe, Piped
<1>5. /\ \A i, j \in 1..Len(b) : b[i].id = b[j].id => i = j
      /\ \A i, j \in 1..Len(c) : c[i].id = c[j].id => i = j
      /\ Ids(ToSet(b)) \cap Ids(ToSet(c)) = {}
    BY <1>2, PartsAreDistinct DEF OneIdEach, Pipe
<1>6. Piped = Ids(ToSet(b)) \cup Ids(ToSet(c)) /\ ToSet(b) \subseteq Event
    BY <1>2, PipeFacts, SeqIds
<1>7. \/ rows' = rows \cup ToSet(b) /\ UNCHANGED <<lost, upsets>>
      \/ /\ b # <<>> /\ upsets' = upsets + 1
         /\ lost' = lost \cup Ids(ToSet(b))
         /\ UNCHANGED rows
    BY <1>2 DEF InsertBatch, Upset
<1>8. Ids(rows \cup ToSet(b)) = Ids(rows) \cup Ids(ToSet(b))
    BY DEF Ids
<1>9. Saved' = Saved \cup Ids(ToSet(b))
    BY <1>1, <1>7, <1>8 DEF Saved
<1>10. Ids(ToSet(d)) \subseteq Ids(ToSet(c))
    <2>1. Ids(ToSet(<<>>)) = {}
        BY EmptyFacts DEF Ids
    <2> QED BY <1>3, <2>1
<1>11. TypeOK'
    <2>1. rows' \subseteq Event /\ lost' \subseteq Nat /\ upsets' \in Nat
        <3>1. Ids(ToSet(b)) \subseteq Nat
            BY <1>6 DEF Ids, Event
        <3>2. rows \subseteq Event /\ lost \subseteq Nat /\ upsets \in Nat
            BY DEF TypeOK
        <3>3. CASE rows' = rows \cup ToSet(b) /\ UNCHANGED <<lost, upsets>>
            BY <1>6, <3>2, <3>3
        <3>4. CASE upsets' = upsets + 1 /\ lost' = lost \cup Ids(ToSet(b)) /\ UNCHANGED rows
            <4>1. upsets' \in Nat
                BY ONLY <3>2, <3>4
            <4>2. lost' \subseteq Nat /\ rows' \subseteq Event
                BY ONLY <3>1, <3>2, <3>4
            <4> QED BY ONLY <4>1, <4>2
        <3> QED BY ONLY <1>7, <3>3, <3>4
    <2>2. batch' \in Seq(Event) /\ Len(batch') <= BatchCap
        BY <1>1, EmptyFacts, ConstantsAssumption
    <2>3. channel' \in Seq(Event) /\ Len(channel') <= ChannelCap
        <3>1. CASE UNCHANGED channel
            BY <3>1 DEF TypeOK
        <3>2. CASE channel' = <<>>
            BY <3>2, EmptyFacts, ConstantsAssumption
        <3> QED BY <3>1, <3>2
    <2>4. wpc' \in {"wait", "drain", "exit"}
        OBVIOUS
    <2> QED BY <1>1, <2>1, <2>2, <2>3, <2>4 DEF TypeOK
<1>12. WriterInPhase'
    <2>1. cancelled \/ wpc' = "wait"
        BY DEF WriterInPhase
    <2> QED BY <1>1, <2>1 DEF WriterInPhase, Running, Starting
<1>13. OneIdEach'
    <2>1. \A i, j \in 1..Len(d) : d[i].id = d[j].id => i = j
        <3>1. CASE d = c
            BY <1>5, <3>1
        <3>2. CASE d = <<>>
            BY <3>2, EmptyFacts
        <3> QED BY <1>3, <3>1, <3>2
    <2>2. \A x, y \in rows' : x.id = y.id => x = y
        <3>1. CASE UNCHANGED rows
            BY <3>1 DEF OneIdEach
        <3>2. CASE rows' = rows \cup ToSet(b)
            <4>1. \A x \in rows, y \in ToSet(b) : x.id # y.id
                <5>1. Ids(ToSet(b)) \cap Ids(rows) = {}
                    BY <1>6 DEF OneIdEach, Saved
                <5> QED BY ONLY <5>1 DEF Ids
            <4>2. \A x, y \in ToSet(b) : x.id = y.id => x = y
                <5>1. ToSet(b) = {b[i] : i \in 1..Len(b)}
                    BY SeqIds
                <5> QED BY <1>5, <5>1
            <4> QED BY <3>2, <4>1, <4>2 DEF OneIdEach
        <3> QED BY <1>7, <3>1, <3>2
    <2>3. IsFiniteSet(rows')
        <3>1. IsFiniteSet(ToSet(b)) /\ IsFiniteSet(rows)
            BY <1>5, DistinctSeq DEF OneIdEach
        <3> QED BY ONLY <1>7, <3>1, FS_Union
    <2>4. Piped' \cap Saved' = {}
        BY <1>4, <1>5, <1>6, <1>9, <1>10 DEF OneIdEach
    <2>5. Ids(rows') \cap gone' = {}
        BY <1>1, <1>6, <1>7, <1>8 DEF OneIdEach, Saved
    <2>6. Piped' \cup Saved' \subseteq 0..Left + total'
        BY <1>1, <1>4, <1>6, <1>9, <1>10 DEF OneIdEach
    <2> QED BY <1>4, <2>1, <2>2, <2>3, <2>4, <2>5, <2>6 DEF OneIdEach
<1>14. UnderWayIsRecent'
    <2>1. \A i \in 1..Len(c) : c[i].ts <= day /\ day <= c[i].ts + 1
        <3>1. PICK p : p = b \o c
            OBVIOUS
        <3>2. \A i \in 1..Len(c) : Len(b) + i \in 1..Len(p) /\ p[Len(b) + i] = c[i]
            BY ONLY b \in Seq(Event), c \in Seq(Event), <3>1, PipeParts
        <3>3. \A i \in 1..Len(p) : p[i].ts <= day /\ day <= p[i].ts + 1
            BY <1>2, <3>1 DEF UnderWayIsRecent, Pipe
        <3> QED BY ONLY <3>2, <3>3
    <2>2. \A i \in 1..Len(d) : d[i].ts <= day /\ day <= d[i].ts + 1
        <3>1. CASE d = c
            BY <2>1, <3>1
        <3>2. CASE d = <<>>
            BY <3>2, EmptyFacts
        <3> QED BY <1>3, <3>1, <3>2
    <2> QED BY <1>1, <1>4, <2>2 DEF UnderWayIsRecent
<1>15. TailIsOnItsWay'
    <2> SUFFICES ASSUME app # "forced"
                 PROVE  /\ pending \subseteq Piped' \cup Saved'
                        /\ wpc' = "exit" => pending \subseteq Saved'
        BY <1>1 DEF TailIsOnItsWay
    <2>1. CASE wpc = "lastFlush"
        BY <1>2, <1>9, <2>1 DEF TailIsOnItsWay
    <2>2. CASE UNCHANGED channel /\ wpc' \in {"wait", "drain"}
        BY <1>2, <1>3, <1>4, <1>6, <1>9, <2>2 DEF TailIsOnItsWay
    <2> QED BY <2>1, <2>2
<1>16. RetentionHolds'
    <2>1. \A e \in ToSet(b) : e.ts >= purged
        <3>1. PICK p : p = b \o c
            OBVIOUS
        <3>2. \A i \in 1..Len(b) : i \in 1..Len(p) /\ p[i] = b[i]
            BY ONLY b \in Seq(Event), c \in Seq(Event), <3>1, PipeParts
        <3>3. \A i \in 1..Len(p) : p[i].ts <= day /\ day <= p[i].ts + 1
            BY <1>2, <3>1 DEF UnderWayIsRecent, Pipe
        <3>4. ToSet(b) = {b[i] : i \in 1..Len(b)} /\ \A i \in 1..Len(b) : b[i].ts \in Nat
            BY SeqIds DEF Event
        <3>5. purged < day /\ purged \in Nat /\ day \in Nat
            BY DEF UnderWayIsRecent, TypeOK
        <3> QED BY ONLY <3>2, <3>3, <3>4, <3>5
    <2> QED BY <1>1, <1>7, <2>1 DEF RetentionHolds
<1>17. LossesAreCounted'
    <2> SUFFICES ASSUME app # "failed", ~cancelled
                 PROVE  Accounted'
        BY <1>1 DEF LossesAreCounted
    <2>1. Accounted /\ channel' = channel
        BY DEF LossesAreCounted, WriterInPhase
    <2>2. /\ Cardinality(rows) \in Nat /\ Cardinality(gone) \in Nat /\ Cardinality(lost) \in Nat
          /\ IsFiniteSet(rows) /\ IsFiniteSet(lost)
        BY SavedCount
    <2>3. /\ wanted' = wanted /\ gone' = gone /\ dropped' = dropped
          /\ wanted \in Nat /\ dropped \in Nat
        BY <1>1 DEF TypeOK
    <2>4. /\ IsFiniteSet(ToSet(b)) /\ Cardinality(ToSet(b)) = Len(b)
          /\ IsFiniteSet(Ids(ToSet(b))) /\ Cardinality(Ids(ToSet(b))) = Len(b)
        BY <1>5, DistinctSeq
    <2>5. Cardinality(rows') + Cardinality(lost') = Cardinality(rows) + Cardinality(lost) + Len(b)
        <3>1. CASE rows' = rows \cup ToSet(b) /\ UNCHANGED lost
            <4>1. rows \cap ToSet(b) = {}
                BY <1>6 DEF OneIdEach, Saved, Ids
            <4>2. Cardinality(rows') = Cardinality(rows) + Len(b)
                BY ONLY <2>2, <2>4, <3>1, <4>1, DisjointUnion
            <4> QED BY ONLY <2>2, <3>1, <4>2, b \in Seq(Event), SeqIds
        <3>2. CASE lost' = lost \cup Ids(ToSet(b)) /\ UNCHANGED rows
            <4>1. lost \cap Ids(ToSet(b)) = {}
                BY <1>6 DEF OneIdEach, Saved
            <4>2. Cardinality(lost') = Cardinality(lost) + Len(b)
                BY ONLY <2>2, <2>4, <3>2, <4>1, DisjointUnion
            <4> QED BY ONLY <2>2, <3>2, <4>2, b \in Seq(Event), SeqIds
        <3> QED BY <1>7, <3>1, <3>2
    <2>6. Len(b) = Len(batch) /\ Len(batch') = 0 /\ Len(batch) \in Nat /\ Len(channel) \in Nat
        BY <1>1, <1>2, EmptyFacts, SeqIds
    <2>7. Cardinality(rows') \in Nat /\ Cardinality(lost') \in Nat
        <3>1. IsFiniteSet(rows') /\ IsFiniteSet(lost')
            BY <1>7, <2>2, <2>4, FS_Union
        <3> QED BY <3>1, FS_CardinalityType
    <2>8. Len(channel') = Len(channel) /\ Cardinality(gone') = Cardinality(gone)
        BY <2>1, <2>3
    <2>9. wanted = Cardinality(rows) + Cardinality(gone) + Len(channel) + Len(batch) + dropped
                     + Cardinality(lost)
        BY <2>1 DEF Accounted
    <2>10. wanted = Cardinality(rows') + Cardinality(gone) + Len(channel) + 0 + dropped
                      + Cardinality(lost')
        <3>1. PICK r \in Nat, r1 \in Nat, l \in Nat, l1 \in Nat, g \in Nat, n \in Nat, m \in Nat :
                 /\ r = Cardinality(rows) /\ r1 = Cardinality(rows') /\ l = Cardinality(lost)
                 /\ l1 = Cardinality(lost') /\ g = Cardinality(gone) /\ n = Len(batch) /\ m = Len(channel)
            BY ONLY <2>2, <2>6, <2>7
        <3>2. r1 + l1 = r + l + n /\ wanted = r + g + m + n + dropped + l
            BY ONLY <2>5, <2>6, <2>9, <3>1
        <3>3. wanted = r1 + g + m + 0 + dropped + l1
            BY ONLY <2>3, <3>2, r \in Nat, r1 \in Nat, l \in Nat, l1 \in Nat, g \in Nat, n \in Nat, m \in Nat
        <3> QED BY ONLY <3>1, <3>3
    <2> QED BY ONLY <2>3, <2>6, <2>8, <2>10 DEF Accounted
<1> QED BY <1>11, <1>12, <1>13, <1>14, <1>15, <1>16, <1>17

LEMMA FlushInv ==
    ASSUME IInv, Flush \/ DrainFlush \/ LastFlush
    PROVE  IInv'
<1>1. CASE Flush
    BY <1>1, InsertInv DEF Flush, WriterStep
<1>2. CASE DrainFlush
    <2>1. cancelled
        BY <1>2 DEF DrainFlush, WriterStep, IInv, WriterInPhase
    <2> QED BY <1>2, <2>1, InsertInv DEF DrainFlush, WriterStep
<1>3. CASE LastFlush
    BY <1>3, InsertInv DEF LastFlush, WriterStep
<1> QED BY <1>1, <1>2, <1>3

-----------------------------------------------------------------------------
(* The purger and the admin UI.                                            *)

\* Rows are deleted.
LEMMA RemoveInv ==
    ASSUME IInv, NEW V, V \subseteq rows, rows' = rows \ V, gone' = gone \cup Ids(V),
           UNCHANGED <<app, bound, cancelled, listenVars, sinkVars, channel, writerVars, cutoff,
                       settings, day, pending>>,
           upsets' \in Nat, ppc' \in {"idle", "delete", "exit"},
           UNCHANGED purged \/ (purged' = cutoff /\ \A e \in rows' : e.ts >= cutoff)
    PROVE  IInv'
<1> USE DEF IInv, sinkVars, writerVars, settings, listenVars
<1>1. Ids(rows) = Ids(rows \ V) \cup Ids(V)
    BY DEF Ids
<1>2. Saved' = Saved /\ Piped' = Piped /\ Pipe' = Pipe
    BY <1>1 DEF Saved, Piped, Pipe
<1>3. Ids(rows \ V) \cap Ids(V) = {}
    <2>1. \A d \in rows \ V, e \in V : d.id # e.id
        BY DEF OneIdEach
    <2> QED BY ONLY <2>1 DEF Ids
<1>4. TypeOK'
    <2>1. Ids(V) \subseteq Nat /\ rows' \subseteq Event /\ gone \subseteq Nat
        BY DEF TypeOK, Ids, Event
    <2>2. gone' \subseteq Nat
        BY ONLY <2>1, gone' = gone \cup Ids(V)
    <2>3. purged' \in Nat
        BY DEF TypeOK
    <2> QED BY <2>1, <2>2, <2>3 DEF TypeOK
<1>5. WriterInPhase'
    BY DEF WriterInPhase
<1>6. IsFiniteSet(rows) /\ IsFiniteSet(rows') /\ IsFiniteSet(V)
    <2>1. IsFiniteSet(rows)
        BY DEF OneIdEach
    <2>2. V \in SUBSET rows /\ rows' \in SUBSET rows
        OBVIOUS
    <2> QED BY <2>1, <2>2, FS_Subset
<1>7. OneIdEach'
    <2>1. Ids(rows') \cap gone' = {}
        BY <1>1, <1>3 DEF OneIdEach
    <2>2. \A d, e \in rows' : d.id = e.id => d = e
        BY DEF OneIdEach
    <2> QED BY <1>2, <1>6, <2>1, <2>2 DEF OneIdEach
<1>8. UnderWayIsRecent'
    <2>1. purged' < day
        BY DEF UnderWayIsRecent
    <2> QED BY <1>2, <2>1 DEF UnderWayIsRecent
<1>9. TailIsOnItsWay'
    BY <1>2 DEF TailIsOnItsWay
<1>10. RetentionHolds'
    BY DEF RetentionHolds
<1>11. LossesAreCounted'
    <2> SUFFICES ASSUME app # "failed", ~cancelled
                 PROVE  Accounted'
        BY DEF LossesAreCounted
    <2>1. Accounted
        BY DEF LossesAreCounted
    <2>2. /\ Cardinality(rows) \in Nat /\ Cardinality(gone) \in Nat /\ Cardinality(lost) \in Nat
          /\ IsFiniteSet(gone)
        BY SavedCount
    <2>3. IsFiniteSet(Ids(V)) /\ Cardinality(Ids(V)) = Cardinality(V)
        <3>1. V \subseteq Event /\ \A d, e \in V : d.id = e.id => d = e
            BY DEF TypeOK, OneIdEach
        <3> QED BY ONLY <1>6, <3>1, DistinctRows
    <2>4. Cardinality(rows) = Cardinality(rows') + Cardinality(V)
        <3>1. rows = rows' \cup V /\ rows' \cap V = {}
            OBVIOUS
        <3> QED BY ONLY <1>6, <3>1, DisjointUnion
    <2>5. Cardinality(gone') = Cardinality(gone) + Cardinality(V)
        <3>1. gone \cap Ids(V) = {} /\ gone' = gone \cup Ids(V)
            BY <1>1 DEF OneIdEach
        <3> QED BY ONLY <2>2, <2>3, <3>1, DisjointUnion
    <2>6. Cardinality(V) \in Nat /\ Cardinality(rows') \in Nat /\ Cardinality(gone') \in Nat
        <3>1. Cardinality(V) \in Nat /\ Cardinality(rows') \in Nat
            BY <1>6, FS_CardinalityType
        <3> QED BY ONLY <2>2, <2>5, <3>1
    <2>7. /\ wanted' = wanted /\ dropped' = dropped /\ lost' = lost /\ channel' = channel /\ batch' = batch
          /\ wanted \in Nat /\ dropped \in Nat /\ Len(channel) \in Nat /\ Len(batch) \in Nat
        BY PipeFacts DEF TypeOK
    <2>8. wanted = Cardinality(rows') + Cardinality(gone') + Len(channel) + Len(batch) + dropped
                     + Cardinality(lost)
        <3>1. PICK r \in Nat, r1 \in Nat, g \in Nat, g1 \in Nat, v \in Nat :
                 /\ r = Cardinality(rows) /\ r1 = Cardinality(rows') /\ g = Cardinality(gone)
                 /\ g1 = Cardinality(gone') /\ v = Cardinality(V)
            BY ONLY <2>2, <2>6
        <3>2. PICK m \in Nat, n \in Nat, d \in Nat, l \in Nat :
                 m = Len(channel) /\ n = Len(batch) /\ d = dropped /\ l = Cardinality(lost)
            BY ONLY <2>2, <2>7
        <3>3. r = r1 + v /\ g1 = g + v /\ wanted = r + g + m + n + d + l
            BY ONLY <2>1, <2>4, <2>5, <3>1, <3>2 DEF Accounted
        <3>4. wanted = r1 + g1 + m + n + d + l
            BY ONLY <3>3, r \in Nat, r1 \in Nat, g \in Nat, g1 \in Nat, v \in Nat,
                    m \in Nat, n \in Nat, d \in Nat, l \in Nat
        <3> QED BY ONLY <3>1, <3>2, <3>4
    <2> QED BY ONLY <2>7, <2>8 DEF Accounted
<1> QED BY <1>4, <1>5, <1>7, <1>8, <1>9, <1>10, <1>11

\* What leaves the table, the buffers and the counters alone.
LEMMA ElsewhereInv ==
    ASSUME IInv, UNCHANGED <<sinkVars, channel, batch, lost, rows, gone>>,
           TypeOK', WriterInPhase', UnderWayIsRecent', TailIsOnItsWay', RetentionHolds',
           app' # "failed" /\ ~cancelled' => app # "failed" /\ ~cancelled
    PROVE  IInv'
<1> USE DEF IInv, sinkVars
<1>1. OneIdEach'
    BY DEF OneIdEach, Piped, Pipe, Saved
<1>2. LossesAreCounted'
    BY DEF LossesAreCounted, Accounted
<1> QED BY <1>1, <1>2

LEMMA PurgeInv ==
    ASSUME IInv, Purge
    PROVE  IInv'
<1> USE DEF purgeVars
<1>1. PICK victims \in Oldest(Expired, PurgeBatch) :
          /\ gone' = gone \cup Ids(victims)
          /\ rows' = rows \ victims
          /\ \/ victims # {} /\ UNCHANGED <<ppc, purged>>
             \/ victims = {} /\ purged' = cutoff /\ ppc' = "idle"
    BY DEF Purge
<1>2. /\ victims \subseteq Expired /\ Expired \subseteq rows
      /\ Cardinality(victims) = Lesser(PurgeBatch, Cardinality(Expired))
    BY DEF Oldest, Expired
<1>3. ppc' \in {"idle", "delete", "exit"} /\ upsets' \in Nat
    BY <1>1 DEF Purge, IInv, TypeOK
<1>4. CASE victims # {}
    BY <1>1, <1>2, <1>3, <1>4, RemoveInv DEF Purge
<1>5. CASE victims = {}
    <2>1. Cardinality(victims) = 0
        BY <1>5, FS_EmptySet
    <2>2. IsFiniteSet(Expired) /\ Cardinality(Expired) \in Nat
        <3>1. IsFiniteSet(rows) /\ Expired \in SUBSET rows
            BY <1>2, SavedCount
        <3>2. IsFiniteSet(Expired)
            BY <3>1, FS_Subset
        <3> QED BY <3>2, FS_CardinalityType
    <2>3. Cardinality(Expired) = 0
        BY <1>2, <2>1, <2>2, ConstantsAssumption DEF Lesser
    <2>4. Expired = {}
        BY <2>2, <2>3, FS_EmptySet
    <2>5. \A e \in rows' : e.ts >= cutoff
        <3>1. \A e \in rows : ~(e.ts < cutoff)
            BY <2>4 DEF Expired
        <3>2. \A e \in rows : e.ts \in Nat
            BY DEF IInv, TypeOK, Event
        <3>3. cutoff \in Nat /\ rows' \subseteq rows
            BY <1>1 DEF IInv, TypeOK
        <3> QED BY <3>1, <3>2, <3>3
    <2> QED BY <1>1, <1>2, <1>3, <1>5, <2>5, RemoveInv DEF Purge
<1> QED BY <1>4, <1>5

\* The other steps of a purge.
LEMMA PurgerInv ==
    ASSUME IInv, StartPurge \/ PurgeFails \/ PurgerStops
    PROVE  IInv'
<1> USE DEF IInv, sinkVars, writerVars, purgeVars, settings, listenVars
<1>1. /\ UNCHANGED <<app, bound, cancelled, listenVars, sinkVars, channel, writerVars, purged,
                     rows, gone, settings, day, pending>>
      /\ ppc' \in {"idle", "delete", "exit"} /\ upsets' \in Nat
    BY DEF StartPurge, PurgeFails, PurgerStops, Upset, TypeOK
<1>2. cutoff' \in Nat /\ cutoff' < day
    <2>1. CASE StartPurge
        <3>1. cutoff' = IF retention < day THEN day - retention ELSE 0
            BY <2>1 DEF StartPurge, DayBack
        <3>2. /\ retention \in Nat \ {0} /\ day \in Nat /\ purged \in Nat /\ purged < day
            BY ConstantsAssumption DEF UnderWayIsRecent, TypeOK
        <3> QED BY ONLY <3>1, <3>2
    <2>2. CASE PurgeFails \/ PurgerStops
        BY <2>2 DEF PurgeFails, PurgerStops, UnderWayIsRecent, TypeOK
    <2> QED BY <2>1, <2>2
<1>3. TypeOK'
    BY <1>1, <1>2 DEF TypeOK
<1>4. WriterInPhase' /\ TailIsOnItsWay' /\ RetentionHolds'
    BY <1>1 DEF WriterInPhase, TailIsOnItsWay, RetentionHolds, Piped, Pipe, Saved
<1>5. UnderWayIsRecent'
    BY <1>1, <1>2 DEF UnderWayIsRecent, Pipe
<1> HIDE DEF IInv
<1> QED BY <1>1, <1>3, <1>4, <1>5, ElsewhereInv

LEMMA EditInv ==
    ASSUME IInv, Edit
    PROVE  IInv'
<1> USE DEF sinkVars, writerVars, purgeVars, listenVars
<1>1. /\ UNCHANGED <<app, bound, cancelled, listenVars, sinkVars, channel,
                     writerVars, purgeVars, day, pending>>
      /\ upsets' \in Nat /\ ppc' \in {"idle", "delete", "exit"}
    BY DEF Edit, Upset, IInv, TypeOK
<1>2. CASE enabled' \in BOOLEAN /\ retention' \in Retentions /\ UNCHANGED <<rows, gone>>
    <2>1. TypeOK'
        BY <1>1, <1>2, ConstantsAssumption DEF IInv, TypeOK
    <2>2. WriterInPhase' /\ TailIsOnItsWay' /\ RetentionHolds'
        BY <1>1, <1>2 DEF IInv, WriterInPhase, TailIsOnItsWay, RetentionHolds, Piped, Pipe, Saved
    <2>3. UnderWayIsRecent'
        BY <1>1, <1>2 DEF IInv, UnderWayIsRecent, Pipe
    <2> QED BY <1>1, <1>2, <2>1, <2>2, <2>3, ElsewhereInv
<1>3. CASE rows' = {} /\ gone' = gone \cup Ids(rows) /\ UNCHANGED settings
    <2>1. PICK V : V = rows
        OBVIOUS
    <2>2. V \subseteq rows /\ rows' = rows \ V /\ gone' = gone \cup Ids(V)
        BY <1>3, <2>1
    <2> QED BY <1>1, <1>3, <2>2, RemoveInv
<1> QED BY <1>2, <1>3 DEF Edit

-----------------------------------------------------------------------------
(* The application.                                                        *)

LEMMA StartInv ==
    ASSUME IInv, Start
    PROVE  IInv'
<1> USE DEF sinkVars, writerVars, purgeVars, settings, listenVars
<1>1. /\ app \in Starting /\ app' \in Starting \cup {"running"} /\ bound' \in 0..UdpSockets
      /\ UNCHANGED <<cancelled, listenVars, sinkVars, channel, writerVars,
                     purgeVars, rows, gone, settings, day, pending, upsets>>
    <2>1. bound \in 0..UdpSockets /\ UdpSockets \in Nat \ {0}
        BY ConstantsAssumption DEF IInv, TypeOK
    <2>2. bound' \in 0..UdpSockets
        BY <2>1 DEF Start, Prepare, BindReusePort, BindSingle, ServeDns, SpawnSubsystems
    <2>3. /\ app \in Starting /\ app' \in Starting \cup {"running"}
          /\ UNCHANGED <<cancelled, listenVars, sinkVars, channel, writerVars,
                         purgeVars, rows, gone, settings, day, pending, upsets>>
        BY DEF Start, Prepare, BindReusePort, BindSingle, ServeDns, SpawnSubsystems, Starts,
               Starting
    <2> QED BY <2>2, <2>3
<1>2. TypeOK'
    BY <1>1 DEF IInv, TypeOK, Phases
<1>3. WriterInPhase'
    BY <1>1 DEF IInv, WriterInPhase
<1>4. TailIsOnItsWay' /\ RetentionHolds'
    BY <1>1 DEF IInv, TailIsOnItsWay, RetentionHolds, Piped, Pipe, Saved, Starting
<1>5. UnderWayIsRecent'
    BY <1>1 DEF IInv, UnderWayIsRecent, Pipe
<1> QED BY <1>1, <1>2, <1>3, <1>4, <1>5, ElsewhereInv DEF Starting

\* The process ends, and what is buffered with it.
LEMMA EndInv ==
    ASSUME IInv, channel' = <<>>, batch' = <<>>,
           task' = [t \in Tasks |-> "free"], since' = [t \in Tasks |-> 0],
           UNCHANGED <<bound, cancelled, messages, sinkVars, lost, cutoff, purged,
                       rows, gone, settings, day, pending, upsets>>,
           app' \in Phases, ppc' \in {"idle", "delete", "exit"},
           \/ app' = "failed" /\ wpc' = "wait" /\ ~cancelled
           \/ app' = "drained" /\ wpc = "exit" /\ wpc' = "exit" /\ cancelled /\ app # "forced"
           \/ app' = "forced" /\ wpc' = "exit" /\ cancelled
    PROVE  IInv'
<1> USE DEF sinkVars, settings
<1>1. Pipe' = <<>> /\ Piped' = {} /\ Saved' = Saved
    <2>1. Pipe' = <<>>
        BY ConcatEmptySeq, EmptyFacts DEF Pipe
    <2>2. Piped' = {}
        BY <2>1, EmptyFacts DEF Piped, Ids
    <2> QED BY <2>1, <2>2 DEF Saved
<1>2. TypeOK'
    <2>1. /\ channel' \in Seq(Event) /\ Len(channel') <= ChannelCap
          /\ batch' \in Seq(Event) /\ Len(batch') <= BatchCap
        BY EmptyFacts, ConstantsAssumption
    <2> QED BY <2>1 DEF IInv, TypeOK
<1>3. WriterInPhase'
    BY DEF IInv, WriterInPhase, Starting
<1>4. OneIdEach'
    <2>1. \A i, j \in 1..Len(Pipe') : Pipe'[i].id = Pipe'[j].id => i = j
        BY <1>1, EmptyFacts
    <2> QED BY <1>1, <2>1 DEF IInv, OneIdEach
<1>5. UnderWayIsRecent'
    <2>1. \A k \in 1..Len(Pipe') : Pipe'[k].ts <= day /\ day <= Pipe'[k].ts + 1
        BY <1>1, EmptyFacts
    <2> QED BY <2>1 DEF IInv, UnderWayIsRecent
<1>6. TailIsOnItsWay'
    <2> SUFFICES ASSUME app' # "forced"
                 PROVE  pending \subseteq Saved /\ wpc' # "lastFlush"
        BY <1>1 DEF TailIsOnItsWay
    <2>1. CASE ~cancelled
        BY <2>1 DEF IInv, WriterInPhase
    <2>2. CASE app' = "drained"
        BY <2>2 DEF IInv, TailIsOnItsWay
    <2> QED BY <2>1, <2>2
<1>7. RetentionHolds' /\ LossesAreCounted'
    BY DEF IInv, RetentionHolds, LossesAreCounted
<1> QED BY <1>2, <1>3, <1>4, <1>5, <1>6, <1>7 DEF IInv

LEMMA StopInv ==
    ASSUME IInv, StartFails \/ Exit
    PROVE  IInv'
<1> USE DEF sinkVars, writerVars, purgeVars, settings, listenVars
<1>1. CASE StartFails
    <2>1. wpc = "wait" /\ batch = <<>> /\ ~cancelled
        BY <1>1 DEF StartFails, IInv, WriterInPhase
    <2>2. app' = "failed" /\ app' \in Phases /\ ppc' \in {"idle", "delete", "exit"}
        BY <1>1 DEF StartFails, IInv, TypeOK, Phases
    <2> QED BY <1>1, <2>1, <2>2, EndInv DEF StartFails
<1>2. CASE Exit
    <2>1. \/ app' = "drained" /\ wpc = "exit" /\ app # "forced"
          \/ app' = "forced"
        BY <1>2 DEF Exit, Drained, Running
    <2>2. app' \in Phases
        BY <2>1 DEF Phases
    <2> QED BY <1>2, <2>1, <2>2, EndInv DEF Exit
<1> QED BY <1>1, <1>2

LEMMA TickInv ==
    ASSUME IInv, Tick
    PROVE  IInv'
<1> USE DEF sinkVars, writerVars, purgeVars, settings, listenVars
<1>1. /\ UNCHANGED <<app, bound, cancelled, listenVars, sinkVars, channel,
                     writerVars, purgeVars, rows, gone, settings, pending, upsets>>
      /\ day' = day + 1 /\ day \in Nat /\ cutoff \in Nat /\ purged \in Nat
    BY DEF Tick, IInv, TypeOK
<1>2. TypeOK'
    BY <1>1 DEF IInv, TypeOK
<1>3. WriterInPhase' /\ TailIsOnItsWay' /\ RetentionHolds'
    BY <1>1 DEF IInv, WriterInPhase, TailIsOnItsWay, RetentionHolds, Piped, Pipe, Saved
<1>4. UnderWayIsRecent'
    <2>1. \A t \in Tasks : task[t] = "service" => since[t] = day
        BY DEF Tick, UnderWay
    <2>2. \A t \in Tasks : task'[t] = "service" => since'[t] <= day' /\ day' <= since'[t] + 1
        BY <1>1, <2>1
    <2>3. PICK p \in Seq(Event) : p = Pipe
        BY PipeFacts
    <2>4. ToSet(p) = ToSet(batch) \cup ToSet(channel)
        <3>1. PICK b \in Seq(Event), c \in Seq(Event) : b = batch /\ c = channel
            BY PipeFacts
        <3>2. p = b \o c
            BY <2>3, <3>1 DEF Pipe
        <3>3. ToSet(p) = ToSet(b) \cup ToSet(c)
            BY ONLY b \in Seq(Event), c \in Seq(Event), <3>2, PipeIds
        <3> QED BY <3>1, <3>3
    <2>5. \A e \in ToSet(p) : e.ts = day
        BY <2>4 DEF Tick, UnderWay
    <2>6. \A i \in 1..Len(p) : p[i].ts = day
        <3>1. ToSet(p) = {p[i] : i \in 1..Len(p)}
            BY SeqIds
        <3> QED BY <2>5, <3>1
    <2>7. \A i \in 1..Len(p) : p[i].ts <= day' /\ day' <= p[i].ts + 1
        BY <1>1, <2>6
    <2>8. Pipe' = p
        BY <1>1, <2>3 DEF Pipe
    <2>9. cutoff' < day' /\ purged' < day' /\ retention' \in Retentions
        BY <1>1 DEF IInv, UnderWayIsRecent
    <2> QED BY <2>2, <2>7, <2>8, <2>9 DEF UnderWayIsRecent
<1> QED BY <1>1, <1>2, <1>3, <1>4, ElsewhereInv

LEMMA CancelInv ==
    ASSUME IInv, Cancel
    PROVE  IInv'
<1> USE DEF sinkVars, writerVars, purgeVars, settings, listenVars
<1>1. /\ UNCHANGED <<app, bound, listenVars, sinkVars, channel, writerVars,
                     purgeVars, rows, gone, settings, day, upsets>>
      /\ cancelled' = TRUE /\ app = "running" /\ pending' = Piped
    BY PipeFacts DEF Cancel, Running
<1>2. Piped \subseteq Nat
    <2>1. PICK p \in Seq(Event) : p = Pipe
        BY PipeFacts
    <2>2. ToSet(p) \subseteq Event
        BY SeqIds
    <2> QED BY <2>1, <2>2 DEF Piped, Ids, Event
<1>3. TypeOK'
    BY <1>1, <1>2 DEF IInv, TypeOK
<1>4. WriterInPhase'
    BY <1>1 DEF IInv, WriterInPhase, Starting
<1>5. TailIsOnItsWay'
    <2>1. wpc \in {"wait", "coalesce", "flush"}
        BY DEF Cancel, IInv, WriterInPhase
    <2> QED BY <1>1, <2>1 DEF TailIsOnItsWay, Piped, Pipe, Saved
<1>6. RetentionHolds'
    BY <1>1 DEF IInv, RetentionHolds
<1>7. UnderWayIsRecent'
    BY <1>1 DEF IInv, UnderWayIsRecent, Pipe
<1> QED BY <1>1, <1>3, <1>4, <1>5, <1>6, <1>7, ElsewhereInv

-----------------------------------------------------------------------------
(* The theorems.                                                           *)

LEMMA InitInv ==
    ASSUME Init
    PROVE  IInv
<1> USE DEF Init
<1>1. Left \in Nat /\ Left + 0 = Left
    BY ConstantsAssumption
<1>2. Pipe = <<>> /\ Piped = {}
    <2>1. Pipe = <<>>
        BY ConcatEmptySeq, EmptyFacts DEF Pipe
    <2> QED BY <2>1, EmptyFacts DEF Piped, Ids
<1>3. Ids(rows) = 1..Left /\ rows \subseteq Event
    <2>1. \A i \in 1..Left : [id |-> i, ts |-> 0] \in Event
        BY <1>1 DEF Event
    <2>2. rows \subseteq Event
        BY <2>1
    <2>3. \A e \in rows : e.id \in 1..Left
        OBVIOUS
    <2>4. ASSUME NEW i \in 1..Left
          PROVE  \E e \in rows : e.id = i
        <3>1. [id |-> i, ts |-> 0] \in rows /\ [id |-> i, ts |-> 0].id = i
            OBVIOUS
        <3> QED BY ONLY <3>1
    <2> QED BY <2>2, <2>3, <2>4 DEF Ids
<1>4. IsFiniteSet(rows) /\ Cardinality(rows) = Left
    <2>1. PICK f : f = [i \in 1..Left |-> [id |-> i, ts |-> 0]]
        OBVIOUS
    <2>2. f \in Bijection(1..Left, rows)
        <3>1. f \in [1..Left -> rows] /\ \A e \in rows : \E i \in 1..Left : f[i] = e
            BY <2>1
        <3>2. \A i, j \in 1..Left : f[i] = f[j] => i = j
            <4>1. \A i \in 1..Left : f[i].id = i
                BY <2>1
            <4> QED BY <4>1
        <3> QED BY <3>1, <3>2 DEF Bijection, Injection, Surjection, IsInjective
    <2>3. IsFiniteSet(1..Left) /\ Cardinality(1..Left) = Left
        BY <1>1, FS_Interval
    <2> QED BY <2>2, <2>3, FS_Bijection DEF ExistsBijection
<1>5. TypeOK
    <2>1. channel \in Seq(Event) /\ Len(channel) = 0 /\ batch \in Seq(Event) /\ Len(batch) = 0
        BY EmptyFacts
    <2>2. retention \in Nat
        BY ConstantsAssumption
    <2>3. 0 <= ChannelCap /\ 0 <= BatchCap /\ 0 \in 0..UdpSockets
        BY ConstantsAssumption
    <2>4. task \in [Tasks -> {"free", "reading", "service", "reply", "stalled"}] /\ since \in [Tasks -> Nat]
        OBVIOUS
    <2> QED BY <1>1, <1>3, <2>1, <2>2, <2>3, <2>4 DEF TypeOK, Phases, Starting
<1>6. WriterInPhase
    BY DEF WriterInPhase
<1>7. OneIdEach
    <2>1. \A d, e \in rows : d.id = e.id => d = e
        OBVIOUS
    <2>2. Piped \cup Saved \subseteq 0..Left + total
        <3>1. Piped \cup Saved = 1..Left /\ total = 0
            BY <1>2, <1>3 DEF Saved
        <3> QED BY ONLY <1>1, <3>1
    <2>3. \A i, j \in 1..Len(Pipe) : Pipe[i].id = Pipe[j].id => i = j
        BY <1>2, EmptyFacts
    <2> QED BY <1>2, <1>4, <2>1, <2>2, <2>3 DEF OneIdEach
<1>8. UnderWayIsRecent
    <2>1. \A i \in 1..Len(Pipe) : Pipe[i].ts <= day /\ day <= Pipe[i].ts + 1
        BY <1>2, EmptyFacts
    <2> QED BY <2>1 DEF UnderWayIsRecent
<1>9. TailIsOnItsWay /\ RetentionHolds
    BY DEF TailIsOnItsWay, RetentionHolds
<1>10. LossesAreCounted
    <2>1. Cardinality(gone) = 0 /\ Cardinality(lost) = 0 /\ Len(channel) = 0 /\ Len(batch) = 0
        BY FS_EmptySet, EmptyFacts
    <2> QED BY <1>1, <1>4, <2>1 DEF LossesAreCounted, Accounted
<1> QED BY <1>5, <1>6, <1>7, <1>8, <1>9, <1>10 DEF IInv

LEMMA NextInv ==
    ASSUME IInv, [Next]_vars
    PROVE  IInv'
<1>1. CASE UNCHANGED vars
    BY <1>1 DEF vars, listenVars, sinkVars, writerVars, purgeVars, settings, IInv, TypeOK,
        WriterInPhase, OneIdEach, UnderWayIsRecent, TailIsOnItsWay, RetentionHolds,
        LossesAreCounted, Accounted, Piped, Pipe, Saved
<1>2. CASE Next
    BY <1>2, StartInv, StopInv, ListenersInv, ServeInv, CollectInv, DrainInv, FlushingInv,
        FlushInv, PurgeInv, PurgerInv, EditInv, TickInv, CancelInv DEF Next, Writer, Purger
<1> QED BY <1>1, <1>2

\* The inductive invariant holds throughout.
THEOREM Invariance == Spec => []IInv
<1>1. Init => IInv
    BY InitInv
<1>2. IInv /\ [Next]_vars => IInv'
    BY NextInv
<1> QED BY <1>1, <1>2, PTL DEF Spec

\* Type correctness: in particular, the channel and the batch stay within their
\* capacities.
THEOREM Typing == Spec => []TypeOK
<1>1. IInv => TypeOK
    BY DEF IInv
<1> QED BY <1>1, Invariance, PTL

\* record, insert_batch, purge_older_than: while the server runs, each event that
\* should have been logged is in the table (or was), is buffered, was counted as
\* dropped, or was in a batch that failed; none is there twice.
THEOREM LossesCounted == Spec => []LossesAreCounted
<1>1. IInv => LossesAreCounted
    BY DEF IInv
<1> QED BY <1>1, Invariance, PTL

\* final_drain: what was buffered when the token was cancelled is written when the
\* writer has ended, however many events arrive meanwhile.
THEOREM TailWritten == Spec => []BufferedTailIsWritten
<1>1. IInv => BufferedTailIsWritten
    BY DEF IInv, TailIsOnItsWay, BufferedTailIsWritten, Saved
<1> QED BY <1>1, Invariance, PTL

\* purge_once: after a cycle that went through, no row from before its cutoff turns
\* up again, however the settings are edited.
THEOREM RetentionKept == Spec => []RetentionHolds
<1>1. IInv => RetentionHolds
    BY DEF IInv
<1> QED BY <1>1, Invariance, PTL
=============================================================================
