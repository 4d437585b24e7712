------------------------------ MODULE LiveView ------------------------------
(***************************************************************************)
(* The figures and the query log as a browser sees them                    *)
(* (src/src/telemetry: event.rs, stats.rs, live_log.rs; web: live_log.rs,  *)
(* dashboard.rs).  Each answered query is counted, queued for the table    *)
(* and broadcast by the thread that answered it; a page is seeded from the *)
(* table, goes on with the broadcast, and loads older rows by a cursor,    *)
(* while the writer adds rows and the purge takes some away.  How the      *)
(* writer and the purge go about it is the subject of QueryLog.            *)
(***************************************************************************)
EXTENDS Integers, Sequences, FiniteSets, Functions

CONSTANTS
    Threads,      \* that answer queries
    Viewers,      \* browsers on the log page
    Names,        \* of queries; clients are counted as names are
    Outcomes,     \* some of "blocked", "cached", "forwarded", "local"
    Capacity,     \* BROADCAST_CAPACITY
    ChannelCapacity,  \* QUERY_LOG_CHANNEL_CAPACITY
    MaxTracked,   \* of a shard of ShardedCounts, this one
    PageSize,     \* LOG_PAGE_SIZE
    MaxEvents     \* bound: queries answered

ASSUME SizesAssumption ==
    /\ {Capacity, ChannelCapacity, MaxTracked, PageSize} \subseteq Nat \ {0}
    /\ Outcomes \subseteq {"blocked", "cached", "forwarded", "local"}

VARIABLES
    count,    \* the atomic counters of Stats
    tops,     \* a shard of its top names: how often each tracked one was asked
    recs,     \* of each thread: the event it records and what it still has to do
    channel,  \* events on their way to the table
    rows,     \* the table query_log: ids to events
    lastRow,  \* its AUTOINCREMENT counter
    sent,     \* history: all that was broadcast; the ring holds the last Capacity
    queued,   \* history: all that was ever put on the channel
    events,   \* history: of each event, its name and outcome, in order of arrival
    views     \* of each viewer: its page and its stream

vars == <<count, tops, recs, channel, rows, lastRow, sent, queued, events, views>>

Counters == {"total"} \cup (Outcomes \ {"local"})
Counted(outcome) == {"total", outcome} \cap Counters

Idle == [pc |-> "idle"]
Away == [pc |-> "away"]

Init ==
    /\ count = [c \in Counters |-> 0]
    /\ tops = <<>>
    /\ recs = [t \in Threads |-> Idle]
    /\ channel = <<>> /\ rows = <<>> /\ lastRow = 0
    /\ sent = <<>> /\ queued = <<>> /\ events = <<>>
    /\ views = [v \in Viewers |-> Away]

Position(s, x) == CHOOSE i \in DOMAIN s : s[i] = x
Put(f, x, v) == [y \in DOMAIN f \cup {x} |-> IF y = x THEN v ELSE f[y]]

-----------------------------------------------------------------------------
(* TelemetrySink::record.                                                  *)

\* Mutation: the live log comes before the figures.
RecordStepPublishFirst(pc) ==
    [answered |-> "publish", publish |-> "count", count |-> "tops", tops |-> "enqueue",
     enqueue |-> "idle"][pc]

\* The order of record: the counters, the top names, the channel, the broadcast.
RecordStep(pc) ==
    [answered |-> "count", count |-> "tops", tops |-> "enqueue", enqueue |-> "publish",
     publish |-> "idle"][pc]

\* A query is answered and its event made.
Answer(t, name, outcome) ==
    /\ recs[t] = Idle /\ Len(events) < MaxEvents
    /\ events' = Append(events, [name |-> name, outcome |-> outcome])
    /\ recs' = [recs EXCEPT ![t] =
                   [pc |-> RecordStep("answered"), event |-> Len(events) + 1, todo |-> Counted(outcome)]]
    /\ UNCHANGED <<count, tops, channel, rows, lastRow, sent, queued, views>>

\* ShardedCounts::record, under the lock of its shard: names that come when it is full
\* are not tracked.
CountName(name) ==
    IF name \in DOMAIN tops THEN [tops EXCEPT ![name] = @ + 1]
    ELSE IF Cardinality(DOMAIN tops) < MaxTracked THEN Put(tops, name, 1)
    ELSE tops

Go(t) ==
    LET next == RecordStep(recs[t].pc)
    IN recs' = [recs EXCEPT ![t] = IF next = "idle" THEN Idle
                                   ELSE [@ EXCEPT !.pc = next]]

\* Stats::record: the increments are Relaxed, others may see them in any order.
Increment(t, c) ==
    /\ recs[t].pc = "count" /\ c \in recs[t].todo
    /\ count' = [count EXCEPT ![c] = @ + 1]
    /\ recs' = [recs EXCEPT ![t].todo = @ \ {c},
                            ![t].pc = IF recs[t].todo = {c} THEN RecordStep(@) ELSE @]
    /\ UNCHANGED <<tops, channel, rows, lastRow, sent, queued, events, views>>

RecordName(t) ==
    /\ recs[t].pc = "tops"
    /\ tops' = CountName(events[recs[t].event].name)
    /\ Go(t)
    /\ UNCHANGED <<count, channel, rows, lastRow, sent, queued, events, views>>

\* enqueue_for_persistence: a full channel drops the event.  The log is on; without it
\* there is no history to look at.
Enqueue(t) ==
    LET full == Len(channel) = ChannelCapacity IN
    /\ recs[t].pc = "enqueue"
    /\ channel' = IF full THEN channel ELSE Append(channel, recs[t].event)
    /\ queued' = IF full THEN queued ELSE Append(queued, recs[t].event)
    /\ Go(t)
    /\ UNCHANGED <<count, tops, rows, lastRow, sent, events, views>>

\* LiveLog::publish.
Publish(t) ==
    /\ recs[t].pc = "publish"
    /\ sent' = Append(sent, recs[t].event)
    /\ Go(t)
    /\ UNCHANGED <<count, tops, channel, rows, lastRow, queued, events, views>>

-----------------------------------------------------------------------------
(* The table.                                                              *)

\* insert_batch of what the writer has taken off the channel.  An event whose batch fails
\* is as good as one that the channel did not take.
Write(n) ==
    /\ n \in 1..Len(channel)
    /\ channel' = SubSeq(channel, n + 1, Len(channel))
    /\ rows' = [i \in DOMAIN rows \cup lastRow + 1 .. lastRow + n |->
                   IF i > lastRow THEN channel[i - lastRow] ELSE rows[i]]
    /\ lastRow' = lastRow + n
    /\ UNCHANGED <<count, tops, recs, sent, queued, events, views>>

\* purge_older_than, by the time of arrival, or clear_all.
Purge(newest) ==
    /\ rows' = [i \in {j \in DOMAIN rows : rows[j] > newest} |-> rows[i]]
    /\ UNCHANGED <<count, tops, recs, channel, lastRow, sent, queued, events, views>>

\* Mutation: id <= before.
PageIdsInclusive(before) ==
    LET older == {i \in DOMAIN rows : before = 0 \/ i <= before}
    IN {i \in older : Cardinality({j \in older : j > i}) < PageSize}

\* page(): the newest PageSize ids below the cursor, if there is one.
PageIds(before) ==
    LET older == {i \in DOMAIN rows : before = 0 \/ i < before}
    IN {i \in older : Cardinality({j \in older : j > i}) < PageSize}

\* The rows come newest first, in the one order there is; the last id is the next cursor,
\* and 0 says that there is nothing older.
NewestFirst(ids) ==
    {s \in [1..Cardinality(ids) -> ids] :
        Range(s) = ids /\ \A j, k \in DOMAIN s : j < k => s[j] > s[k]}
Oldest(order) == IF order = <<>> THEN 0 ELSE order[Len(order)]

-----------------------------------------------------------------------------
(* The log page and the dashboard.  A view has the history rows it shows,  *)
(* newest first, by id and by event; the cursor; the live rows; the        *)
(* counters on show; and those of the next ones that have been read.       *)

Shows(order) == [k \in DOMAIN order |-> [id |-> order[k], event |-> rows[order[k]]]]

\* A page; the events that are in the table and not yet broadcast are noted.
View(pc, order) ==
    [pc |-> pc, history |-> Shows(order), cursor |-> Oldest(order), live |-> <<>>,
     next |-> 0, read |-> <<>>, shown |-> [c \in Counters |-> 0],
     straddle |-> IF order = <<>> THEN {} ELSE Range(rows) \ Range(sent)]

\* query_log.
Open(v) ==
    /\ views[v] = Away
    /\ \E order \in NewestFirst(PageIds(0)) :
          views' = [views EXCEPT ![v] = View("page", order)]
    /\ UNCHANGED <<count, tops, recs, channel, rows, lastRow, sent, queued, events>>

\* dashboard: no rows, but a snapshot of the counters to begin with.
OpenDashboard(v) ==
    /\ views[v] = Away
    /\ views' = [views EXCEPT ![v] = View("seed", <<>>)]
    /\ UNCHANGED <<count, tops, recs, channel, rows, lastRow, sent, queued, events>>

\* Mutation: a receiver starts with what the ring still holds.
SubscribedAtOldest == IF Len(sent) > Capacity THEN Len(sent) - Capacity ELSE 0

\* LiveLog::subscribe: "only ... events published after the call".
Subscribed == Len(sent)

\* events: the page has come and opens its stream, which begins with the counters.
Subscribe(v) ==
    /\ views[v].pc = "page"
    /\ views' = [views EXCEPT ![v].pc = "counters", ![v].next = Subscribed]
    /\ UNCHANGED <<count, tops, recs, channel, rows, lastRow, sent, queued, events>>

\* Stats::snapshot loads one counter after the other.
Load(v, c) ==
    LET view == views[v]
        read == Put(view.read, c, count[c])
    IN /\ view.pc \in {"seed", "counters"} /\ c \notin DOMAIN view.read
       /\ views' = [views EXCEPT ![v] =
             IF DOMAIN read = Counters
             THEN [view EXCEPT !.pc = IF view.pc = "seed" THEN "page" ELSE "wait",
                               !.read = <<>>, !.shown = read]
             ELSE [view EXCEPT !.read = read]]
       /\ UNCHANGED <<count, tops, recs, channel, rows, lastRow, sent, queued, events>>

\* rx.recv(): a row; or the receiver has lagged and goes on with what the ring holds.
Receive(v) ==
    LET view == views[v] IN
    /\ view.pc = "wait" /\ view.next < Len(sent)
    /\ views' = [views EXCEPT ![v] =
          IF Len(sent) - view.next > Capacity
          THEN [view EXCEPT !.next = Len(sent) - Capacity]
          ELSE [view EXCEPT !.pc = "counters", !.next = @ + 1,
                            !.live = Append(@, sent[view.next + 1])]]
    /\ UNCHANGED <<count, tops, recs, channel, rows, lastRow, sent, queued, events>>

\* query_log_older, asked for only while there is a cursor.
Older(v) ==
    LET view == views[v] IN
    /\ view # Away /\ view.cursor > 0
    /\ \E order \in NewestFirst(PageIds(view.cursor)) :
          views' = [views EXCEPT ![v].history = @ \o Shows(order),
                                 ![v].cursor = Oldest(order)]
    /\ UNCHANGED <<count, tops, recs, channel, rows, lastRow, sent, queued, events>>

\* The browser leaves and its stream is dropped.
Close(v) ==
    /\ views[v] # Away
    /\ views' = [views EXCEPT ![v] = Away]
    /\ UNCHANGED <<count, tops, recs, channel, rows, lastRow, sent, queued, events>>

Next ==
    \/ \E t \in Threads :
          \/ \E name \in Names, outcome \in Outcomes : Answer(t, name, outcome)
          \/ \E c \in Counters : Increment(t, c)
          \/ RecordName(t) \/ Enqueue(t) \/ Publish(t)
    \/ \E n \in 1..MaxEvents : Write(n)
    \/ \E newest \in Range(rows) : Purge(newest)
    \/ \E v \in Viewers :
          \/ Open(v) \/ OpenDashboard(v) \/ Subscribe(v) \/ Receive(v) \/ Older(v) \/ Close(v)
          \/ \E c \in Counters : Load(v, c)

Spec == Init /\ [][Next]_vars
-----------------------------------------------------------------------------
(* Properties.                                                             *)

LiveRows(v, c) == {k \in DOMAIN views[v].live : c \in Counted(events[views[v].live[k]].outcome)}
NameRows(v, n) == {k \in DOMAIN views[v].live : events[views[v].live[k]].name = n}

\* "one stream drives both the log and the dashboard": between events, the counters on
\* show cover the live rows on show, so do the top names unless their table is full, and
\* once no query is being recorded and the stream is through, after any number of skipped
\* rows, they are the counters (event.rs:207-217, web/live_log.rs:133-164).
FiguresCoverRows ==
    \A v \in Viewers : views[v].pc = "wait" =>
        /\ \A c \in Counters : views[v].shown[c] >= Cardinality(LiveRows(v, c))
        /\ \A n \in Names :
              IF n \in DOMAIN tops THEN tops[n] >= Cardinality(NameRows(v, n))
              ELSE NameRows(v, n) = {} \/ Cardinality(DOMAIN tops) = MaxTracked
        /\ views[v].next = Len(sent) /\ recs = [t \in Threads |-> Idle]
              => views[v].shown = count

\* page(): "no overlap, no gap".  However many rows come and go between two pages, the
\* history a browser has loaded is in the order in which the events were queued, newest
\* first, without one twice, and has every row of the table that lies between its ends
\* (query_log.rs:page, live_log.rs:62-131, query_log.up.sql:18-19).
HistoryIsWhole ==
    \A v \in Viewers : views[v] # Away =>
        LET h == views[v].history IN
        /\ \A j, k \in DOMAIN h :
              j < k => Position(queued, h[j].event) > Position(queued, h[k].event)
        /\ \A i \in DOMAIN rows :
              h # <<>> /\ h[Len(h)].id <= i /\ i <= h[1].id =>
                  \E k \in DOMAIN h : h[k].event = rows[i]

\* The seam of history and live rows: a query is on the page twice only if it was in the
\* table before it was broadcast, at the time the page was read; live rows come in the
\* order of the broadcast and never twice (live_log.rs:12-22, 133-164).
NothingTwice ==
    \A v \in Viewers : views[v] # Away =>
        LET view == views[v] IN
        /\ {view.history[k].event : k \in DOMAIN view.history} \cap Range(view.live)
              \subseteq view.straddle
        /\ \A j, k \in DOMAIN view.live :
              j < k => Position(sent, view.live[j]) < Position(sent, view.live[k])
=============================================================================
