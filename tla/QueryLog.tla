------------------------------ MODULE QueryLog ------------------------------
(***************************************************************************)
(* From a datagram to a row of the query log, and the orderly stop of it   *)
(* all: the UDP and TCP loops (src/src/resolver/pipeline/listener.rs), the *)
(* event recorded when a query has been served (pipeline/engine.rs,        *)
(* telemetry/event.rs), the writer and the purger that share the shutdown  *)
(* token with the listeners (telemetry/query_log_writer.rs,                *)
(* query_log_purge.rs), and the application that starts them one after the *)
(* other and waits for them at the end (app.rs).                           *)
(*                                                                         *)
(* An event's id is its place in the order of recording, after the rows of *)
(* an earlier run, which are from the day before.  Time passes in          *)
(* days, which is what retention is about; what is under way is at most a  *)
(* day old, since a query takes seconds and a batch is held for one.       *)
(***************************************************************************)
EXTENDS Naturals, Sequences, FiniteSets, SequencesExt

CONSTANTS
    UdpSockets,   \* UDP sockets per address: available_parallelism
    UdpPermits,   \* UDP_HANDLER_CONCURRENCY, per socket
    Connections,  \* slots for TCP connections
    ChannelCap,   \* QUERY_LOG_CHANNEL_CAPACITY
    BatchCap,     \* BATCH_CAPACITY
    PurgeBatch,   \* PURGE_BATCH
    Retentions,   \* values of query_log_retention_days, which 0 is not one of
    Left,         \* rows an earlier run has left in the table
    MaxMessages,  \* bound: messages received
    MaxUpsets,    \* bound: saved settings, clears of the log, failing statements
    MaxDay        \* bound: the clock

ASSUME ConstantsAssumption ==
    /\ UdpSockets \in Nat \ {0} /\ UdpPermits \in Nat \ {0}
    /\ ChannelCap \in Nat \ {0} /\ BatchCap \in Nat \ {0} /\ PurgeBatch \in Nat \ {0}
    /\ Retentions \subseteq Nat \ {0} /\ Retentions # {} /\ Left \in Nat
    /\ MaxMessages \in Nat /\ MaxUpsets \in Nat /\ MaxDay \in Nat

\* A handler of a datagram is the socket it came in by and a permit of its loop.
UdpHandlers == (1..UdpSockets) \X (1..UdpPermits)

\* The handlers the loops spawn.
Tasks == UdpHandlers \cup Connections

\* How far the application is: run_until_ready, and how it ended.
Starting == {"start", "udp", "tcp", "serving"}
Phases == Starting \cup {"running", "failed", "drained", "forced"}

Event == [id : Nat, ts : Nat]

VARIABLES
    app,        \* how far the application is
    bound,      \* UDP sockets bound
    cancelled,  \* the shutdown token
    task,       \* where each handler is
    since,      \* the day its query came in
    total,      \* Stats.total
    channel, dropped,            \* QueryLogChannel
    wpc, batch,                  \* QueryLogWriter
    ppc, cutoff,                 \* QueryLogPurger
    rows,       \* the query_log table
    enabled, retention,          \* RuntimeSettings
    day,
    \* History.
    wanted,     \* events recorded while logging was on
    lost,       \* events of batches whose transaction failed
    gone,       \* rows purged or cleared
    pending,    \* the events buffered when the token was cancelled
    purged,     \* the cutoff of the last cycle that went through
    \* Bounds.
    messages, upsets

listenVars == <<task, since, messages>>
sinkVars == <<total, dropped, wanted>>
writerVars == <<wpc, batch, lost>>
purgeVars == <<ppc, cutoff, purged>>
settings == <<enabled, retention>>
vars == <<app, bound, cancelled, listenVars, sinkVars, channel, writerVars,
          purgeVars, rows, gone, settings, day, pending, upsets>>

TypeOK ==
    /\ app \in Phases /\ bound \in 0..UdpSockets
    /\ cancelled \in BOOLEAN
    /\ task \in [Tasks -> {"free", "reading", "service", "reply", "stalled"}]
    /\ since \in [Tasks -> Nat]
    /\ total \in Nat /\ dropped \in Nat /\ wanted \in Nat
    /\ channel \in Seq(Event) /\ Len(channel) <= ChannelCap
    /\ wpc \in {"wait", "coalesce", "flush", "drain", "drainFlush", "lastFlush", "exit"}
    /\ batch \in Seq(Event) /\ Len(batch) <= BatchCap
    /\ ppc \in {"idle", "delete", "exit"}
    /\ cutoff \in Nat /\ purged \in Nat
    /\ rows \subseteq Event
    /\ enabled \in BOOLEAN /\ retention \in Nat
    /\ day \in Nat
    /\ lost \subseteq Nat /\ gone \subseteq Nat /\ pending \subseteq Nat
    /\ messages \in Nat /\ upsets \in Nat

Init ==
    /\ app = "start" /\ bound = 0 /\ cancelled = FALSE
    /\ task = [t \in Tasks |-> "free"] /\ since = [t \in Tasks |-> 0]
    /\ total = 0 /\ dropped = 0 /\ wanted = Left
    /\ channel = <<>>
    /\ wpc = "wait" /\ batch = <<>>
    /\ ppc = "idle" /\ cutoff = 0 /\ purged = 0
    /\ rows = {[id |-> i, ts |-> 0] : i \in 1..Left}
    /\ enabled = TRUE /\ retention \in Retentions
    /\ day = 1
    /\ lost = {} /\ gone = {} /\ pending = {}
    /\ messages = 0 /\ upsets = 0

Ids(events) == {e.id : e \in events}

\* All subsystems have been spawned.
Running == app = "running"

\* The DNS loops have been spawned, and the others perhaps not yet.
Serving == app \in {"serving", "running"}

Upset ==
    /\ upsets < MaxUpsets
    /\ upsets' = upsets + 1

-----------------------------------------------------------------------------
(* The listeners.                                                          *)

Goto(t, s) == task' = [task EXCEPT ![t] = s]

\* A query goes to the service.
Query(t) ==
    /\ messages < MaxMessages
    /\ messages' = messages + 1
    /\ Goto(t, "service")
    /\ since' = [since EXCEPT ![t] = day]

\* run_udp: a permit, a datagram, a task.  The token goes first in both selects.
\* A malformed datagram is dropped or answered at once and leaves nothing.
Receive(u) ==
    /\ Serving /\ ~cancelled
    /\ u[1] <= bound /\ task[u] = "free"
    /\ Query(u)
    /\ UNCHANGED <<app, bound, cancelled, sinkVars, channel, writerVars,
                   purgeVars, rows, gone, settings, day, pending, upsets>>

\* run_tcp.
Accept(c) ==
    /\ Serving /\ ~cancelled
    /\ task[c] = "free" /\ messages < MaxMessages
    /\ Goto(c, "reading")
    /\ UNCHANGED <<app, bound, cancelled, since, messages, sinkVars, channel,
                   writerVars, purgeVars, rows, gone, settings, day, pending,
                   upsets>>

\* handle_connection: the two reads of a message.  A malformed one is answered
\* and leaves no event.
Read(c) ==
    /\ Serving /\ ~cancelled
    /\ task[c] = "reading"
    /\ Query(c) \/ (Goto(c, "reply") /\ UNCHANGED <<since, messages>>)
    /\ UNCHANGED <<app, bound, cancelled, sinkVars, channel, writerVars,
                   purgeVars, rows, gone, settings, day, pending, upsets>>

\* Idle for too long, EOF, an error, a message to be dropped, or the token.
Close(c) ==
    /\ Serving
    /\ task[c] = "reading"
    /\ Goto(c, "free")
    /\ UNCHANGED <<app, bound, cancelled, since, messages, sinkVars, channel,
                   writerVars, purgeVars, rows, gone, settings, day, pending,
                   upsets>>

\* write_all: the connection goes on reading, or is closed when the reply could
\* not be framed or written.
Write(c) ==
    /\ Serving
    /\ task[c] = "reply"
    /\ Goto(c, "free") \/ Goto(c, "reading")
    /\ UNCHANGED <<app, bound, cancelled, since, messages, sinkVars, channel,
                   writerVars, purgeVars, rows, gone, settings, day, pending,
                   upsets>>

\* The peer stops reading, and write_all waits; it reads again, or goes away.
Stall(c) ==
    /\ Serving
    /\ \/ task[c] = "reply" /\ Goto(c, "stalled")
       \/ task[c] = "stalled" /\ (Goto(c, "reply") \/ Goto(c, "free"))
    /\ UNCHANGED <<app, bound, cancelled, since, messages, sinkVars, channel,
                   writerVars, purgeVars, rows, gone, settings, day, pending,
                   upsets>>

-----------------------------------------------------------------------------
(* The telemetry sink.                                                     *)

\* Mutation: the drop is not counted.
EnqueueUncounted(e) ==
    /\ wanted' = IF enabled THEN wanted + 1 ELSE wanted
    /\ channel' = IF enabled /\ wpc # "exit" /\ Len(channel) < ChannelCap
                  THEN Append(channel, e) ELSE channel
    /\ UNCHANGED dropped

\* try_send: a full channel drops and counts; a closed one only drops.
Enqueue(e) ==
    /\ wanted' = IF enabled THEN wanted + 1 ELSE wanted
    /\ \/ /\ enabled /\ wpc # "exit" /\ Len(channel) < ChannelCap
          /\ channel' = Append(channel, e)
          /\ UNCHANGED dropped
       \/ /\ enabled /\ wpc # "exit" /\ Len(channel) = ChannelCap
          /\ dropped' = dropped + 1
          /\ UNCHANGED channel
       \/ /\ ~enabled \/ wpc = "exit"
          /\ UNCHANGED <<channel, dropped>>

\* TelemetryService::call: the inner service is through, with an answer or an
\* error, and the event is recorded before the reply goes out.  A datagram is
\* handed to the socket; a connection may have to wait for its peer.
Serve(t) ==
    /\ Serving
    /\ task[t] = "service"
    /\ total' = total + 1
    /\ Enqueue([id |-> Left + total', ts |-> since[t]])
    /\ Goto(t, IF t \in Connections THEN "reply" ELSE "free")
    /\ since' = [since EXCEPT ![t] = 0]
    /\ UNCHANGED <<app, bound, cancelled, messages, writerVars, purgeVars, rows,
                   gone, settings, day, pending, upsets>>

-----------------------------------------------------------------------------
(* The writer.                                                             *)

Lesser(m, n) == IF m < n THEN m ELSE n

\* recv_many, or a run of try_recv, of at most `limit` events.
Receives(limit) ==
    LET n == Lesser(limit, Len(channel)) IN
    /\ batch' = batch \o SubSeq(channel, 1, n)
    /\ channel' = SubSeq(channel, n + 1, Len(channel))

WriterStep(from, to) ==
    /\ Running
    /\ wpc = from /\ wpc' = to
    /\ UNCHANGED <<app, bound, cancelled, listenVars, sinkVars, purgeVars,
                   settings, day, pending>>

\* The first events of a batch, and more until it is full.
Collect ==
    /\ ~cancelled /\ wpc \in {"wait", "coalesce"} /\ channel # <<>>
    /\ Receives(BatchCap - Len(batch))
    /\ WriterStep(wpc, IF Len(batch') = BatchCap THEN "flush" ELSE "coalesce")
    /\ UNCHANGED <<lost, rows, gone, upsets>>

\* FLUSH_INTERVAL is over, or the token is cancelled.
Flushing ==
    /\ WriterStep("coalesce", "flush")
    /\ UNCHANGED <<batch, channel, lost, rows, gone, upsets>>

\* Mutation: the token is not looked at while the writer waits for events.
WaitIgnoresToken ==
    /\ cancelled /\ channel # <<>>
    /\ WriterStep("wait", "drain")
    /\ UNCHANGED <<batch, channel, lost, rows, gone, upsets>>

\* Mutation: return instead of break, so there is no drain.
CancelledReturns ==
    /\ cancelled
    /\ WriterStep("wait", "exit")
    /\ channel' = <<>>
    /\ UNCHANGED <<batch, lost, rows, gone, upsets>>

Cancelled ==
    /\ cancelled
    /\ WriterStep("wait", "drain")
    /\ UNCHANGED <<batch, channel, lost, rows, gone, upsets>>

\* insert_batch: one transaction, which may fail; the batch is given up then.
InsertBatch ==
    /\ batch' = <<>>
    /\ \/ rows' = rows \cup ToSet(batch) /\ UNCHANGED <<lost, upsets>>
       \/ /\ batch # <<>> /\ Upset
          /\ lost' = lost \cup Ids(ToSet(batch))
          /\ UNCHANGED rows
    /\ UNCHANGED gone

Flush ==
    /\ InsertBatch
    /\ WriterStep("flush", IF cancelled THEN "drain" ELSE "wait")
    /\ UNCHANGED channel

\* final_drain: full batches as long as there are any, then the last one.
Drain ==
    /\ Receives(BatchCap)
    /\ WriterStep("drain", IF Len(batch') = BatchCap THEN "drainFlush" ELSE "lastFlush")
    /\ UNCHANGED <<lost, rows, gone, upsets>>

DrainFlush ==
    /\ InsertBatch
    /\ WriterStep("drainFlush", "drain")
    /\ UNCHANGED channel

\* The last flush; then the receiver is dropped, with what has been sent since.
LastFlush ==
    /\ InsertBatch
    /\ WriterStep("lastFlush", "exit")
    /\ channel' = <<>>

Writer == Collect \/ Flushing \/ Cancelled \/ Flush \/ Drain \/ DrainFlush \/ LastFlush

-----------------------------------------------------------------------------
(* The purger and the admin UI.                                            *)

DayBack(n) == IF n < day THEN day - n ELSE 0

\* purge_once reads the window once; a tick of the interval starts it.
StartPurge ==
    /\ Running /\ ~cancelled
    /\ ppc = "idle"
    /\ cutoff' = DayBack(retention) /\ ppc' = "delete"
    /\ UNCHANGED <<app, bound, cancelled, listenVars, sinkVars, channel,
                   writerVars, purged, rows, gone, settings, day, pending,
                   upsets>>

Expired == {e \in rows : e.ts < cutoff}

\* The n of them with the lowest ids.
Oldest(events, n) ==
    {some \in SUBSET events :
        /\ Cardinality(some) = Lesser(n, Cardinality(events))
        /\ \A e \in some, d \in events \ some : e.id < d.id}

\* Mutation: a cycle is one DELETE.
PurgeOneBatch ==
    /\ Running /\ ppc = "delete"
    /\ \E victims \in Oldest(Expired, PurgeBatch) :
          /\ gone' = gone \cup Ids(victims)
          /\ rows' = rows \ victims
    /\ purged' = cutoff /\ ppc' = "idle"
    /\ UNCHANGED <<app, bound, cancelled, listenVars, sinkVars, channel,
                   writerVars, cutoff, settings, day, pending, upsets>>

\* DELETEs of PURGE_BATCH rows, oldest first, until one finds nothing; then the
\* vacuum.  The token is looked at between cycles only.
Purge ==
    /\ Running /\ ppc = "delete"
    /\ \E victims \in Oldest(Expired, PurgeBatch) :
          /\ gone' = gone \cup Ids(victims)
          /\ rows' = rows \ victims
          /\ \/ victims # {} /\ UNCHANGED <<ppc, purged>>
             \/ victims = {} /\ purged' = cutoff /\ ppc' = "idle"
    /\ UNCHANGED <<app, bound, cancelled, listenVars, sinkVars, channel,
                   writerVars, cutoff, settings, day, pending, upsets>>

PurgeFails ==
    /\ Running /\ ppc = "delete"
    /\ Upset
    /\ ppc' = "idle"
    /\ UNCHANGED <<app, bound, cancelled, listenVars, sinkVars, channel,
                   writerVars, cutoff, purged, rows, gone, settings, day,
                   pending>>

PurgerStops ==
    /\ Running /\ cancelled
    /\ ppc = "idle"
    /\ ppc' = "exit"
    /\ UNCHANGED <<app, bound, cancelled, listenVars, sinkVars, channel,
                   writerVars, cutoff, purged, rows, gone, settings, day,
                   pending, upsets>>

Purger == StartPurge \/ Purge \/ PurgerStops

\* The settings page switches the log and sets the window, clear_all empties it.
Edit ==
    /\ Running /\ ~cancelled
    /\ Upset
    /\ \/ /\ enabled' \in BOOLEAN /\ retention' \in Retentions
          /\ settings' # settings
          /\ UNCHANGED <<rows, gone>>
       \/ /\ rows # {}
          /\ rows' = {} /\ gone' = gone \cup Ids(rows)
          /\ UNCHANGED settings
    /\ UNCHANGED <<app, bound, cancelled, listenVars, sinkVars, channel,
                   writerVars, purgeVars, day, pending>>

-----------------------------------------------------------------------------
(* The application.                                                        *)

\* A step of the start.
Starts(from, to) ==
    /\ app = from /\ app' = to
    /\ UNCHANGED <<cancelled, listenVars, sinkVars, channel, writerVars,
                   purgeVars, rows, gone, settings, day, pending, upsets>>

\* The database, the hydrated state, the saved blocklists, the pool, the zones,
\* the sink and the engine.  Nothing listens yet.
Prepare == Starts("start", "udp") /\ UNCHANGED bound

\* bind_for_addr: one more socket with SO_REUSEPORT, up to one per core.
BindReusePort ==
    /\ bound < UdpSockets
    /\ bound' = bound + 1
    /\ Starts("udp", IF bound' = UdpSockets THEN "tcp" ELSE "udp")

\* SO_REUSEPORT is unknown to the kernel: a single socket instead.
BindSingle ==
    /\ bound = 0
    /\ bound' = 1
    /\ Starts("udp", "tcp")

\* The TCP listener is bound and the loops are spawned.
ServeDns == Starts("tcp", "serving") /\ UNCHANGED bound

\* The admin server is bound, and the remaining subsystems are spawned.
SpawnSubsystems == Starts("serving", "running") /\ UNCHANGED bound

\* Any error of the start ends the process, with what the loops have taken in
\* since; so does a signal, for which no handler is installed yet.
StartFails ==
    /\ app \in Starting
    /\ app' = "failed"
    /\ task' = [t \in Tasks |-> "free"] /\ since' = [t \in Tasks |-> 0]
    /\ channel' = <<>>
    /\ UNCHANGED <<bound, cancelled, messages, sinkVars, writerVars, purgeVars,
                   rows, gone, settings, day, pending, upsets>>

Start == Prepare \/ BindReusePort \/ BindSingle \/ ServeDns \/ SpawnSubsystems

\* The days what is under way is from.
UnderWay ==
    {since[t] : t \in {s \in Tasks : task[s] = "service"}}
        \cup {e.ts : e \in ToSet(channel) \cup ToSet(batch)}

\* Nothing takes two days, and a stop takes seconds.
Tick ==
    /\ Running /\ ~cancelled /\ day < MaxDay
    /\ \A ts \in UnderWay : ts = day
    /\ day' = day + 1
    /\ UNCHANGED <<app, bound, cancelled, listenVars, sinkVars, channel,
                   writerVars, purgeVars, rows, gone, settings, pending,
                   upsets>>

Cancel ==
    /\ Running /\ ~cancelled
    /\ cancelled' = TRUE
    /\ pending' = Ids(ToSet(channel)) \cup Ids(ToSet(batch))
    /\ UNCHANGED <<app, bound, listenVars, sinkVars, channel, writerVars,
                   purgeVars, rows, gone, settings, day, upsets>>

\* Every task of the tracker has ended: the loops with their handlers, the
\* writer and the purger.
Drained ==
    /\ cancelled
    /\ \A t \in Tasks : task[t] = "free"
    /\ wpc = "exit" /\ ppc = "exit"

\* tracker.wait, bounded by the drain timeout: the process ends with whatever is
\* still under way.
Exit ==
    /\ Running /\ cancelled
    /\ app' = IF Drained THEN "drained" ELSE "forced"
    /\ task' = [t \in Tasks |-> "free"] /\ since' = [t \in Tasks |-> 0]
    /\ channel' = <<>> /\ batch' = <<>>
    /\ wpc' = "exit" /\ ppc' = "exit"
    /\ UNCHANGED <<bound, cancelled, messages, sinkVars, lost, cutoff, purged,
                   rows, gone, settings, day, pending, upsets>>

Handler(t) == Serve(t) \/ Write(t) \/ (cancelled /\ Close(t))

Next ==
    \/ Start \/ StartFails
    \/ \E u \in UdpHandlers : Receive(u)
    \/ \E c \in Connections : Accept(c) \/ Read(c) \/ Close(c) \/ Write(c) \/ Stall(c)
    \/ \E t \in Tasks : Serve(t)
    \/ Writer \/ Purger \/ PurgeFails
    \/ Edit \/ Tick \/ Cancel \/ Exit

Spec == Init /\ [][Next]_vars

\* Some task that can go on does: a query is served within its timeout, a timer
\* fires, a statement ends.  Nothing makes a peer read or send, an admin act, or
\* the drain timeout wait.
Progress == (\E t \in Tasks : Handler(t)) \/ Writer \/ Purger

FairSpec == Spec /\ WF_vars(Progress)

-----------------------------------------------------------------------------
(* What the log promises.                                                  *)

\* Each event that should have been logged is a row (or was one), is buffered,
\* was counted as dropped, or was in a batch that failed.
Accounted ==
    wanted = Cardinality(rows) + Cardinality(gone) + Len(channel) + Len(batch) + dropped
               + Cardinality(lost)

\* record: "a full channel drops the event and bumps the drop counter".  As long
\* as the server runs, dropped_query_events and the failed batches are all that
\* is missing from the log, and nothing is in it twice.
LossesAreCounted == app # "failed" /\ ~cancelled => Accounted

\* final_drain: "so the tail of the log is not lost".  What was buffered when the
\* token was cancelled is written by the time the writer has ended, whatever
\* still arrives meanwhile, unless its transaction failed.
BufferedTailIsWritten ==
    wpc = "exit" /\ app # "forced" => pending \subseteq Ids(rows) \cup gone \cup lost

\* purge_once: "deletes everything older than the cutoff in bounded batches".
\* After a cycle that went through no older row turns up again, although events
\* of the day before are still on their way.
RetentionHolds == \A e \in rows : e.ts >= purged

\* app.rs: "tracked tasks drain".  After the token, every loop, handler, the
\* writer and the purger end by themselves, unless a TCP peer does not take its
\* reply or the drain timeout comes first.
StopsByItself ==
    cancelled ~> (Drained \/ app = "forced" \/ \E c \in Connections : task[c] = "stalled")
=============================================================================
