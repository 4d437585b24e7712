---------------------------- MODULE UpstreamPool ----------------------------
(***************************************************************************)
(* The pool of default upstreams: how a query is forwarded, one upstream   *)
(* after the other or several at once (src/src/resolver/upstream/pool.rs), *)
(* the health table its attempts are recorded in (health.rs), and the      *)
(* handlers that edit the upstreams and the settings and rebuild the pool  *)
(* while queries are under way (src/src/web/upstreams.rs, settings.rs).    *)
(*                                                                         *)
(* A query works on the snapshot of the pool it took; the health table is  *)
(* outside of it.  Every selector returns some permutation: the model      *)
(* leaves the order open.  Time is in ticks; a query and an attempt have   *)
(* an age instead of a start.                                              *)
(***************************************************************************)
EXTENDS Naturals, FiniteSets

CONSTANTS
    Addrs,          \* addresses of upstreams
    Down,           \* those that refuse, or stay silent
    Streams,        \* those reached by TCP, DoT or DoH; the others by UDP
    Tls,            \* those reached by DoT or DoH
    Named,          \* those entered with a TLS server name
    Misnamed,       \* of those, the ones whose name is not a valid server name
    Hostnames,      \* those entered as a host name or a URL
    Queries,        \* slots for queries in the pool
    Handlers,       \* slots for requests of the admin UI
    FailoverBudget, \* DEFAULT_FAILOVER_BUDGET
    AttemptTimeout, \* DEFAULT_QUERY_TIMEOUT, in ticks
    RequestTimeout, \* ProtectiveConfig::request_timeout, in ticks
    Fanouts,        \* bound: what a form may give as upstream_parallel_fanout
    SeededFanout,   \* the one the migrations seed
    MaxQueries,     \* bound: queries forwarded
    MaxEdits,       \* bound: requests accepted by the admin UI
    MaxFaults       \* bound: failing statements and dropped handlers

Modes == {"sequential", "parallel"}
Themes == {"light", "dark"}

\* Mutation: one attempt more.
OneAttemptMore == FailoverBudget + 2

\* UpstreamPool::connect.
MaxAttempts == FailoverBudget + 1

\* with_parallel_fanout floors the fan-out at 1.
AtLeastOne(n) == IF n = 0 THEN 1 ELSE n

ASSUME ConstantsAssumption ==
    /\ Down \subseteq Addrs /\ IsFiniteSet(Addrs)
    /\ Tls \subseteq Streams /\ Streams \subseteq Addrs
    /\ Named \subseteq Addrs /\ Misnamed \subseteq Named /\ Hostnames \subseteq Addrs
    /\ FailoverBudget \in Nat
    /\ Fanouts \subseteq Nat /\ SeededFanout \in Fanouts \ {0}
    /\ AttemptTimeout \in Nat \ {0}
    /\ RequestTimeout \in Nat
    /\ (FailoverBudget + 1) * AttemptTimeout < RequestTimeout
    /\ MaxQueries \in Nat /\ MaxEdits \in Nat /\ MaxFaults \in Nat

\* What the settings say of the pool.
Strategy == [mode : Modes, fanout : Fanouts \ {0}]

\* What a form may say of it.
Forms == [mode : Modes, fanout : Fanouts]

Pool == [clients : SUBSET Addrs, strategy : Strategy]
Settings == [strategy : Strategy, theme : Themes]
Jobs == {"upstreams", "settings", "theme"}

\* The settings row and the live settings; the tables and the pool.
Parts == {"settings", "pool"}

\* UpstreamConfig::try_from: a row whose address is not an IP has no config.
Mappable(a) == a \notin Hostnames

\* What add_upstream accepts: any name that is not blank will do for TLS.
Usable(a) == Mappable(a) /\ (a \in Tls => a \in Named)

\* connect_dot's ServerName::try_from, and what connect_doh's builder does with its
\* name: TLS needs one, and a valid one.
ServerNameOk(a) == a \in Tls => a \in Named \ Misnamed

\* UpstreamClient::connect: a UDP client is only built; a stream is opened, and
\* may not open when the other end is down.
Connects(a) ==
    IF ~ServerNameOk(a) THEN {FALSE}
    ELSE IF a \in Streams \cap Down THEN BOOLEAN ELSE {TRUE}

\* UpstreamPool::connect: those that could be connected to.
Connected(configs) ==
    {c \in SUBSET configs : \A a \in configs : (a \in c) \in Connects(a)}

VARIABLES
    \* SQLite.
    rows,      \* the enabled upstreams
    settings,  \* the settings row
    \* Memory.
    live,      \* the strategy in RuntimeSettings
    pool,      \* SharedUpstreamPool.inner
    health,    \* SharedUpstreamPool.health
    \* The admin UI's handlers.
    hpc, job, got, built,
    \* The queries.
    snapshot,  \* the pool a query took, or no client
    untried,   \* the clients the order has left
    running,   \* the clients an exchange is under way with
    age, waited,
    \* History and bounds.
    failed,    \* the pools on which the last query of a slot failed
    alone,     \* handlers that have met no other
    apart,     \* what may be apart since handlers met or one failed, see Parts
    queries, edits, faults

dbVars == <<rows, settings>>
handlerVars == <<hpc, job, got, built>>
queryVars == <<snapshot, untried, running, age, waited>>
overlap == <<alone, apart>>
bounds == <<queries, edits, faults>>
vars == <<dbVars, live, pool, health, handlerVars, queryVars, failed, overlap,
          bounds>>

TypeOK ==
    /\ rows \in SUBSET Addrs
    /\ settings \in Settings
    /\ live \in Strategy
    /\ pool \in Pool
    /\ health \in [Addrs -> [ok : Nat, err : Nat]]
    /\ hpc \in [Handlers -> {"idle", "get", "update", "store", "list", "connect"}]
    /\ job \in [Handlers -> [kind : Jobs, form : Forms]]
    /\ got \in [Handlers -> Settings]
    /\ built \in [Handlers -> Pool]
    /\ snapshot \in [Queries -> Pool]
    /\ untried \in [Queries -> SUBSET Addrs]
    /\ running \in [Queries -> SUBSET Addrs]
    /\ age \in [Queries -> Nat]
    /\ waited \in [Queries -> [Addrs -> Nat]]
    /\ \A q \in Queries : untried[q] \cup running[q] \subseteq snapshot[q].clients
    /\ failed \in [Queries -> SUBSET Pool]
    /\ alone \in [Handlers -> BOOLEAN]
    /\ apart \in SUBSET Parts
    /\ queries \in Nat /\ edits \in Nat /\ faults \in Nat

Random == [mode |-> "sequential", fanout |-> SeededFanout]
NoPool == [clients |-> {}, strategy |-> Random]
NoJob == [kind |-> "theme", form |-> Random]
\* What the migrations seed.
Seeded == [strategy |-> Random, theme |-> "light"]
NotWaited == [a \in Addrs |-> 0]

\* Startup: the pool is built from the rows and the strategy the tables hold.
Init ==
    /\ rows = {a \in Addrs : Usable(a)} /\ settings = Seeded /\ live = Random
    /\ \E c \in Connected(rows) : pool = [clients |-> c, strategy |-> live]
    /\ health = [a \in Addrs |-> [ok |-> 0, err |-> 0]]
    /\ hpc = [h \in Handlers |-> "idle"]
    /\ job = [h \in Handlers |-> NoJob]
    /\ got = [h \in Handlers |-> Seeded]
    /\ built = [h \in Handlers |-> NoPool]
    /\ snapshot = [q \in Queries |-> NoPool]
    /\ untried = [q \in Queries |-> {}]
    /\ running = [q \in Queries |-> {}]
    /\ age = [q \in Queries |-> 0]
    /\ waited = [q \in Queries |-> NotWaited]
    /\ failed = [q \in Queries |-> {}]
    /\ alone = [h \in Handlers |-> TRUE] /\ apart = {}
    /\ queries = 0 /\ edits = 0 /\ faults = 0

-----------------------------------------------------------------------------
(* Forwarding.                                                             *)

Under(q) == running[q] # {}

\* How many upstreams are asked at most.
Width(p) ==
    IF p.strategy.mode = "parallel" THEN AtLeastOne(p.strategy.fanout) ELSE MaxAttempts

\* The first clients of the order that are asked at once.
FirstBatch(p) ==
    {s \in SUBSET p.clients :
        Cardinality(s) = IF p.strategy.mode = "sequential" THEN 1
                         ELSE IF Cardinality(p.clients) < Width(p)
                              THEN Cardinality(p.clients) ELSE Width(p)}

\* forward_parallel, and the start of forward_sequential.  A pool without
\* clients fails at once.
Begin(q) ==
    /\ ~Under(q)
    /\ queries < MaxQueries
    /\ queries' = queries + 1
    /\ \/ /\ pool.clients = {}
          /\ failed' = [failed EXCEPT ![q] = {pool}]
          /\ UNCHANGED <<snapshot, untried, running>>
       \/ \E batch \in FirstBatch(pool) :
             /\ pool.clients # {}
             /\ snapshot' = [snapshot EXCEPT ![q] = pool]
             /\ running' = [running EXCEPT ![q] = batch]
             /\ untried' = [untried EXCEPT ![q] = pool.clients \ batch]
             /\ failed' = [failed EXCEPT ![q] = {}]
    /\ UNCHANGED <<dbVars, live, pool, health, handlerVars, age, waited, overlap,
                   edits, faults>>

\* The query is over and its slot forgets it.
Finish(q) ==
    /\ snapshot' = [snapshot EXCEPT ![q] = NoPool]
    /\ untried' = [untried EXCEPT ![q] = {}]
    /\ running' = [running EXCEPT ![q] = {}]
    /\ age' = [age EXCEPT ![q] = 0]
    /\ waited' = [waited EXCEPT ![q] = NotWaited]

\* UpstreamHealth, which the rebuilt pools share.
RecordSuccess(a) == health' = [health EXCEPT ![a].ok = @ + 1]

RecordFailure(a) == health' = [health EXCEPT ![a].err = @ + 1]

\* The first success is the answer: it is recorded, the others are aborted.
Answers(q, a) ==
    /\ a \in running[q] \ Down
    /\ RecordSuccess(a)
    /\ Finish(q)
    /\ UNCHANGED <<dbVars, live, pool, handlerVars, failed, overlap, bounds>>

\* Upstreams asked so far.
Attempts(q) == Cardinality(snapshot[q].clients \ untried[q])

\* Mutation: the budget counts the first attempt too.
StopsEarly(q, a) ==
    IF snapshot[q].strategy.mode = "sequential" /\ Attempts(q) < FailoverBudget
    THEN untried[q] ELSE {}

\* The upstreams that may be asked next: in sequential mode those that are left,
\* as long as the budget is not used up.
NextCandidates(q, a) ==
    IF snapshot[q].strategy.mode = "sequential" /\ Attempts(q) < MaxAttempts
    THEN untried[q] ELSE {}

\* An attempt fails or times out; the query goes on, or fails with it.
Fails(q, a) ==
    LET more == NextCandidates(q, a)
        left == running[q] \ {a} IN
    /\ a \in running[q] \cap Down
    /\ RecordFailure(a)
    /\ \/ \E b \in more :
             /\ running' = [running EXCEPT ![q] = {b}]
             /\ untried' = [untried EXCEPT ![q] = @ \ {b}]
             /\ UNCHANGED <<snapshot, age, waited, failed>>
       \/ /\ more = {} /\ left # {}
          /\ running' = [running EXCEPT ![q] = left]
          /\ UNCHANGED <<snapshot, untried, age, waited, failed>>
       \/ /\ more = {} /\ left = {}
          /\ failed' = [failed EXCEPT ![q] = {snapshot[q]}]
          /\ Finish(q)
    /\ UNCHANGED <<dbVars, live, pool, handlerVars, overlap, bounds>>

\* Time passes unless an attempt's timeout is due.
Tick ==
    /\ \E q \in Queries : Under(q)
    /\ \A q \in Queries : \A a \in running[q] : waited[q][a] < AttemptTimeout
    /\ age' = [q \in Queries |-> IF Under(q) THEN age[q] + 1 ELSE age[q]]
    /\ waited' = [q \in Queries |->
          [a \in Addrs |-> IF a \in running[q] THEN waited[q][a] + 1 ELSE waited[q][a]]]
    /\ UNCHANGED <<dbVars, live, pool, health, handlerVars, snapshot, untried,
                   running, failed, overlap, bounds>>

-----------------------------------------------------------------------------
(* The admin UI.                                                           *)

Busy == {h \in Handlers : hpc[h] # "idle"}

\* A request enters a handler.
Enter(h, kind, form, first) ==
    /\ hpc[h] = "idle"
    /\ edits < MaxEdits
    /\ edits' = edits + 1
    /\ hpc' = [hpc EXCEPT ![h] = first]
    /\ job' = [job EXCEPT ![h] = [kind |-> kind, form |-> form]]
    /\ alone' = [g \in Handlers |-> IF g = h THEN Busy = {}
                                            ELSE alone[g] /\ g \notin Busy]
    /\ UNCHANGED <<live, pool, health, got, built, queryVars, failed,
                   apart, queries, faults>>

\* add_upstream, upstream_remove, upstream_toggle: the statement.  A form that
\* names an upstream the engine could not use is sent back.
EditUpstreams(h, a, on) ==
    /\ Usable(a)
    /\ Enter(h, "upstreams", Random, "list")
    /\ rows' = IF on THEN rows \cup {a} ELSE rows \ {a}
    /\ UNCHANGED settings

SaveSettings(h, form) == Enter(h, "settings", form, "get") /\ UNCHANGED dbVars

ToggleTheme(h) == Enter(h, "theme", Random, "get") /\ UNCHANGED dbVars

\* Both handlers of the settings row read it first.
GetSettings(h) ==
    /\ hpc[h] = "get"
    /\ got' = [got EXCEPT ![h] = settings]
    /\ hpc' = [hpc EXCEPT ![h] = "update"]
    /\ UNCHANGED <<dbVars, live, pool, health, job, built, queryVars, failed,
                   overlap, bounds>>

\* What a handler that is through has brought together.
Mends(kind) ==
    IF kind = "settings" THEN Parts ELSE IF kind = "upstreams" THEN {"pool"} ELSE {}

\* The slot is free again; one that met another or failed leaves things apart, and
\* one that did neither mends what it writes.
Leave(h, result) ==
    /\ hpc' = [hpc EXCEPT ![h] = "idle"]
    /\ job' = [job EXCEPT ![h] = NoJob]
    /\ got' = [got EXCEPT ![h] = Seeded]
    /\ built' = [built EXCEPT ![h] = NoPool]
    /\ alone' = [alone EXCEPT ![h] = TRUE]
    /\ apart' = IF result = "failed" \/ ~alone[h] THEN Parts
                ELSE IF result = "done" THEN apart \ Mends(job[h].kind)
                ELSE apart

Flip(theme) == IF theme = "dark" THEN "light" ELSE "dark"

\* update() writes the whole row: apply_settings keeps the theme it read,
\* theme_toggle keeps everything else it read.
UpdateTheme(h) ==
    /\ hpc[h] = "update" /\ job[h].kind = "theme"
    /\ settings' = [got[h] EXCEPT !.theme = Flip(@)]
    /\ Leave(h, "done")
    /\ UNCHANGED <<rows, live, pool, health, queryVars, failed, bounds>>

\* SettingsForm::into_settings; the TTLs, the capacity, the block mode and the
\* retention are checked in the same way.
IntoSettings(form) == form \in Strategy

\* The form is sent back with a 400.
RefuseForm(h) ==
    /\ hpc[h] = "update" /\ job[h].kind = "settings"
    /\ ~IntoSettings(job[h].form)
    /\ Leave(h, "refused")
    /\ UNCHANGED <<dbVars, live, pool, health, queryVars, failed, bounds>>

UpdateSettings(h) ==
    /\ hpc[h] = "update" /\ job[h].kind = "settings"
    /\ IntoSettings(job[h].form)
    /\ settings' = [strategy |-> job[h].form, theme |-> got[h].theme]
    /\ hpc' = [hpc EXCEPT ![h] = "store"]
    /\ UNCHANGED <<rows, live, pool, health, job, got, built, queryVars, failed,
                   overlap, bounds>>

\* store_settings and set_ttl_bounds.
StoreSettings(h) ==
    /\ hpc[h] = "store"
    /\ live' = job[h].form
    /\ hpc' = [hpc EXCEPT ![h] = "list"]
    /\ UNCHANGED <<dbVars, pool, health, job, got, built, queryVars, failed,
                   overlap, bounds>>

\* Mutation: the strategy is the one the running pool has.
ListKeepsMode(h) ==
    /\ hpc[h] = "list"
    /\ built' = [built EXCEPT ![h] = [clients |-> rows, strategy |-> pool.strategy]]
    /\ hpc' = [hpc EXCEPT ![h] = "connect"]
    /\ UNCHANGED <<dbVars, live, pool, health, job, got, queryVars, failed,
                   overlap, bounds>>

\* rebuild_upstream_pool: list_enabled, and the strategy in memory.  Rows that
\* have no config are passed over.
ListEnabled(h) ==
    /\ hpc[h] = "list"
    /\ built' = [built EXCEPT ![h] = [clients |-> {a \in rows : Mappable(a)},
                                         strategy |-> live]]
    /\ hpc' = [hpc EXCEPT ![h] = "connect"]
    /\ UNCHANGED <<dbVars, live, pool, health, job, got, queryVars, failed,
                   overlap, bounds>>

\* build_upstream_pool connects to one upstream after the other and skips those
\* it cannot reach; SharedUpstreamPool::store.
StorePool(h) ==
    /\ hpc[h] = "connect"
    /\ \E c \in Connected(built[h].clients) : pool' = [built[h] EXCEPT !.clients = c]
    /\ Leave(h, "done")
    /\ UNCHANGED <<dbVars, live, health, queryVars, failed, bounds>>

\* A statement fails, or the browser goes away at an await, that of a statement
\* included which is carried out all the same.
HandlerFails(h) ==
    /\ hpc[h] # "idle"
    /\ faults < MaxFaults
    /\ faults' = faults + 1
    /\ Leave(h, "failed")
    /\ UNCHANGED <<dbVars, live, pool, health, queryVars, failed, queries, edits>>

Forward == \E q \in Queries : Begin(q) \/ \E a \in Addrs : Answers(q, a) \/ Fails(q, a)

Admin ==
    \E h \in Handlers :
        \/ \E a \in Addrs, on \in BOOLEAN : EditUpstreams(h, a, on)
        \/ \E form \in Forms : SaveSettings(h, form)
        \/ ToggleTheme(h) \/ GetSettings(h) \/ UpdateTheme(h)
        \/ RefuseForm(h) \/ UpdateSettings(h) \/ StoreSettings(h)
        \/ ListEnabled(h) \/ StorePool(h) \/ HandlerFails(h)

Next == Forward \/ Tick \/ Admin

Spec == Init /\ [][Next]_vars

-----------------------------------------------------------------------------
(* What the pool promises.                                                 *)

\* DEFAULT_FAILOVER_BUDGET: "keeps the worst-case latency comfortably under the
\* E6.4 pipeline timeout".  The pool is through with a query before the request
\* timeout can drop it in the middle of an attempt, so no failure goes
\* unrecorded, whichever pool it started on and whatever was swapped meanwhile.
FailoverFits == \A q \in Queries : Under(q) => age[q] < RequestTimeout

\* forward: "failing over on error or timeout".  A query fails only on a pool
\* with no upstream that works, or with at least as many dead ones as are asked.
MasksFailures ==
    \A q \in Queries : \A p \in failed[q] :
        \/ p.clients \subseteq Down
        \/ Cardinality(p.clients \cap Down) >= Width(p)

\* "rebuild it now to apply the change immediately": with no handler at work, the
\* settings row and the live settings agree, and the pool has every enabled upstream
\* that works and whose TLS name, if it needs one, is valid, and no other, in the mode
\* and with the fan-out of the live settings.  Handlers that overlap, fail or are
\* dropped may leave the pool apart from the tables, but only up to the next edit that
\* runs alone, and the live settings from their row up to the next such save, whatever
\* edits of the upstreams and toggles of the theme come in between.
PoolFollowsEdits ==
    Busy = {} =>
        /\ "settings" \notin apart => live = settings.strategy
        /\ "pool" \notin apart =>
              /\ pool.strategy = live
              /\ pool.clients \subseteq rows
              /\ {a \in rows \ Down : ServerNameOk(a)} \subseteq pool.clients
=============================================================================
