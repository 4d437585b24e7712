# Sagittarius in TLA+

Sagittarius is a DNS sinkhole: a DNS server that blocks names found on
aggregated lists, answers local records, forwards the rest, caches, logs every
query, and is administered from a web UI; a second instance may mirror the
first. This directory holds TLA+ models of its core, the TLC configurations
that check them, and TLAPS proofs of the most important properties.
`PROJECT.json` maps every definition to the lines it models (an item's doc
comment is part of its lines) and lists components, runs, mutants, hazards,
findings and theorems.

Paths below are relative to the repository's `src/` directory of Rust code.

## 1. The system

The process is one tokio runtime with many tasks. What they share is
`ResolverState` (components that are swapped atomically, one by one), the
upstream pool, the query-log channel and SQLite. There is no lock or transaction
around a whole admin operation: everything that matters happens between two
awaits.

| Part | State | Operations | Interacts with | Hard behaviour |
|---|---|---|---|---|
| Blocklist scheduler (`blocklist/scheduler.rs`, `aggregate.rs`) | live `AttributedSet`, refresh permit, cycle in progress | offline start, select loop, refresh cycle, install | tables `blocklists`, `blocklist_cache`; web servers; admin handlers by `RefreshTrigger` | edits during a cycle, failed fetches and statements, crash between the two writes of a source |
| Subscriptions (`storage/blocklists.rs`, `web/blocklists.rs`) | rows, validators, saved bodies | add, remove, toggle, refresh now | scheduler | write then trigger; dropped handlers |
| Admin lists (`web/lists.rs`, `storage/lists.rs`) | two tables, two `MatchSet`s | add, remove, block / unblock from the log | decision stack | write, reload, store by concurrent handlers |
| Decision stack (`resolver/pipeline/layers.rs`, `resolver/state.rs`) | reads seven components | the precedence of local records, zones, pause, blacklist, allowlist, blocklist | every admin handler, the scheduler, the clock | components change between two stages |
| Cache and forward leaf (`resolver/cache.rs`, `pipeline/cache_layer.rs`, `pipeline/forward.rs`) | entries with deadlines, TTL bounds | get, forward, insert, flush | zones, upstream pool, timeout layer | answers stored after the routes changed |
| Conditional-forward zones (`resolver/forward_zone.rs`, `web/forward_zones.rs`) | routes and their forwarders | rebuild, swap, flush | decision stack, cache | swap and flush are two steps |
| Upstream pool (`resolver/upstream/*`, `web/upstreams.rs`) | clients, strategy, health table | sequential failover, parallel race, rebuild | settings, forward leaf | timeouts inside timeouts, aborted attempts, rebuild during queries |
| Settings (`web/settings.rs`, `storage/settings.rs`) | one row, `RuntimeSettings` | save, toggle theme | pool, cache, block mode | read-modify-write of a whole row |
| Config sync (`sync/*`, `web/sync.rs`) | last version, snapshot under way | poll, conditional GET, sectioned apply | every table and every swap of the secondary | torn snapshots, half-applied configurations, restarts |
| Local records (`resolver/local.rs`, `web/records.rs`) | a table; exact, wildcard and reverse indexes | add, remove, reload, lookup | decision stack, reverse names | ties in hash order, exact names before wildcards |
| Listeners (`pipeline/listener.rs`) | sockets, handlers, connections | bind, receive, accept, read, truncate, write, drain | engine, shutdown token | in-flight work at shutdown, silent peers, size limits |
| Codec (`codec/*`) | none | parsing, compression, EDNS and TTL scans, synthesis | listeners, cache | boundaries in pure functions on octets |
| Query log (`telemetry/event.rs`, `query_log_writer.rs`, `query_log_purge.rs`, `storage/query_log.rs`) | bounded channel, batch, table | record, collect, flush, final drain, purge, clear | listeners, settings, shutdown token | full channel, failing batches, the order of the start and of the stop |
| Statistics and live log (`telemetry/stats.rs`, `live_log.rs`, `web/live_log.rs`) | counters, name counts, a broadcast ring | count, publish, page, stream, scroll back | query log, browsers | updates without a lock, lagging browsers, the seam of page and stream |
| Reverse names (`resolver/reverse.rs`) | a cache of host names | look up, show, flush | local records, zones, upstream | lookups that straddle a flush |
| Sessions, API keys, guards, wizard (`web/auth.rs`, `csrf.rs`, `readonly.rs`, `wizard.rs`, `apikeys.rs`) | session, user and key rows | login, renewal, logout, mint, revoke, setup | web server, config sync | concurrent setup, expiry, statements that fail between two lookups |
| Application (`app.rs`) | token, task tracker | start, cancel, drain, exit | everything | a start that fails half-way, drain timeout |

Properties that make each part right are in section 3; what can go wrong and is
hard to test is the hazard list of `PROJECT.json`.

## 2. The modules

All modules are plain state machines: one variable per piece of shared state,
one action per await-to-await step of one task, bounds named in CONSTANTS and
enforced in guards, history variables (named as such) only for properties.
`TypeOK` documents the types of a module's variables; where there are proofs it
is one of the theorems (section 4), and the runs spend their time on other
properties. A definition that begins with the comment *Mutation* is a deliberately wrong
version of the one that follows; no specification uses it. Put in its place it
violates the property `PROJECT.json` lists with it, which shows that the
property depends on that code.

| Module | Code | How state and actions correspond |
|---|---|---|
| `BlocklistScheduler` | scheduler, aggregation, subscriptions | `present enabled url etag cache lastId` are the two tables; `live installed` the attributed set and its contributions; `phase todo current body merged contributions complete` a `refresh_once` in progress. `ListEnabled`, `Fetch*`, `SaveCache`, `UpdateMetadata`, `AddCached`, `FinishRefresh` are its awaits in order; `Boot*` is `load_from_cache`; `AddBlocklist` and its kin write, `Trigger` follows. A body is a version number, a parser the function `Names`. |
| `AdminLists` | blacklist, allowlist and their handlers | a handler is `Write`, `LoadAll`, `Store`; any number of slots run at once; `Unblock` chooses the list the way `unblock` does. |
| `DecisionStack` | one query through `DecisionStack::call` | one action per stage, and one per swap of a component; a component is what it says of the query's name. |
| `QueryCache` | cache layer, forward leaf, zones, timeout | a query is `Decide`, `Get`, `Forward`, an answer, `Insert`; a zone edit is `BuildZones`, `StoreZones`, `ClearCache`, and the edits do not overlap each other (how overlapping reloads part from their table is what `AdminLists` and `UpstreamPool` are about); an answer is the authority that gave it. |
| `UpstreamPool` | pool, health, upstream and settings handlers | a query holds the pool it took; `Answers`, `Fails` end an attempt; handlers are `get`, `update`, `store`, `list`, `connect`, and `HandlerFails` ends one at any of them. Any permutation a selector may return is possible. `ServerNameOk` is what `connect` needs of a TLS name, which is more than the form asks. `apart` (history) is what overlaps and failures may have left apart and no lone edit has mended. |
| `ConfigSync` | snapshot, syncer, applier | `ReadSection` per table, `WriteSection` per statement, `SwapSection` per seam; a version is the content it is a hash of. |
| `QueryLog` | start, listeners, telemetry sink, writer, purger, stop | `Prepare` to `SpawnSubsystems` are `run_until_ready` in order, with the sockets bound one by one (`BindReusePort`) or as one (`BindSingle`), and `StartFails` its `?`s; UDP handlers and TCP connections are `task`; the writer's program counter follows `run`, `final_drain` and `flush`; `Exit` is the end of `tracker.wait` or of the drain timeout. The table is a set of events, since an event's id is its place in the order of recording; a purge deletes the `Oldest` of the expired ones. |
| `DnsCodec` | `codec/*` | no state: one operator per function, on sequences of octets; a cursor is an offset or `Failed`, a `u32` a pair of 16-bit halves. |
| `NameTables` | local records, zones: validation, indexes, matching | no state: the indexes are functions built by the folds of the code; `Snapshots` has one index for every order a hash map may yield. |
| `ListParse` | the two blocklist grammars | no state: a body is a sequence of lines of tokens. |
| `DnsReply` | a message from the socket to the reply, over the three above | `Receive` parses and may reject; `AnswerLocal`/`MissLocal`, `AnswerBlocked`, `AnswerCached`, `AnswerForwarded`, `AnswerFailed`, `RejectionPolicy` are the stages' replies; `Send` truncates and frames; `LocalAdd`, `LocalRemove` and `Restart` change and reload the records; `Warm`, `StoreName`, `Forget` are the reverse cache. |
| `Credentials` | | an abstract specification: a credential is issued once, ends once and for good, and lets a request through only if it was good when the request came. |
| `WebAccess` | guards, sessions, API keys, wizard, users | a request is a program counter over its statements (`Find`, `Touch`, `Delete`, `DeleteExpired`, `Verify`, `InsertSession`, ...); `Arrive` passes the guards that decide without a statement, in the router's order; `Upsert` and `DeleteByUsername` are a sync's changes of users. `Promise` is the refinement mapping to `Credentials`. |
| `LiveView` | statistics, broadcast, log page and stream | `Increment`, `RecordName`, `Enqueue`, `Publish` are `TelemetrySink::record`; a browser is `Open`, `Subscribe`, `Load`, `Receive`, `Older`, `Close`; the ring is the last `Capacity` events of `sent`. A page's rows come in a member of `NewestFirst`, of which there is one. |
| `BlocklistScheduler_proofs`, `QueryCache_proofs`, `UpstreamPool_proofs`, `ConfigSync_proofs`, `QueryLog_proofs`, `WebAccess_proofs`, `LiveView_proofs` | | the theorems about the module they extend and their proofs. |
| `Decisions_proofs` | | the same for `AdminLists` and `DecisionStack` together, which is why the state machine of the lists has its own names (`ListsInit`, `ListsNext`, `ListsSpec`, ...). |
| `MC*` | | values of constants that a .cfg cannot express. |

The modules are connected where the components are: each treats its neighbours
as the actions they can take on the state it models (`DecisionStack` takes the
swaps that `AdminLists`, `BlocklistScheduler` and the others produce as atomic;
`QueryCache` takes the pool as an answer, a failure or silence; `ConfigSync` the
scheduler as its next listing; `LiveView` takes `QueryLog`'s writer and purger as
rows that come and go). `DnsReply` extends `ListParse`, which extends
`NameTables`, which extends `DnsCodec`.

## 3. The runs

| Run | Result | Shows |
|---|---|---|
| `BlocklistScheduler` | pass | `PrimaryIsOldest`: the live map blocks exactly what installed sources name and credits the oldest. `CacheNeverPoisoned`: an empty 200 never replaces a saved body. `LiveSourcesAreSaved`: offline copies exist. `EditNotForgotten`: no lost wake-up. `InstallsWholeListing`: a refresh installs what it listed, all of it, or nothing. |
| `BlocklistSchedulerLive` | pass | `ConvergesFromConsistentStore`: whatever failed, the live set reaches the configuration once things are quiet. |
| `BlocklistSchedulerStuck` | violation | the same without the proviso on the stored validators. |
| `AdminLists` | pass | `MirrorsUnlessDisturbed`, `StoresOwnEdit`. |
| `DecisionStack` | pass | `DecisionIsAtomic` for at most one overlapping change; `StandingDecisionHolds` for any number. |
| `QueryCache` | pass | `OnlyStraddlersAreStale`, `StaleAnswersExpire`, `EveryQueryIsAnswered`. |
| `UpstreamPool` | pass | `FailoverFits` in the request timeout; `MasksFailures` up to the budget; `PoolFollowsEdits`: whatever overlapped, failed or was dropped before, an edit that runs alone leaves the pool as the enabled rows that work and whose TLS name is valid, and a save that runs alone the live settings as their row. |
| `ConfigSync` | pass | `VersionStandsForState`: no 304 can freeze a mix; `WholeSections`: each live section is one the primary had; `EventuallyMirrors`. |
| `QueryLog` | pass | `LossesAreCounted`, `BufferedTailIsWritten`, `RetentionHolds`, `StopsByItself`. |
| `DnsReply` | pass | `RepliesDecode`, `FitsTransport`, `EdnsHonoured`: what is sent is a whole message with the client's id, question and OPT, within its limit. `HitAgesOnlyTtls`: a hit is the upstream's reply, aged. `AuthorityIsRight`: records, reverse index, longest zone suffix and parsed block list answer for exactly their names, against definitions that go by the rows, the zones and the list's lines and use no index. `HostNamesFollowRecords`: host names on the pages follow the records but for lookups that straddle a flush. |
| `WebAccess` | pass | `KeepsPromise`: the refinement of `Credentials`. `InsideLimits`, `ActiveSessionSurvives`: the two expiries from either side. `OneFirstAdmin`, `MutationsAreAuthorised`, `SessionIsItsOwners`. |
| `LiveView` | pass | `FiguresCoverRows`, `HistoryIsWhole`, `NothingTwice`. |

### Finding

`handle_modified` stores the validators of a response whose body it failed to
save. Later 304s are then answered with the older body, or none, until the list
changes (`BlocklistSchedulerStuck`).

Observations that have no run of their own. Where the code and a comment differ:

- Two admin requests on one list that overlap can leave memory behind SQLite
  without any failure, until the next edit of that list or a restart: nothing
  orders one handler's `load_all` and store with the other's. SPEC.md:296 says
  the two are kept in agreement; `MirrorsUnlessDisturbed` states the part that
  holds. The reloads of local records, zones and the upstream pool have the same
  shape.
- `unblock` (`web/lists.rs:92`) takes a blacklisted name off the blacklist and
  returns; if an aggregated list names it too, it stays blocked, though the toast
  says it resolves on the next query.
- The query-log writer drains on the token that stops the listeners, not after
  them: an event of a query still in service is lost and not counted, while
  `query_log_writer.rs:9` says a graceful stop never loses the tail of the log.
  `BufferedTailIsWritten` states the part that holds.
- The log page reads its history and then subscribes; `web/live_log.rs:16` calls
  it subscribe-then-render. A query that is in the table before it is broadcast
  can be shown twice (`straddle`), one broadcast in between and written later is
  not shown until the page is opened again.
- The comment on `Name::skip_rr` says that following pointers cannot loop; it
  can, and the limit on hops ends it.
- The comment on `LatencyWeightedSelector` says failover walks every upstream;
  `forward_sequential` stops after `max_attempts`.
- The comment on `store_forward_zones` says in-flight queries finish on the old
  snapshot; a zone query in flight when its zone is removed gets SERVFAIL, since
  the leaf looks the target up again.
- SPEC.md 13.4 says a query never sees a torn set; a secondary that stops in the
  middle of a row-by-row section and starts again serves one until the next
  apply succeeds. `WholeSections` states the part that holds.

Other things a maintainer may want to know:

- The DNS loops serve before the admin server is bound. If that fails, the
  process ends with the events it has taken in; `LossesAreCounted` excludes
  that. A signal before the start is over meets no handler.
- A forwarded reply carries the question in lower case, not as the client
  spelled it; synthesized ones echo it.
- "home." and "home.." are different names to UNIQUE(name, type) and the same
  name once parsed; the later row wins in the index.
- A failing lookup in the CSRF guard counts as no session, and the request goes
  on to the extractor without a token having been asked for
  (`MutationsAreAuthorised` names the case).
- Two requests at the edge of a session's expiry: one renews it, the other, which
  read it before, deletes it. A logout whose DELETE fails leaves the row, and a
  password changed by a sync leaves the sessions (`delete_for_user` has no
  caller).
- A failing row in "apply to all zones" leaves the rows written so far and the
  zone set as it was.
- The form for an upstream takes any non-empty TLS name. One that is not a valid
  name is stored and enabled, and the pool leaves that upstream out at every
  rebuild with no more than a log line, while `web/upstreams.rs:12` says that an
  entry can never be silently ineffective. `PoolFollowsEdits` says that, of the
  rows that work, only these are missing.
- An open event stream holds a stop until the drain timeout; so do a TCP peer
  that does not read its reply and a refresh in progress.
- The figures of a page are not of one moment: the counters are read one by one.
- A query in flight across a route swap and the flush that follows stores the
  old authority's answer after the flush. `OnlyStraddlersAreStale` says that
  nothing else can, `StaleAnswersExpire` for how long.
- moka keeps the first deadline of an entry that is replaced while it lives; the
  model has it (`Stored`).
- Two swaps during one decision can give an answer no state called for.
- A removed blocklist stays live while another source keeps every snapshot
  incomplete; the code documents this.
- `apply_forward_zones` never updates the `sort_order` of an existing zone.
- An upstream that could not be connected to is tried again only at the next
  rebuild of the pool.
- `theme_toggle` writes back the whole settings row it read, so a save in between
  is undone in SQLite while it stays in force in memory.

### Bounds

Each bound lets the case its properties are about happen, and one more actor or
step than the case needs.

- `BlocklistScheduler`: two lists that share a domain, each with a version that
  parses to nothing; three edits so that a list can be added, toggled and
  removed during a cycle; each kind of fault once. The attribution, ordering and
  write-order properties are proved for all values as well. The liveness run has
  one list, two ids (so that it can be removed and added again) and two new
  bodies (so that it can return to an earlier one).
- `AdminLists`: two handlers and three edits: an overlap, and an edit that finds
  its traces. Proved for any number.
- `DecisionStack`: one query, since the stack writes nothing shared; three swaps
  are one more than needed to break atomicity. Proved for any number.
- `QueryCache`: two queries of one name (entries of different names do not
  interact), a TTL of zero and one above the maximum, two sets of bounds, a
  timeout of one tick and enough ticks for an entry to outlive both.
- `UpstreamPool`: four upstreams the form takes, of which two are dead, so that a
  failover budget of one can be used up, and one has a malformed TLS name; one
  without its TLS name and one that is a host name, which the form refuses; a
  fan-out of two, and forms that say zero; two handlers (`MCUpstreamPool` makes
  them symmetric), three edits and one failure: two edits to part row, settings and
  pool and one to mend them; the request timeout exceeds two attempts by one tick,
  as 5 s do 2 x 2 s. One query, since queries share the health table only, which no
  property is about.
- `ConfigSync`: two rows per table, so that a section has a middle; one edited
  section for each way of applying one (one statement, list, columns one by one,
  remove and insert); two edits, a failure and a restart.
- `QueryLog`: two UDP sockets with a permit each and one connection, a channel
  and a batch of two and three queries (an event more than the channel holds), a
  purge of two rows in batches of one, one failure or edit. Nothing takes a day,
  so the clock may advance under an event once.
- `DnsReply`: `MCDnsReply` has a message for each case the parser and the scans
  tell apart: names in mixed case, compressed, at their limits and beyond them,
  OPTs with sizes on either side of 512 and of 1232, replies from upstream of
  595, 1232 and 1233 octets, cookies of every length that
  matters, a record in front of one, reverse names of both families, bad headers
  and counts; rows that are equal but for case or a trailing dot, exact
  and wildcard, that share an address; up to four of them at a time; nested
  zones; a list of each format with comments; replies with TTLs below an entry's
  age and with the high bit, and chains of compressed owners up to the hop limit. The codec has no state, so one message at a time is enough.
- `WebAccess`: two requests overlap, one session and one key are issued and end,
  two users so that one can take the other's name or id; the clock passes both
  expiries, and the threshold and the lag are a tick. Within these limits a session
  is renewed to one value only: several renewals to different values, and two of
  them stored in the wrong order, are left to the proofs of `ActiveSessionsSurvive`
  and `SessionsStayInside`, which hold for all limits.
- `LiveView`: two threads, three events, a ring, a shard and a page of one and a
  channel of two, so that each of them overflows; one browser, since browsers
  share nothing they write.

`CHECK_DEADLOCK FALSE` is set where the bounds let every actor come to rest
(used-up edits and queries, a stopped process), which is no deadlock of the
program.

### Fairness

Only what the code's scheduling guarantees is fair, and always weakly.

- `BlocklistScheduler`: tokio polls a ready task, the sleep ends, a handler runs
  to its trigger or is dropped. Nothing makes admins, publishers or operators act.
- `QueryCache`: each query's own steps, and the clock that ends its timeout; the
  upstream need never answer.
- `ConfigSync`: the poll interval ends, the primary answers what is not counted
  as a fault, a triggered scheduler gets to its listing.
- `QueryLog`: some task that can go on does so. Peers need not read or send.

Failures are bounded, so "eventually" means after the last one. `DnsReply`,
`WebAccess`, `LiveView`, `UpstreamPool`, `AdminLists` and `DecisionStack` state
safety only.

## 4. The proofs

TLAPS proves, for every value of the constants that satisfies the module's
ASSUME:

- `BlocklistScheduler_proofs`: `Typing`, and from the inductive invariant `IInv`
  the theorems `OldestIsPrimary`, `CacheStaysGood`, `OfflineCopies`,
  `WritesInStep`, `NoLostWakeUp` and the action property `OnlyWholeListings`.
- `Decisions_proofs`: of the admin lists, `ListsTyping`, `Mirrors` and the action
  property `OwnEditTakesEffect`; of the decision stack, `Typing`,
  `AtomicDecision`, `StandingDecision`.
- `QueryCache_proofs`: `Typing`, `StaleByStraddlersOnly`, `StaleIsServedBriefly`.
- `UpstreamPool_proofs`: `Typing`, `FailoverIsInTime`, `FailuresAreMasked`,
  `EditsTakeEffect`.
- `ConfigSync_proofs`: `Typing`, `VersionIsTheState`, `SectionsAreWhole`.
- `QueryLog_proofs`: `Typing`, `LossesCounted`, `TailWritten`, `RetentionKept`.
- `WebAccess_proofs`: `Typing`, `FirstAdminOnce`, `SessionsHaveTheirOwners`,
  `ActiveSessionsSurvive`, `EditsAreAuthorised`, the action property
  `SessionsStayInside`, and `Refinement`: `WebAccess` implements `Credentials`.
- `LiveView_proofs`: `Typing`, `FiguresAreCovered`, `HistoryWhole`,
  `NothingComesTwice`, and two action properties that no run checks:
  `FiguresRise` (`FiguresNeverFall`: what a browser sees of a counter does not go
  down while its page is open) and `NothingIsRewritten` (counts, broadcast and
  row ids only grow; ids are not used again after a purge).

In each module `Invariance` is the theorem `Spec => []IInv` the others follow
from (`ListsInvariance` and `ListsInv` for the lists). What the ASSUMEs ask of the constants is what the code has: a failover
budget and an attempt timeout that fit the request timeout (2 x 2 s in 5 s);
capacities and batches of at least one; a retention of at least a day, since the
settings form refuses 0; a largest TTL bound (the code's are 32-bit numbers, so
there is one); session ids and key ids that differ, being from two tables; a
renewal threshold between the lag of a statement and the idle limit.

Why the invariants have to be stronger than the properties:

- *Scheduler.* `PrimaryIsOldest` is about the installed map, which is built over
  many steps: `Attribution` says the same of the map under construction, and is
  preserved because sources are merged in ascending order (`InOrder`) and because
  the URL of an id in use never changes (`IdsHandedOut`, from AUTOINCREMENT).
  `GoodBodies` follows a body from the fetch to the table. `WholeListing` says a
  complete cycle lacks only what it has yet to reach. `MergedIsSaved`,
  `WrittenInStep` and `WakeUpPending` hold as long as the fault they exclude has
  not been spent, which `BudgetBound` makes a stable fact.
- *Admin lists.* A lone handler's load is what the table holds
  (`LoneLoadIsFresh`), because nobody else of its list is in flight
  (`AloneIsAlone`); an undisturbed list differs from its table only behind a
  statement (`MirrorsUntilWritten`); the last writer of a domain finds its edit
  in the table and then in its load (`OwnEditSeen`).
- *Decision stack.* `Pending` is the answer a query gets if nothing changes any
  more. With no change so far, all it read still holds (`ReadsHold`); a change
  moves `Pending` to the new state's answer or leaves it (`OneChange`). For any
  number of changes, each stage that lets a query through does so because some
  state since the start called for that (`LetThrough`).

- *Cache.* A query that is past its decision goes where its name is routed to or
  has seen the routes change (`RoutedOrStraddling`), which the flush alone does
  not give: the edit swaps first and clears later. How long a stale answer lives
  takes three clocks: when its query came (`QueriesAreInTime`, `MisroutedIsOld`),
  how far ahead a deadline can be (`DeadlinesAreNear`), and the two together at
  the insert (`StaleDeadlines`).
- *Upstream pool.* The age of a query is bounded by the attempts it has made
  (`AgeIsAttempts`), those by the budget or the fan-out (`AskedAtOnce`), and those
  that are through were dead (`TriedHaveFailed`), all on the pool the query took.
  For the edits, `LoneHandlers` says what a handler that has met no other can rely
  on at each of its awaits (`ReliesOn`), and `AloneMeansAlone` that nobody else is
  at work; what is not `apart` agrees while nobody is (`Together`).
- *Config sync.* `AppliedSoFar` says what each section already applied has left in
  the table, the memory, the pool and the wake-up; at the last section that is the
  state the version is taken for. A section is whole because the snapshot's
  sections come from the primary's history (`SnapshotIsPast`) and because a table
  replaced in one transaction is never half written (`ReplacedAreWhole`).
- *Query log.* Batch and channel are one pipe (`Pipe`); receiving leaves it as it
  is, recording appends, a flush takes its head. Ids are distinct along the pipe
  and apart from those saved (`OneIdEach`), so that lengths and cardinalities add
  up. `TailIsOnItsWay` follows the buffered events through the drain, where a batch
  that is not full shows that the channel was empty. Retention holds because what
  is under way is at most a day old and no purge has reached that day
  (`UnderWayIsRecent`).
- *Web access.* `Ties` connects a request to the rows it has seen: a credential
  that is good now was good when the request came (`Since`), what it hands to its
  next statement is at most a lag old (`Timely`), the id a login verified is still
  the user's or nobody's (`Verified`, from `UserIds`: ids are given out once), and
  an edit behind the CSRF guard has the token (`Tokened`). `SessionRowsAreBegun`
  connects a row to the session's history. For the refinement, each step is shown
  to move the status of at most one credential, forward, and to let a request
  through only on one that was good when it came.
- *Live view.* The figures are compared with rows, so both are counted as sets of
  events: a counter is the number of events whose increment of it is done
  (`CountsAreExact`), a tracked name the number of events it was recorded for
  (`TopsAreExact`), and a live row's event is in those sets because a thread
  broadcasts last (`SentOnce`, `OneThreadEach`). A snapshot is read after its row,
  so each figure covers all that had been broadcast up to the receiver
  (`FiguresFollow`); after a lag this is not so any more, but then a row is still to
  come, and with it the next snapshot. That figures end at the counters takes the
  converse, that an event no thread is recording was broadcast (`SentOrRecorded`).
  The history is whole because ids are places in the queue (`TableIsQueued`), so
  that a row's place never changes, and because the cursor is the last id loaded
  (`HistoryFollows`). For the seam, `SeamHolds` has to speak of the rows a page
  may still load, not only of those it has: whatever is below the cursor was
  broadcast before the stream began, or was noted when the page was read.

Each invariant was model-checked on the instance of its module's run before it
was proved. Each invariance proof goes action by action; steps that leave the variables of a
conjunct alone are dispatched by one lemma.

Model-checked only: all liveness (`ConvergesFromConsistentStore`,
`EveryQueryIsAnswered`, `EventuallyMirrors`, `StopsByItself`), which is out of
the prover's reach; what the recursive operators of `DnsCodec` compute, for which
the prover has no induction, and with it the six properties of `DnsReply`, which sits on
recursive operators; and that `NewestFirst` has a member for every page, which is
an induction over a page's size (the proofs hold for any member; that `Open` and
`Older` are taken on the instance shows it there). All other properties of the
runs are theorems.

## 5. What is not modelled

- HTTP, TLS, JSON and decompression; the wire forms of DoT and DoH.
- Cryptography (`web/crypto.rs`): a password, token or cookie verifies or not.
- The text of a name before it is split into labels, and of an address before it
  is parsed; hash tables; the latency average and the weights of a selector (any
  order is allowed instead); the token bucket of the rate limiter (a query is
  admitted or turned away).
- Connection pooling and how migrations are run. Their tables, constraints and
  seeds are in the models.
- Pages, formatting, charts, icons, the command line.
- Wall-clock lengths other than the ones compared with each other.

## 6. Plan

Done, in order of importance: `BlocklistScheduler`, `AdminLists`,
`DecisionStack`, `QueryCache`, `UpstreamPool`, `ConfigSync`, `QueryLog` with the
start and the stop, `DnsCodec` to `DnsReply`, `Credentials` and `WebAccess`,
`LiveView`; and proofs of all safety properties but those of `DnsReply`. What
could follow:

1. An abstract specification of write-through (a table and its mirror) that
   `AdminLists` implements while its requests do not overlap, and an abstract
   mirror that `ConfigSync` implements.
2. More action properties from the invariants that are proved: which steps may
   change the live set, the pool, the version.
3. The rate limiter's token bucket.
