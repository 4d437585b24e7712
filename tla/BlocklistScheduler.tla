------------------------- MODULE BlocklistScheduler -------------------------
(***************************************************************************)
(* The blocklist refresh scheduler (src/src/blocklist/scheduler.rs), the   *)
(* two tables it shares with the admin UI (src/src/storage/blocklists.rs), *)
(* the UI handlers that edit them (src/src/web/blocklists.rs) and the live *)
(* AttributedSet the DNS path reads (src/src/resolver/matchset.rs).        *)
(*                                                                         *)
(* One action is one await point of the code: everything between two       *)
(* awaits that another task could observe happens in one step.  A body of  *)
(* a list is its version number; Names gives the domains its parser finds. *)
(* A member of Urls is a URL with its format, so the parser is a function  *)
(* of the body.                                                            *)
(***************************************************************************)
EXTENDS Naturals

CONSTANTS
    Urls,        \* the URLs an admin may subscribe to
    Domains,     \* the domains lists may name
    Versions,    \* the bodies a URL may serve, as version numbers
    Names,       \* Names[u][v]: the domains parsed from version v of u
    Validated,   \* the URLs whose server sends an ETag / Last-Modified
    MaxId,       \* bound: row ids AUTOINCREMENT may hand out
    MaxHandlers, \* bound: UI handlers between their write and their trigger
    Budget       \* bounds on what the environment may do, see BudgetKinds

None == 0
Ids == 1..MaxId
OptId == Ids \cup {None}
OptVersion == Versions \cup {None}

\* "edit": subscriptions changed; "publish": a URL serves another body;
\* "net": a fetch fails; "db": a statement fails; "stop": the process ends;
\* "drop": the browser goes away while its handler waits for SQLite.
BudgetKinds == {"edit", "publish", "net", "db", "stop", "drop"}

ASSUME ConstantsAssumption ==
    /\ Urls # {}
    /\ Versions \subseteq Nat \ {0}
    /\ MaxId \in Nat
    /\ MaxHandlers \in Nat
    /\ Names \in [Urls -> [Versions -> SUBSET Domains]]
    /\ Validated \subseteq Urls
    /\ Budget \in [BudgetKinds -> Nat]

VARIABLES
    \* SQLite: survives a crash.
    present,       \* ids of the rows of table blocklists
    enabled,       \* those with enabled = 1
    url,           \* column url (UNIQUE; never updated)
    etag,          \* columns etag / last_modified: version they stand for
    cache,         \* table blocklist_cache: version of the saved body
    lastId,        \* AUTOINCREMENT high-water mark
    \* Web servers.
    served,        \* version each URL serves now
    \* Process memory.
    live,          \* AttributedSet: domain -> primary blocklist_id
    installed,     \* contributions returned by the last install()
    phase,         \* where the scheduler task is
    todo,          \* the source rows refresh_once has read and not reached
    current,       \* the source it is working on
    body,          \* the body of the 200 being stored
    merged,        \* Aggregator.merged
    contributions, \* Aggregator.contributions: version each source added
    complete,      \* complete_snapshot
    notified,      \* the permit stored in the Notify
    handlers,      \* handlers that have written and not yet triggered
    cancelled,     \* the shutdown token
    \* History and bounds.
    unseen,        \* the subscriptions changed after the last list_enabled
    listed,        \* the sources this refresh cycle read from it
    budget

dbVars == <<present, enabled, url, etag, cache, lastId>>
cycleVars == <<todo, current, body, merged, contributions, complete>>
vars == <<dbVars, served, live, installed, phase, cycleVars,
          notified, handlers, cancelled, unseen, listed, budget>>

Phases == {"down", "bootList", "bootLoad", "list", "fetch", "save", "meta",
           "fallback", "idle", "stopped"}

\* A row of list_enabled(), as refresh_once holds it across its awaits.
SourceRow == [id : Ids, etag : OptVersion]

TypeOK ==
    /\ present \in SUBSET Ids
    /\ enabled \in SUBSET present
    /\ url \in [Ids -> Urls]
    /\ etag \in [Ids -> OptVersion]
    /\ cache \in [Ids -> OptVersion]
    /\ lastId \in Nat
    /\ served \in [Urls -> Versions]
    /\ live \in [Domains -> OptId]
    /\ installed \in [Ids -> OptVersion]
    /\ phase \in Phases
    /\ todo \in SUBSET SourceRow
    /\ current \in OptId
    /\ body \in OptVersion
    /\ merged \in [Domains -> OptId]
    /\ contributions \in [Ids -> OptVersion]
    /\ complete \in BOOLEAN
    /\ notified \in BOOLEAN
    /\ handlers \in Nat
    /\ cancelled \in BOOLEAN
    /\ unseen \in BOOLEAN
    /\ listed \in SUBSET Ids
    /\ budget \in [BudgetKinds -> Nat]

NoContribution == [i \in Ids |-> None]
EmptySet == [d \in Domains |-> None]

Spend(kind) ==
    /\ budget[kind] > 0
    /\ budget' = [budget EXCEPT ![kind] = @ - 1]

\* A statement of the storage layer either runs (Ok) or returns an error.
DbFails == Spend("db")

Booting == phase \in {"bootList", "bootLoad"}
Running == phase # "down" /\ ~Booting

-----------------------------------------------------------------------------
(* Aggregation: src/src/blocklist/aggregate.rs.                            *)

\* Mutation: insert() instead of entry().or_insert().
LastWriterWins(map, id, names) ==
    [d \in Domains |-> IF d \in names THEN id ELSE map[d]]

\* Aggregator::add, entry(name).or_insert(source_id): the first writer wins.
OrInsert(map, id, names) ==
    [d \in Domains |-> IF d \in names /\ map[d] = None THEN id ELSE map[d]]

Add(id, version) ==
    /\ merged' = OrInsert(merged, id, Names[url[id]][version])
    /\ contributions' = [contributions EXCEPT ![id] = version]

\* Aggregator::new.
NewAggregator ==
    /\ merged' = EmptySet
    /\ contributions' = NoContribution

\* Aggregator::install: one atomic store of the merged map.
InstallAggregator ==
    /\ live' = merged
    /\ installed' = contributions

\* list_enabled() orders by id: the loop takes the least one left.
NextSource(s) == s \in todo /\ \A t \in todo : s.id <= t.id

EnabledRows == {[id |-> i, etag |-> etag[i]] : i \in enabled}

-----------------------------------------------------------------------------
(* Process start and stop.                                                 *)

Init ==
    /\ present = {} /\ enabled = {} /\ lastId = 0
    /\ url = [i \in Ids |-> CHOOSE u \in Urls : TRUE]
    /\ etag = NoContribution /\ cache = NoContribution
    /\ served \in [Urls -> Versions]
    /\ live = EmptySet /\ installed = NoContribution
    /\ phase = "down"
    /\ todo = {} /\ current = None /\ body = None
    /\ merged = EmptySet /\ contributions = NoContribution
    /\ complete = FALSE
    /\ notified = FALSE /\ handlers = 0 /\ cancelled = FALSE
    /\ unseen = FALSE /\ listed = {}
    /\ budget = Budget

\* ResolverState::hydrate starts with an empty blocklist; load_from_cache is
\* awaited before the listeners and the admin server start.
Boot ==
    /\ phase = "down"
    /\ phase' = "bootList"
    /\ UNCHANGED <<dbVars, served, live, installed, cycleVars, notified,
                   handlers, cancelled, unseen, listed, budget>>

\* load_from_cache, list_enabled(): an error skips the offline load.
BootList ==
    /\ phase = "bootList"
    /\ \/ /\ todo' = EnabledRows
          /\ phase' = "bootLoad"
          /\ UNCHANGED budget
       \/ /\ DbFails
          /\ phase' = "list"
          /\ UNCHANGED todo
    /\ NewAggregator
    /\ UNCHANGED <<dbVars, served, live, installed, current, body, complete,
                   notified, handlers, cancelled, unseen, listed>>

\* load_from_cache, the loop: a source without a readable body is skipped.
BootLoad(s) ==
    /\ phase = "bootLoad"
    /\ NextSource(s)
    /\ todo' = todo \ {s}
    /\ \/ /\ cache[s.id] # None
          /\ Add(s.id, cache[s.id])
          /\ UNCHANGED budget
       \/ /\ cache[s.id] = None
          /\ UNCHANGED <<merged, contributions, budget>>
       \/ /\ DbFails
          /\ UNCHANGED <<merged, contributions>>
    /\ UNCHANGED <<dbVars, served, live, installed, phase, current, body,
                   complete, notified, handlers, cancelled, unseen, listed>>

\* load_from_cache, the end: what was loaded is installed unconditionally;
\* run() then starts with an immediate refresh_once.
BootInstall ==
    /\ phase = "bootLoad"
    /\ todo = {}
    /\ InstallAggregator
    /\ phase' = "list"
    /\ UNCHANGED <<dbVars, served, cycleVars, notified, handlers, cancelled,
                   unseen, listed, budget>>

\* What the end of the process does to its memory.
LoseMemory ==
    /\ phase' = "down"
    /\ live' = EmptySet /\ installed' = NoContribution
    /\ todo' = {} /\ current' = None /\ body' = None
    /\ merged' = EmptySet /\ contributions' = NoContribution
    /\ complete' = FALSE
    /\ notified' = FALSE /\ handlers' = 0 /\ cancelled' = FALSE
    /\ listed' = {}
    /\ UNCHANGED <<dbVars, served, unseen>>

Crash ==
    /\ phase # "down"
    /\ Spend("stop")
    /\ LoseMemory

\* A signal cancels the token once the subsystems are spawned.
Cancel ==
    /\ Running /\ ~cancelled
    /\ Spend("stop")
    /\ cancelled' = TRUE
    /\ UNCHANGED <<dbVars, served, live, installed, phase, cycleVars,
                   notified, handlers, unseen, listed>>

\* The tasks drained, or the drain timeout elapsed and the exit is forced.
Exit ==
    /\ cancelled
    /\ LoseMemory
    /\ UNCHANGED budget

-----------------------------------------------------------------------------
(* The admin UI's handlers: the database write, then refresh.trigger().    *)

Writes ==
    /\ Running
    /\ handlers < MaxHandlers
    /\ Spend("edit")
    /\ handlers' = handlers + 1
    /\ unseen' = TRUE
    /\ UNCHANGED <<served, live, installed, phase, cycleVars, notified,
                   cancelled, listed>>

\* add_blocklist; a duplicate URL is refused and changes nothing.
AddBlocklist(u) ==
    /\ Writes
    /\ lastId < MaxId
    /\ \A i \in present : url[i] # u
    /\ lastId' = lastId + 1
    /\ present' = present \cup {lastId + 1}
    /\ enabled' = enabled \cup {lastId + 1}
    /\ url' = [url EXCEPT ![lastId + 1] = u]
    /\ UNCHANGED <<etag, cache>>

\* blocklist_remove; the cache row goes with it (ON DELETE CASCADE).
RemoveBlocklist(i) ==
    /\ Writes
    /\ present' = present \ {i}
    /\ enabled' = enabled \ {i}
    /\ etag' = [etag EXCEPT ![i] = None]
    /\ cache' = [cache EXCEPT ![i] = None]
    /\ UNCHANGED <<url, lastId>>

\* blocklist_toggle; an UPDATE of an absent id changes no row.
ToggleBlocklist(i, on) ==
    /\ Writes
    /\ enabled' = IF on /\ i \in present THEN enabled \cup {i}
                                         ELSE enabled \ {i}
    /\ UNCHANGED <<present, url, etag, cache, lastId>>

\* Mutation: notify_waiters() instead of notify_one(): nothing is stored.
TriggerWaitersOnly ==
    /\ handlers > 0
    /\ handlers' = handlers - 1
    /\ notified' = (phase = "idle")
    /\ UNCHANGED <<dbVars, served, live, installed, phase, cycleVars,
                   cancelled, unseen, listed, budget>>

\* RefreshTrigger::trigger = Notify::notify_one: a permit is kept when
\* nobody waits, and a second one is merged into it.
Trigger ==
    /\ handlers > 0
    /\ handlers' = handlers - 1
    /\ notified' = TRUE
    /\ UNCHANGED <<dbVars, served, live, installed, phase, cycleVars,
                   cancelled, unseen, listed, budget>>

\* The connection closes and the handler's future is dropped at its await:
\* the statement has run, the trigger is never fired.
HandlerDropped ==
    /\ handlers > 0
    /\ Spend("drop")
    /\ handlers' = handlers - 1
    /\ UNCHANGED <<dbVars, served, live, installed, phase, cycleVars,
                   notified, cancelled, unseen, listed>>

\* blocklist_refresh: the button only triggers.
RefreshNow ==
    /\ Running /\ ~notified
    /\ Spend("edit")
    /\ notified' = TRUE
    /\ UNCHANGED <<dbVars, served, live, installed, phase, cycleVars,
                   handlers, cancelled, unseen, listed>>

\* A list's owner publishes another body.
Publish(u, v) ==
    /\ served[u] # v
    /\ Spend("publish")
    /\ served' = [served EXCEPT ![u] = v]
    /\ UNCHANGED <<dbVars, live, installed, phase, cycleVars, notified,
                   handlers, cancelled, unseen, listed>>

-----------------------------------------------------------------------------
(* run(): the select loop.                                                 *)

SleepElapsed ==
    /\ phase = "idle"
    /\ phase' = "list"
    /\ UNCHANGED <<dbVars, served, live, installed, cycleVars, notified,
                   handlers, cancelled, unseen, listed, budget>>

Notified ==
    /\ phase = "idle"
    /\ notified
    /\ notified' = FALSE
    /\ phase' = "list"
    /\ UNCHANGED <<dbVars, served, live, installed, cycleVars, handlers,
                   cancelled, unseen, listed, budget>>

Stop ==
    /\ phase = "idle"
    /\ cancelled
    /\ phase' = "stopped"
    /\ UNCHANGED <<dbVars, served, live, installed, cycleVars, notified,
                   handlers, cancelled, unseen, listed, budget>>

-----------------------------------------------------------------------------
(* refresh_once().                                                         *)

\* list_enabled(): the only error that aborts a cycle.
ListEnabled ==
    /\ phase = "list"
    /\ \/ /\ todo' = EnabledRows
          /\ listed' = enabled
          /\ unseen' = FALSE
          /\ NewAggregator
          /\ complete' = TRUE
          /\ phase' = "fetch"
          /\ UNCHANGED budget
       \/ /\ DbFails
          /\ phase' = "idle"
          /\ UNCHANGED <<todo, merged, contributions, complete, unseen, listed>>
    /\ UNCHANGED <<dbVars, served, live, installed, current, body, notified,
                   handlers, cancelled>>

\* refresh_source starts on the next row.
Take(s) ==
    /\ phase = "fetch"
    /\ NextSource(s)
    /\ todo' = todo \ {s}
    /\ current' = s.id
    /\ UNCHANGED <<dbVars, served, live, installed, complete, notified,
                   handlers, cancelled, unseen, listed>>

\* The server answers 304 when the validators of the request are current.
NotModified(s) == s.etag # None /\ s.etag = served[url[s.id]]

\* Mutation: handle_modified without its zero-domains guard.
FetchAnyBody(s) ==
    LET v == served[url[s.id]] IN
    /\ Take(s)
    /\ ~NotModified(s)
    /\ Add(s.id, v)
    /\ body' = v
    /\ phase' = "save"
    /\ UNCHANGED budget

\* handle_modified of a body that names at least one domain: it joins the
\* aggregator at once, and is stored by the next two steps.
FetchModified(s) ==
    LET v == served[url[s.id]] IN
    /\ Take(s)
    /\ ~NotModified(s)
    /\ Names[url[s.id]][v] # {}
    /\ Add(s.id, v)
    /\ body' = v
    /\ phase' = "save"
    /\ UNCHANGED budget

\* handle_modified of a body that names none: a soft failure.
FetchEmpty(s) ==
    /\ Take(s)
    /\ ~NotModified(s)
    /\ Names[url[s.id]][served[url[s.id]]] = {}
    /\ phase' = "fallback"
    /\ UNCHANGED <<body, merged, contributions, budget>>

\* handle_not_modified.
FetchNotModified(s) ==
    /\ Take(s)
    /\ NotModified(s)
    /\ phase' = "fallback"
    /\ UNCHANGED <<body, merged, contributions, budget>>

\* handle_fetch_error: refused, timed out, too large, another status.
FetchError(s) ==
    /\ Take(s)
    /\ Spend("net")
    /\ phase' = "fallback"
    /\ UNCHANGED <<body, merged, contributions>>

\* Mutation: the body is not saved when the source was disabled meanwhile.
SaveCacheIfEnabled ==
    /\ phase = "save"
    /\ phase' = "meta"
    /\ \/ /\ current \in enabled
          /\ cache' = [cache EXCEPT ![current] = body]
       \/ current \notin enabled /\ UNCHANGED cache
    /\ UNCHANGED <<present, enabled, url, etag, lastId, served, live,
                   installed, cycleVars, notified, handlers, cancelled,
                   unseen, listed, budget>>

\* save_cache: the foreign key refuses the body of a row removed meanwhile,
\* and an error is logged and passed over.
SaveCache ==
    /\ phase = "save"
    /\ phase' = "meta"
    /\ \/ /\ current \in present
          /\ cache' = [cache EXCEPT ![current] = body]
          /\ UNCHANGED budget
       \/ current \notin present /\ UNCHANGED <<cache, budget>>
       \/ DbFails /\ UNCHANGED cache
    /\ UNCHANGED <<present, enabled, url, etag, lastId, served, live,
                   installed, cycleVars, notified, handlers, cancelled,
                   unseen, listed>>

\* The validators the response carried.
ResponseValidators == IF url[current] \in Validated THEN body ELSE None

\* update_refresh_metadata: an UPDATE of a removed row changes nothing.
UpdateMetadata ==
    /\ phase = "meta"
    /\ phase' = "fetch"
    /\ \/ /\ current \in present
          /\ etag' = [etag EXCEPT ![current] = ResponseValidators]
          /\ UNCHANGED budget
       \/ current \notin present /\ UNCHANGED <<etag, budget>>
       \/ DbFails /\ UNCHANGED etag
    /\ UNCHANGED <<present, enabled, url, cache, lastId, served, live,
                   installed, cycleVars, notified, handlers, cancelled,
                   unseen, listed>>

\* Mutation: a source without a new body is left out of the snapshot.
AddCachedSkips ==
    /\ phase = "fallback"
    /\ phase' = "fetch"
    /\ UNCHANGED <<dbVars, served, live, installed, cycleVars, notified,
                   handlers, cancelled, unseen, listed, budget>>

\* add_cached_source: the saved body stands in; without one the cycle is
\* incomplete.
AddCached ==
    /\ phase = "fallback"
    /\ phase' = "fetch"
    /\ \/ /\ cache[current] # None
          /\ Add(current, cache[current])
          /\ UNCHANGED <<complete, budget>>
       \/ /\ cache[current] = None
          /\ complete' = FALSE
          /\ UNCHANGED <<merged, contributions, budget>>
       \/ /\ DbFails
          /\ complete' = FALSE
          /\ UNCHANGED <<merged, contributions>>
    /\ UNCHANGED <<dbVars, served, live, installed, todo, current, body,
                   notified, handlers, cancelled, unseen, listed>>

\* Mutation: whatever was gathered is installed.
FinishAlwaysInstalls ==
    /\ phase = "fetch"
    /\ todo = {}
    /\ InstallAggregator
    /\ phase' = "idle"
    /\ UNCHANGED <<dbVars, served, cycleVars, notified, handlers, cancelled,
                   unseen, listed, budget>>

\* The end of refresh_once: only a complete snapshot is installed.
FinishRefresh ==
    /\ phase = "fetch"
    /\ todo = {}
    /\ \/ complete /\ InstallAggregator
       \/ ~complete /\ UNCHANGED <<live, installed>>
    /\ phase' = "idle"
    /\ UNCHANGED <<dbVars, served, cycleVars, notified, handlers, cancelled,
                   unseen, listed, budget>>

-----------------------------------------------------------------------------

Fetch ==
    \E s \in todo : \/ FetchModified(s) \/ FetchEmpty(s)
                    \/ FetchNotModified(s) \/ FetchError(s)

Offline ==
    BootList \/ BootInstall \/ \E s \in todo : BootLoad(s)

Refresh ==
    \/ ListEnabled \/ Fetch \/ SaveCache \/ UpdateMetadata \/ AddCached
    \/ FinishRefresh

Loop == SleepElapsed \/ Notified \/ Stop

Admin ==
    \/ \E u \in Urls : AddBlocklist(u)
    \/ \E i \in Ids : RemoveBlocklist(i)
    \/ \E i \in Ids, on \in BOOLEAN : ToggleBlocklist(i, on)
    \/ RefreshNow

Next ==
    \/ Boot \/ Offline \/ Crash \/ Cancel \/ Exit
    \/ Admin \/ Trigger \/ HandlerDropped
    \/ \E u \in Urls, v \in Versions : Publish(u, v)
    \/ Loop \/ Refresh

Spec == Init /\ [][Next]_vars

\* tokio polls a ready task; the sleep ends; a handler runs to its end.
\* Nothing obliges an admin, a publisher or an operator to act.
Fairness ==
    /\ WF_vars(Offline)
    /\ WF_vars(Refresh)
    /\ WF_vars(SleepElapsed \/ Notified)
    /\ WF_vars(Trigger \/ HandlerDropped)

FairSpec == Spec /\ Fairness

-----------------------------------------------------------------------------
(* What the scheduler promises.                                            *)

Spent(kind) == Budget[kind] - budget[kind]

\* Source i, with the body the contributions ascribe to it, names d.
Claims(contribs, i, d) ==
    contribs[i] # None /\ d \in Names[url[i]][contribs[i]]

\* map gives each domain the least source that claims it, and only those.
AttributedToOldest(map, contribs) ==
    \A d \in Domains :
        /\ map[d] # None => Claims(contribs, map[d], d)
        /\ \A i \in Ids :
              Claims(contribs, i, d) => map[d] # None /\ map[d] <= i

\* aggregate.rs: "the lowest id wins the overlap".  Whatever edits, crashes
\* and failures happen around a refresh, the map the DNS path reads blocks a
\* domain exactly when an installed source names it, and credits the oldest.
PrimaryIsOldest == AttributedToOldest(live, installed)

\* handle_modified's guard: an empty 200 never replaces the last good body,
\* so the offline copy of a source always names some domain.
CacheNeverPoisoned ==
    \A i \in Ids : cache[i] # None => Names[url[i]][cache[i]] # {}

\* refresh_once: "install only complete snapshots".  A refresh that replaces
\* the live set does so with a non-empty contribution of every source it
\* listed, and with nothing else.
InstallsWholeListing ==
    [][phase = "fetch" /\ <<live, installed>>' # <<live, installed>> /\ phase' = "idle"
         => \A i \in Ids :
               IF i \in listed
               THEN installed'[i] # None /\ Names[url[i]][installed'[i]] # {}
               ELSE installed'[i] = None]_vars

\* The offline start: as long as no statement has failed, each subscribed
\* source that blocks anything now has a saved body to block with after a
\* restart.
LiveSourcesAreSaved ==
    Spent("db") = 0 =>
        \A i \in present : installed[i] # None => cache[i] # None

\* The validators sent with the next request stand for the body that a 304
\* will be answered with.
ValidatorsMatchCache ==
    \A i \in Ids : etag[i] # None => cache[i] = etag[i]

\* handle_modified writes the body and then its validators: they agree
\* between cycles unless a statement failed or the process died in between.
SavedInStep ==
    Spent("db") + Spent("stop") = 0 /\ phase # "meta" => ValidatorsMatchCache

\* RefreshTrigger::trigger: "the notification is stored".  When the loop goes
\* to sleep without having read a changed subscription, a wake-up is stored
\* or on its way; only a dropped handler or a failed listing loses it.
EditNotForgotten ==
    Spent("db") + Spent("drop") = 0 =>
        (unseen /\ phase = "idle" => notified \/ handlers > 0)

\* The process is up and every enabled source serves a usable body.
Quiet ==
    /\ Running /\ ~cancelled
    /\ \A i \in enabled : Names[url[i]][served[url[i]]] # {}

\* The live set is built from what the enabled sources serve now.
Converged ==
    \A i \in Ids :
        installed[i] = IF i \in enabled THEN served[url[i]] ELSE None

\* web/blocklists.rs: "the in-memory aggregated set converges to the new
\* configuration".  Once edits, failures and new bodies stop, it does.
ConvergesWhenQuiet == <>[]Quiet => <>[]Converged

\* The same, provided the stored validators stand for the saved bodies:
\* lost triggers, failed fetches, crashes and removals do no lasting harm.
ConvergesFromConsistentStore ==
    <>[](Quiet /\ (phase # "meta" => ValidatorsMatchCache)) => <>[]Converged

-----------------------------------------------------------------------------
(* The inductive invariant behind these properties: what the task relies on *)
(* while it is in the middle of a cycle.                                    *)

CyclePhases == {"fetch", "save", "meta", "fallback"}

\* Ids are handed out once, so the URL of an id in use never changes.
IdsHandedOut ==
    /\ lastId <= MaxId
    /\ \A i \in present : i <= lastId
    /\ \A s \in todo : s.id <= lastId
    /\ current <= lastId
    /\ \A i \in Ids :
          installed[i] # None \/ contributions[i] # None \/ cache[i] # None
              => i <= lastId

\* Sources are aggregated in ascending id order.
InOrder ==
    /\ \A s, t \in todo : s.id = t.id => s = t
    /\ \A s \in todo : \A i \in Ids : contributions[i] # None => i < s.id
    /\ phase \in {"save", "meta", "fallback"} =>
          current # None /\ \A s \in todo : current < s.id
    /\ phase = "fallback" =>
          \A i \in Ids : contributions[i] # None => i < current

\* The map under construction is attributed like the live one.
Attribution == AttributedToOldest(merged, contributions) /\ PrimaryIsOldest

\* No body without domains is in the cache, on its way there or merged.
GoodBodies ==
    /\ CacheNeverPoisoned
    /\ \A i \in Ids :
          contributions[i] # None => Names[url[i]][contributions[i]] # {}
    /\ phase \in {"save", "meta"} =>
          body # None /\ Names[url[current]][body] # {}

\* A cycle that is still complete lacks only what it has yet to reach.
WholeListing ==
    phase \in CyclePhases =>
        /\ \A s \in todo : s.id \in listed
        /\ \A i \in Ids : contributions[i] # None => i \in listed
        /\ phase = "fallback" => current \in listed
        /\ complete =>
              \A i \in listed : \/ contributions[i] # None
                                \/ \E s \in todo : s.id = i
                                \/ (phase = "fallback" /\ i = current)

\* An edit the current cycle did not read has its wake-up.
WakeUpPending ==
    unseen /\ phase \in CyclePhases \cup {"idle"} => notified \/ handlers > 0

\* What is merged is saved before the next source is reached.
MergedIsSaved ==
    \A i \in present :
        /\ installed[i] # None => cache[i] # None
        /\ contributions[i] # None =>
              cache[i] # None \/ (phase = "save" /\ i = current)

\* Validators and body part only between the two writes.
WrittenInStep ==
    /\ \A i \in Ids : etag[i] # None =>
          i \in present /\ (cache[i] = etag[i] \/ (phase = "meta" /\ i = current))
    /\ phase = "meta" /\ current \in present => cache[current] = body

\* A shutdown has been paid for, and no budget ever grows.
BudgetBound ==
    /\ \A k \in BudgetKinds : budget[k] <= Budget[k]
    /\ cancelled => Spent("stop") > 0

IInv ==
    /\ TypeOK /\ IdsHandedOut /\ InOrder /\ Attribution /\ GoodBodies
    /\ WholeListing /\ BudgetBound
    /\ Spent("db") = 0 => MergedIsSaved
    /\ Spent("db") + Spent("drop") = 0 => WakeUpPending
    /\ Spent("db") + Spent("stop") = 0 => WrittenInStep
=============================================================================
