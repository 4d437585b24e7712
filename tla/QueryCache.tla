----------------------------- MODULE QueryCache -----------------------------
(***************************************************************************)
(* Queries that pass the decision stack, on their way through the cache    *)
(* layer and the forward leaf (src/src/resolver/pipeline/cache_layer.rs,   *)
(* forward.rs, src/src/resolver/cache.rs), while the admin edits the       *)
(* conditional-forward zones and flushes the cache                         *)
(* (src/src/web/forward_zones.rs).                                         *)
(*                                                                         *)
(* A query reads the route of its name, looks into the cache, asks the     *)
(* authority of the route and stores the answer: four steps with awaits    *)
(* between them.  An edit writes the rows of the zones one by one, reads    *)
(* them back, stores the new routes and then clears the cache.  An answer  *)
(* is represented by the authority that gave it.                           *)
(*                                                                         *)
(* Each name stands for the names under the suffix of one seeded zone.     *)
(*                                                                         *)
(* A query that the rate limiter or the load shedder refuses changes       *)
(* nothing here; the concurrency cap is the number of slots.               *)
(***************************************************************************)
EXTENDS Naturals

CONSTANTS
    Names,       \* zones' names, outside local records and not blocked
    Queries,     \* slots of the concurrency limit
    Targets,     \* resolvers a zone can point at
    Pool,        \* the default upstream pool
    None,        \* no cache entry; no TTL to go by; no target
    Ttls,        \* TTLs of upstream answers
    NegativeCap, \* RuntimeSettings::negative_ttl_cap
    Bounds,      \* the cache_min_ttl / cache_max_ttl pairs in use over time
    Timeout,     \* ProtectiveConfig::request_timeout, in ticks
    MaxQueries,  \* bound: queries admitted
    MaxEdits,    \* bound: zone edits and settings edits
    MaxNow       \* bound: ticks of the clock

ASSUME ConstantsAssumption ==
    /\ Pool \notin Targets
    /\ Ttls \subseteq Nat /\ None \notin Nat
    /\ NegativeCap \in Nat
    /\ Names # {}
    /\ Bounds \subseteq {b \in [min : Nat, max : Nat] : b.min <= b.max}
    /\ \E b \in Bounds : \A c \in Bounds : c.max <= b.max
    /\ Timeout \in Nat \ {0}
    /\ MaxQueries \in Nat /\ MaxEdits \in Nat /\ MaxNow \in Nat

Authorities == Targets \cup {Pool}

\* A row of forward_zones.
Zone == [target : Targets \cup {None}, enabled : BOOLEAN]

\* list_enabled and ForwardZoneSet::build: who answers a name.  A zone that is
\* off, or has no target, leaves its names to the pool.
BuildZones(rows) ==
    [n \in Names |-> IF rows[n].enabled /\ rows[n].target # None
                     THEN rows[n].target ELSE Pool]

VARIABLES
    zones,     \* SQLite: the row of each zone
    \* ResolverState.
    route,     \* forward_zones: who answers a name; its targets have forwarders
    cache,     \* DnsCache: the entry of each name, or None
    bounds,    \* DnsCache.ttl_bounds
    \* A zone edit: how far it got, and what apply-all has still to write.
    edit, todo, form,
    \* The queries.
    pc, name,
    target,    \* forward_target, Pool when there is none
    expiry,    \* the expiry of the Store directive
    started,
    \* The clock, history and bounds.
    now,
    straddled, \* names of the queries under way at the last swap of the routes
    changedAt, \* when the route of a name last changed
    queries, edits

editVars == <<zones, edit, todo, form>>
queryVars == <<pc, name, target, expiry, started>>
history == <<straddled, changedAt>>
vars == <<route, cache, bounds, editVars, queryVars, now, history, queries, edits>>

\* stored_at, and the deadline moka keeps for the entry.
Entry == [authority : Authorities, storedAt : Nat, deadline : Nat]

TypeOK ==
    /\ route \in [Names -> Authorities]
    /\ cache \in [Names -> Entry \cup {None}]
    /\ bounds \in Bounds
    /\ zones \in [Names -> Zone]
    /\ edit \in {"idle", "write", "list", "clear"}
    /\ todo \in SUBSET Names
    /\ form \in Targets \cup {None}
    /\ pc \in [Queries -> {"idle", "decide", "get", "forward", "wait", "insert"}]
    /\ name \in [Queries -> Names]
    /\ target \in [Queries -> Authorities]
    /\ expiry \in [Queries -> Nat]
    /\ started \in [Queries -> Nat]
    /\ now \in Nat
    /\ straddled \in SUBSET Names
    /\ changedAt \in [Names -> Nat]
    /\ queries \in Nat /\ edits \in Nat

Init ==
    /\ route = [n \in Names |-> Pool]
    /\ cache = [n \in Names |-> None]
    /\ bounds \in Bounds
    /\ zones = [n \in Names |-> [target |-> None, enabled |-> FALSE]]
    /\ edit = "idle" /\ todo = {} /\ form = None
    /\ pc = [q \in Queries |-> "idle"]
    /\ name = [q \in Queries |-> CHOOSE n \in Names : TRUE]
    /\ target = [q \in Queries |-> Pool]
    /\ expiry = [q \in Queries |-> 0]
    /\ started = [q \in Queries |-> 0]
    /\ now = 0
    /\ straddled = {}
    /\ changedAt = [n \in Names |-> 0]
    /\ queries = 0 /\ edits = 0

Routed == {q \in Queries : pc[q] \in {"get", "forward", "wait", "insert"}}

-----------------------------------------------------------------------------
(* The queries.                                                            *)

\* The slot is free again and forgets the query.
Finish(q) ==
    /\ pc' = [pc EXCEPT ![q] = "idle"]
    /\ name' = [name EXCEPT ![q] = CHOOSE n \in Names : TRUE]
    /\ target' = [target EXCEPT ![q] = Pool]
    /\ expiry' = [expiry EXCEPT ![q] = 0]
    /\ started' = [started EXCEPT ![q] = 0]

\* The protective layers admit a query; its deadline starts to run.
Admit(q, n) ==
    /\ pc[q] = "idle"
    /\ queries < MaxQueries
    /\ now + Timeout <= MaxNow
    /\ queries' = queries + 1
    /\ pc' = [pc EXCEPT ![q] = "decide"]
    /\ name' = [name EXCEPT ![q] = n]
    /\ started' = [started EXCEPT ![q] = now]
    /\ UNCHANGED <<route, cache, bounds, editVars, target, expiry, now, history,
                   edits>>

\* DecisionStack stage 1c, and the hand-over to the cache layer.
Decide(q) ==
    /\ pc[q] = "decide"
    /\ target' = [target EXCEPT ![q] = route[name[q]]]
    /\ pc' = [pc EXCEPT ![q] = "get"]
    /\ UNCHANGED <<route, cache, bounds, editVars, name, expiry, started, now,
                   history, queries, edits>>

\* An entry is served as long as its deadline is ahead.
Live(e) == e # None /\ now < e.deadline

\* DnsCache::get: a hit is the reply, a miss goes to the forward leaf.
Get(q) ==
    /\ pc[q] = "get"
    /\ \/ Live(cache[name[q]]) /\ Finish(q)
       \/ /\ ~Live(cache[name[q]])
          /\ pc' = [pc EXCEPT ![q] = "forward"]
          /\ UNCHANGED <<name, target, expiry, started>>
    /\ UNCHANGED <<route, cache, bounds, editVars, now, history, queries, edits>>

\* ForwardService: a tagged query needs its forwarder in the set as it is now;
\* without one it is answered SERVFAIL.
Forward(q) ==
    /\ pc[q] = "forward"
    /\ \/ /\ target[q] = Pool \/ \E n \in Names : route[n] = target[q]
          /\ pc' = [pc EXCEPT ![q] = "wait"]
          /\ UNCHANGED <<name, target, expiry, started>>
       \/ /\ target[q] # Pool /\ \A n \in Names : route[n] # target[q]
          /\ Finish(q)
    /\ UNCHANGED <<route, cache, bounds, editVars, now, history, queries, edits>>

\* The expiry of the directive: the smallest TTL, for a negative answer the
\* SOA's up to the cap.  None skips the cache.
Expiry(ttl, negative) ==
    IF ttl # None /\ negative /\ ttl > NegativeCap THEN NegativeCap ELSE ttl

\* The authority answers.
Answered(q, ttl, negative) ==
    /\ pc[q] = "wait"
    /\ \/ /\ Expiry(ttl, negative) # None
          /\ pc' = [pc EXCEPT ![q] = "insert"]
          /\ expiry' = [expiry EXCEPT ![q] = Expiry(ttl, negative)]
          /\ UNCHANGED <<name, target, started>>
       \/ Expiry(ttl, negative) = None /\ Finish(q)
    /\ UNCHANGED <<route, cache, bounds, editVars, now, history, queries, edits>>

\* All upstreams failed: SERVFAIL, nothing is cached.
Failed(q) ==
    /\ pc[q] = "wait"
    /\ Finish(q)
    /\ UNCHANGED <<route, cache, bounds, editVars, now, history, queries, edits>>

\* Mutation: the bounds of the settings are not applied.
Unclamped(secs) == secs

\* clamp_ttl.
Clamp(secs) ==
    IF secs < bounds.min THEN bounds.min
    ELSE IF secs > bounds.max THEN bounds.max ELSE secs

\* moka's insert: a new entry gets a deadline from expire_after_create; one
\* that replaces a live entry keeps the deadline it finds (expire_after_update
\* is not overridden).
Stored(old, a, life) ==
    [authority |-> a, storedAt |-> now,
     deadline |-> IF Live(old) THEN old.deadline ELSE now + life]

\* DnsCache::insert, and the reply.
Insert(q) ==
    /\ pc[q] = "insert"
    /\ cache' = [cache EXCEPT ![name[q]] =
                    Stored(@, target[q], Clamp(expiry[q]))]
    /\ Finish(q)
    /\ UNCHANGED <<route, bounds, editVars, now, history, queries, edits>>

\* Mutation: the timeout covers the cache only, not the forward leaf.
TimesOutInCache(q) ==
    /\ pc[q] = "insert"
    /\ now >= started[q] + Timeout
    /\ Finish(q)
    /\ UNCHANGED <<route, cache, bounds, editVars, now, history, queries, edits>>

\* TimeoutLayer: the future is dropped at the await it is in.
TimesOut(q) ==
    /\ pc[q] \in {"wait", "insert"}
    /\ now >= started[q] + Timeout
    /\ Finish(q)
    /\ UNCHANGED <<route, cache, bounds, editVars, now, history, queries, edits>>

-----------------------------------------------------------------------------
(* The admin, moka and the clock.                                          *)

\* A request reaches one of the handlers.  normalize_target has sent back every
\* form whose target is not an IP address.
BeginEdit ==
    /\ edit = "idle"
    /\ edits < MaxEdits
    /\ edits' = edits + 1
    /\ UNCHANGED <<route, cache, bounds, queryVars, now, history, queries>>

\* forward_zone_set_target: a blank target clears it.
SetTarget(n, t) ==
    /\ BeginEdit
    /\ zones' = [zones EXCEPT ![n].target = t]
    /\ edit' = "list"
    /\ UNCHANGED <<todo, form>>

\* forward_zone_toggle.
ToggleZone(n, on) ==
    /\ BeginEdit
    /\ zones' = [zones EXCEPT ![n].enabled = on]
    /\ edit' = "list"
    /\ UNCHANGED <<todo, form>>

\* forward_zone_apply_all lists the zones ...
ApplyAll(t) ==
    /\ BeginEdit
    /\ edit' = "write" /\ todo' = Names /\ form' = t
    /\ UNCHANGED zones

\* ... and writes them one by one: first the target, then the flag.
ApplyToZone(n) ==
    /\ edit = "write" /\ n \in todo
    /\ IF zones[n].target # form
       THEN zones' = [zones EXCEPT ![n].target = form] /\ UNCHANGED <<edit, todo, form>>
       ELSE /\ zones' = [zones EXCEPT ![n].enabled = TRUE]
            /\ todo' = todo \ {n}
            /\ edit' = IF todo' = {} THEN "list" ELSE edit
            /\ form' = IF todo' = {} THEN None ELSE form
    /\ UNCHANGED <<route, cache, bounds, queryVars, now, history, queries,
                   edits>>

\* A statement fails, or the browser goes away: what is written stays written
\* and nothing is rebuilt.
EditFails ==
    /\ edit \in {"write", "list"}
    /\ edit' = "idle" /\ todo' = {} /\ form' = None
    /\ UNCHANGED <<zones, route, cache, bounds, queryVars, now, history,
                   queries, edits>>

\* rebuild_forward_zones: the rows are read, the targets connected to and the
\* set is stored; edits are one at a time here.
StoreZones ==
    /\ edit = "list"
    /\ edit' = "clear"
    /\ route' = BuildZones(zones)
    /\ straddled' = {name[q] : q \in Routed}
    /\ changedAt' = [n \in Names |-> IF route'[n] # route[n] THEN now ELSE changedAt[n]]
    /\ UNCHANGED <<zones, todo, form, cache, bounds, queryVars, now, queries,
                   edits>>

\* Mutation: the edit does not flush the cache.
NoClear ==
    /\ edit = "clear"
    /\ edit' = "idle"
    /\ UNCHANGED <<zones, todo, form, route, cache, bounds, queryVars, now,
                   history, queries, edits>>

\* DnsCache::clear.
ClearCache ==
    /\ edit = "clear"
    /\ edit' = "idle"
    /\ cache' = [n \in Names |-> None]
    /\ UNCHANGED <<zones, todo, form, route, bounds, queryVars, now, history,
                   queries, edits>>

\* set_ttl_bounds: entries keep the deadline they have.
SetTtlBounds(b) ==
    /\ edits < MaxEdits
    /\ edits' = edits + 1
    /\ bounds' = b
    /\ UNCHANGED <<route, cache, editVars, queryVars, now, history, queries>>

\* moka evicts an entry that is over capacity or past its deadline.
Evict(n) ==
    /\ cache[n] # None
    /\ cache' = [cache EXCEPT ![n] = None]
    /\ UNCHANGED <<route, bounds, editVars, queryVars, now, history, queries, edits>>

\* A tick passes only when no query is overdue: timers fire in time.
Tick ==
    /\ now < MaxNow
    /\ \A q \in Queries : pc[q] # "idle" => now < started[q] + Timeout
    /\ now' = now + 1
    /\ UNCHANGED <<route, cache, bounds, editVars, queryVars, history, queries,
                   edits>>

Step(q) == Decide(q) \/ Get(q) \/ Forward(q) \/ Insert(q) \/ TimesOut(q)

Upstream(q) ==
    \/ \E ttl \in Ttls \cup {None}, negative \in BOOLEAN : Answered(q, ttl, negative)
    \/ Failed(q)

Next ==
    \/ \E q \in Queries, n \in Names : Admit(q, n)
    \/ \E q \in Queries : Step(q) \/ Upstream(q)
    \/ \E n \in Names, t \in Targets \cup {None} : SetTarget(n, t)
    \/ \E n \in Names, on \in BOOLEAN : ToggleZone(n, on)
    \/ \E t \in Targets : ApplyAll(t)
    \/ \E n \in Names : ApplyToZone(n)
    \/ EditFails
    \/ StoreZones
    \/ ClearCache
    \/ \E b \in Bounds : SetTtlBounds(b)
    \/ \E n \in Names : Evict(n)
    \/ Tick

Spec == Init /\ [][Next]_vars

\* The runtime runs what is ready and its timers fire; an upstream may stay
\* silent for ever.
FairSpec ==
    /\ Spec
    /\ \A q \in Queries : WF_vars(Step(q))
    /\ WF_vars(Tick)

-----------------------------------------------------------------------------
(* What the cache promises.                                                *)

\* "the cache layer ... would otherwise [serve an answer] in place of the
\* newly-routed zone target": once an edit is through, only a query that was
\* under way when the routes were swapped can have left an answer of another
\* authority than the one its name is routed to.
OnlyStraddlersAreStale ==
    edit # "clear" =>
        \A n \in Names : cache[n] # None /\ cache[n].authority # route[n]
                            => n \in straddled

\* The longest life an entry can be given.
LongestLife == CHOOSE m \in {b.max : b \in Bounds} : \A b \in Bounds : b.max <= m

\* cache_max_ttl and request_timeout together bound the damage: an answer of a
\* retired authority is not served later than both after the change.
StaleAnswersExpire ==
    \A n \in Names : Live(cache[n]) /\ cache[n].authority # route[n]
        => now < changedAt[n] + Timeout + LongestLife

\* "Exceeded requests return SERVFAIL": every admitted query is answered, even
\* if its upstream never does.
EveryQueryIsAnswered ==
    \A q \in Queries : pc[q] # "idle" ~> pc[q] = "idle"
=============================================================================
