------------------------- MODULE QueryCache_proofs -------------------------
(***************************************************************************)
(* Proofs about QueryCache: who may leave a stale answer in the cache, and *)
(* for how long it can be served, for any number of zones, queries and     *)
(* edits, any TTLs and any bounds of them.                                 *)
(***************************************************************************)
EXTENDS QueryCache, TLAPS

-----------------------------------------------------------------------------
(* The inductive invariant.                                                *)

\* A query that is past its decision goes where its name is routed to, or has seen the
\* routes being swapped.
RoutedOrStraddling ==
    \A q \in Routed : target[q] = route[name[q]] \/ name[q] \in straddled

\* A query came before the clock's time and is dropped in time.
QueriesAreInTime ==
    \A q \in Queries :
        pc[q] # "idle" => started[q] <= now /\ now <= started[q] + Timeout

\* One that goes elsewhere came before its route changed.
MisroutedIsOld ==
    \A q \in Routed : target[q] # route[name[q]] => started[q] <= changedAt[name[q]]

\* No deadline is further away than the longest life.
DeadlinesAreNear ==
    \A n \in Names : cache[n] # None => cache[n].deadline <= now + LongestLife

\* A stale entry's deadline is bounded by the change that made it stale.
StaleDeadlines ==
    \A n \in Names : cache[n] # None /\ cache[n].authority # route[n]
        => cache[n].deadline <= changedAt[n] + Timeout + LongestLife

IInv ==
    /\ TypeOK
    /\ RoutedOrStraddling
    /\ OnlyStraddlersAreStale
    /\ QueriesAreInTime
    /\ MisroutedIsOld
    /\ DeadlinesAreNear
    /\ StaleDeadlines

USE DEF Authorities, Routed

-----------------------------------------------------------------------------
(* The operators.                                                          *)

\* The longest life is the largest upper bound in use.
LEMMA LongestLifeIsLongest ==
    LongestLife \in Nat /\ \A b \in Bounds : b.max <= LongestLife
<1>1. PICK b \in Bounds : \A c \in Bounds : c.max <= b.max
    BY ConstantsAssumption
<1>2. \E m \in {c.max : c \in Bounds} : \A c \in Bounds : c.max <= m
    BY <1>1
<1>3. LongestLife \in {c.max : c \in Bounds} /\ \A c \in Bounds : c.max <= LongestLife
    BY <1>2 DEF LongestLife
<1> QED BY <1>3, ConstantsAssumption

\* clamp_ttl gives an entry at most the longest life.
LEMMA ClampIsBounded ==
    ASSUME TypeOK, NEW secs \in Nat
    PROVE  Clamp(secs) \in Nat /\ Clamp(secs) <= LongestLife
<1>1. bounds \in Bounds /\ bounds.min \in Nat /\ bounds.max \in Nat /\ bounds.min <= bounds.max
    BY ConstantsAssumption DEF TypeOK
<1> QED BY <1>1, LongestLifeIsLongest DEF Clamp

\* The expiry of a directive is a number of seconds, or there is none.
LEMMA ExpiryIsNatOrNone ==
    ASSUME NEW ttl \in Ttls \cup {None}, NEW negative \in BOOLEAN
    PROVE  Expiry(ttl, negative) \in Nat \cup {None}
BY ConstantsAssumption DEF Expiry

\* The routes that are built from the rows.
LEMMA BuildZonesType ==
    ASSUME NEW rows \in [Names -> Zone]
    PROVE  BuildZones(rows) \in [Names -> Authorities]
BY DEF BuildZones, Zone

\* What moka keeps of an answer is an entry, whose deadline is no further away than
\* that of the one it replaces, or than the life it is given.
LEMMA StoredEntry ==
    ASSUME IInv, NEW n \in Names, NEW a \in Authorities, NEW life \in Nat, life <= LongestLife,
           NEW e, e = Stored(cache[n], a, life)
    PROVE  e \in Entry /\ e.authority = a /\ e.deadline \in Nat
           /\ e.deadline <= now + LongestLife
<1>1. now \in Nat /\ (cache[n] # None => cache[n] \in Entry)
    BY DEF IInv, TypeOK
<1>2. PICK d : d = IF Live(cache[n]) THEN cache[n].deadline ELSE now + life
    OBVIOUS
<1>3. d \in Nat /\ d <= now + LongestLife
    BY <1>1, <1>2, LongestLifeIsLongest DEF IInv, DeadlinesAreNear, Live, Entry
<1>4. e = [authority |-> a, storedAt |-> now, deadline |-> d]
    BY <1>2 DEF Stored
<1> QED BY <1>1, <1>3, <1>4 DEF Entry

-----------------------------------------------------------------------------
(* The steps.                                                              *)

\* What the end of a query leaves of its slot.
LEMMA FinishType ==
    ASSUME TypeOK, NEW q \in Queries, Finish(q)
    PROVE  /\ pc' \in [Queries -> {"idle", "decide", "get", "forward", "wait", "insert"}]
           /\ name' \in [Queries -> Names]
           /\ target' \in [Queries -> Authorities]
           /\ expiry' \in [Queries -> Nat]
           /\ started' \in [Queries -> Nat]
           /\ pc'[q] = "idle"
           /\ \A p \in Queries : p # q =>
                 /\ pc'[p] = pc[p] /\ name'[p] = name[p] /\ target'[p] = target[p]
                 /\ started'[p] = started[p]
<1>1. (CHOOSE n \in Names : TRUE) \in Names
    BY ConstantsAssumption
<1> QED BY <1>1 DEF TypeOK, Finish

\* A first start.
LEMMA InitInv == Init => IInv
<1> SUFFICES ASSUME Init
             PROVE  IInv
    OBVIOUS
<1>1. (CHOOSE n \in Names : TRUE) \in Names
    BY ConstantsAssumption
<1>2. zones \in [Names -> Zone]
    BY DEF Init, Zone
<1>3. TypeOK
    BY <1>1, <1>2 DEF Init, TypeOK
<1> QED BY <1>3
        DEF Init, IInv, RoutedOrStraddling, OnlyStraddlersAreStale, QueriesAreInTime,
            MisroutedIsOld, DeadlinesAreNear, StaleDeadlines

\* A query ends without an answer of its own for the cache.
LEMMA FinishInv ==
    ASSUME IInv, NEW q \in Queries, Finish(q),
           UNCHANGED <<route, cache, bounds, editVars, now, history, queries, edits>>
    PROVE  IInv'
<1>1. TypeOK'
    BY FinishType DEF IInv, TypeOK, editVars, history
<1> USE DEF IInv, editVars, history
<1>2. RoutedOrStraddling'
    BY FinishType DEF RoutedOrStraddling
<1>3. OnlyStraddlersAreStale'
    BY DEF OnlyStraddlersAreStale
<1>4. QueriesAreInTime'
    BY FinishType DEF QueriesAreInTime
<1>5. MisroutedIsOld'
    BY FinishType DEF MisroutedIsOld
<1>6. DeadlinesAreNear' /\ StaleDeadlines'
    BY DEF DeadlinesAreNear, StaleDeadlines
<1> QED BY <1>1, <1>2, <1>3, <1>4, <1>5, <1>6

\* The query goes on to another await of the cache layer or the leaf.
LEMMA GoesOnInv ==
    ASSUME IInv, NEW q \in Queries, q \in Routed,
           NEW to \in {"forward", "wait", "insert"}, pc' = [pc EXCEPT ![q] = to],
           expiry' \in [Queries -> Nat],
           UNCHANGED <<name, target, started,
                       route, cache, bounds, editVars, now, history, queries, edits>>
    PROVE  IInv'
<1>1. TypeOK'
    BY DEF IInv, TypeOK, editVars, history
<1> USE DEF IInv, editVars, history
<1>2. /\ \A p \in Queries : pc'[p] # "idle" => pc[p] # "idle"
      /\ Routed' = Routed
    BY DEF TypeOK
<1>3. RoutedOrStraddling' /\ MisroutedIsOld'
    BY <1>2 DEF RoutedOrStraddling, MisroutedIsOld
<1>4. OnlyStraddlersAreStale'
    BY DEF OnlyStraddlersAreStale
<1>5. QueriesAreInTime'
    BY <1>2 DEF QueriesAreInTime
<1>6. DeadlinesAreNear' /\ StaleDeadlines'
    BY DEF DeadlinesAreNear, StaleDeadlines
<1> QED BY <1>1, <1>3, <1>4, <1>5, <1>6

\* Admission and decision: the route is the one of this moment.
LEMMA AdmitInv ==
    ASSUME IInv, NEW q \in Queries, NEW n \in Names, Admit(q, n)
    PROVE  IInv'
<1> USE DEF IInv, Admit, editVars, history
<1>1. TypeOK'
    BY DEF TypeOK
<1>2. /\ \A p \in Queries \ {q} : pc'[p] = pc[p] /\ started'[p] = started[p] /\ name'[p] = name[p]
      /\ pc'[q] = "decide" /\ started'[q] = now /\ target' = target
      /\ now' = now /\ now \in Nat /\ Timeout \in Nat
    BY ConstantsAssumption DEF TypeOK
<1>3. RoutedOrStraddling' /\ MisroutedIsOld'
    BY <1>2 DEF RoutedOrStraddling, MisroutedIsOld
<1>4. OnlyStraddlersAreStale'
    BY DEF OnlyStraddlersAreStale
<1>5. QueriesAreInTime'
    BY <1>2 DEF QueriesAreInTime
<1>6. DeadlinesAreNear' /\ StaleDeadlines'
    BY DEF DeadlinesAreNear, StaleDeadlines
<1> QED BY <1>1, <1>3, <1>4, <1>5, <1>6

LEMMA DecideInv ==
    ASSUME IInv, NEW q \in Queries, Decide(q)
    PROVE  IInv'
<1> USE DEF IInv, Decide, editVars, history
<1>1. TypeOK'
    BY DEF TypeOK
<1>2. /\ \A p \in Queries \ {q} : pc'[p] = pc[p] /\ target'[p] = target[p]
      /\ pc'[q] = "get" /\ pc[q] # "idle" /\ target'[q] = route[name[q]]
      /\ name' = name /\ started' = started /\ route' = route
    BY DEF TypeOK
<1>3. RoutedOrStraddling' /\ MisroutedIsOld'
    BY <1>2 DEF RoutedOrStraddling, MisroutedIsOld
<1>4. OnlyStraddlersAreStale'
    BY DEF OnlyStraddlersAreStale
<1>5. QueriesAreInTime'
    BY <1>2 DEF QueriesAreInTime
<1>6. DeadlinesAreNear' /\ StaleDeadlines'
    BY DEF DeadlinesAreNear, StaleDeadlines
<1> QED BY <1>1, <1>3, <1>4, <1>5, <1>6

\* DnsCache::insert.  A query that goes elsewhere than its name does came before the
\* change and is in time, so what it leaves is gone in time.
LEMMA InsertInv ==
    ASSUME IInv, NEW q \in Queries, Insert(q)
    PROVE  IInv'
<1> USE DEF IInv
<1>1. PICK n \in Names : n = name[q]
    BY DEF TypeOK
<1>2. PICK a \in Authorities : a = target[q]
    BY DEF TypeOK
<1>3. PICK e : e = Stored(cache[n], a, Clamp(expiry[q]))
    OBVIOUS
<1>4. /\ e \in Entry /\ e.authority = a /\ e.deadline \in Nat
      /\ e.deadline <= now + LongestLife
    <2>1. expiry[q] \in Nat
        BY DEF TypeOK
    <2>2. Clamp(expiry[q]) \in Nat /\ Clamp(expiry[q]) <= LongestLife
        BY <2>1, ClampIsBounded
    <2> QED BY <1>3, <2>2, StoredEntry
<1>5. Finish(q) /\ cache' = [cache EXCEPT ![n] = e]
      /\ UNCHANGED <<route, bounds, editVars, now, history, queries, edits>>
    BY <1>1, <1>2, <1>3 DEF Insert
<1>6. cache' \in [Names -> Entry \cup {None}] /\ cache'[n] = e
      /\ \A m \in Names : m # n => cache'[m] = cache[m]
    BY <1>4, <1>5 DEF TypeOK
<1>7. q \in Routed /\ pc[q] # "idle"
    BY DEF Insert
<1> USE DEF editVars, history
<1>8. TypeOK'
    BY <1>5, <1>6, FinishType DEF TypeOK
<1>9. RoutedOrStraddling'
    BY <1>5, FinishType DEF RoutedOrStraddling
<1>10. OnlyStraddlersAreStale'
    BY <1>1, <1>2, <1>4, <1>5, <1>6, <1>7 DEF OnlyStraddlersAreStale, RoutedOrStraddling
<1>11. QueriesAreInTime'
    BY <1>5, FinishType DEF QueriesAreInTime
<1>12. MisroutedIsOld'
    BY <1>5, FinishType DEF MisroutedIsOld
<1>13. DeadlinesAreNear'
    BY <1>4, <1>5, <1>6 DEF DeadlinesAreNear
<1>14. ASSUME a # route[n]
       PROVE  e.deadline <= changedAt[n] + Timeout + LongestLife
    <2>1. started[q] <= changedAt[n] /\ now <= started[q] + Timeout
        BY <1>1, <1>2, <1>7, <1>14 DEF MisroutedIsOld, QueriesAreInTime
    <2>2. /\ now \in Nat /\ started[q] \in Nat /\ changedAt[n] \in Nat
          /\ Timeout \in Nat /\ LongestLife \in Nat
        BY ConstantsAssumption, LongestLifeIsLongest DEF TypeOK
    <2> QED BY <1>4, <2>1, <2>2
<1>15. StaleDeadlines'
    BY <1>4, <1>5, <1>6, <1>14 DEF StaleDeadlines
<1> QED BY <1>8, <1>9, <1>10, <1>11, <1>12, <1>13, <1>15

\* The steps that leave the queries, the cache and the routes alone.
LEMMA AsideInv ==
    ASSUME IInv, UNCHANGED <<route, cache, queryVars, now, history>>,
           zones' \in [Names -> Zone], edit' \in {"idle", "write", "list"}, edit # "clear",
           todo' \in SUBSET Names, form' \in Targets \cup {None}, bounds' \in Bounds,
           queries' \in Nat, edits' \in Nat
    PROVE  IInv'
<1> USE DEF IInv, queryVars, history
<1>1. TypeOK'
    BY DEF TypeOK
<1>2. RoutedOrStraddling' /\ QueriesAreInTime' /\ MisroutedIsOld'
    BY DEF RoutedOrStraddling, QueriesAreInTime, MisroutedIsOld
<1>3. OnlyStraddlersAreStale'
    BY DEF OnlyStraddlersAreStale
<1>4. DeadlinesAreNear' /\ StaleDeadlines'
    BY DEF DeadlinesAreNear, StaleDeadlines
<1> QED BY <1>1, <1>2, <1>3, <1>4

\* The edits of the rows.
LEMMA EditInv ==
    ASSUME IInv,
           \/ \E n \in Names, t \in Targets \cup {None} : SetTarget(n, t)
           \/ \E n \in Names, on \in BOOLEAN : ToggleZone(n, on)
           \/ \E t \in Targets : ApplyAll(t)
           \/ \E n \in Names : ApplyToZone(n)
           \/ EditFails
    PROVE  IInv'
<1>0. TypeOK
    BY DEF IInv
<1>1. /\ UNCHANGED <<route, cache, queryVars, now, history>> /\ edit # "clear"
      /\ bounds' \in Bounds /\ queries' \in Nat /\ edits' \in Nat
    BY <1>0 DEF SetTarget, ToggleZone, ApplyAll, BeginEdit, ApplyToZone, EditFails, TypeOK
<1>2. /\ edit' \in {"idle", "write", "list"}
      /\ todo' \in SUBSET Names /\ form' \in Targets \cup {None}
    BY <1>0 DEF SetTarget, ToggleZone, ApplyAll, BeginEdit, ApplyToZone, EditFails, TypeOK
<1>3. zones' \in [Names -> Zone]
    <2>1. ASSUME NEW n \in Names, NEW t \in Targets \cup {None}
          PROVE  [zones EXCEPT ![n].target = t] \in [Names -> Zone]
        BY <1>0 DEF TypeOK, Zone
    <2>2. ASSUME NEW n \in Names, NEW on \in BOOLEAN
          PROVE  [zones EXCEPT ![n].enabled = on] \in [Names -> Zone]
        BY <1>0 DEF TypeOK, Zone
    <2>3. zones \in [Names -> Zone] /\ form \in Targets \cup {None}
        BY <1>0 DEF TypeOK
    <2>4. ASSUME NEW n \in Names, NEW t \in Targets \cup {None}, SetTarget(n, t)
          PROVE  zones' \in [Names -> Zone]
        BY <2>1, <2>4 DEF SetTarget
    <2>5. ASSUME NEW n \in Names, NEW on \in BOOLEAN, ToggleZone(n, on)
          PROVE  zones' \in [Names -> Zone]
        BY <2>2, <2>5 DEF ToggleZone
    <2>6. ASSUME NEW n \in Names, ApplyToZone(n)
          PROVE  zones' \in [Names -> Zone]
        <3>1. \/ zones' = [zones EXCEPT ![n].target = form]
              \/ zones' = [zones EXCEPT ![n].enabled = TRUE]
            BY <2>6 DEF ApplyToZone
        <3>2. [zones EXCEPT ![n].target = form] \in [Names -> Zone]
            BY <2>1, <2>3
        <3>3. [zones EXCEPT ![n].enabled = TRUE] \in [Names -> Zone]
            BY <2>2
        <3> QED BY <3>1, <3>2, <3>3
    <2> QED BY <2>3, <2>4, <2>5, <2>6 DEF ApplyAll, EditFails
<1> QED BY <1>1, <1>2, <1>3, AsideInv

\* The swap of the routes: whoever is past its decision is a straddler now.
LEMMA StoreZonesInv ==
    ASSUME IInv, StoreZones
    PROVE  IInv'
<1> USE DEF IInv, StoreZones, queryVars
<1>1. TypeOK'
    <2>1. route' \in [Names -> Authorities]
        BY BuildZonesType DEF TypeOK
    <2>2. straddled' \in SUBSET Names /\ changedAt' \in [Names -> Nat]
        BY DEF TypeOK
    <2> QED BY <2>1, <2>2 DEF TypeOK
<1>2. RoutedOrStraddling'
    BY DEF RoutedOrStraddling
<1>3. OnlyStraddlersAreStale'
    BY DEF OnlyStraddlersAreStale
<1>4. QueriesAreInTime'
    BY DEF QueriesAreInTime
<1>5. \A n \in Names : \/ route'[n] # route[n] /\ changedAt'[n] = now
                       \/ route'[n] = route[n] /\ changedAt'[n] = changedAt[n]
    BY DEF TypeOK
<1>6. MisroutedIsOld'
    <2> SUFFICES ASSUME NEW q \in Routed, target[q] # route'[name[q]]
                 PROVE  started[q] <= changedAt'[name[q]]
        BY DEF MisroutedIsOld
    <2>1. name[q] \in Names
        BY DEF TypeOK
    <2>2. started[q] <= now
        BY DEF QueriesAreInTime
    <2> QED BY <1>5, <2>1, <2>2 DEF MisroutedIsOld
<1>7. DeadlinesAreNear'
    BY DEF DeadlinesAreNear
<1>8. StaleDeadlines'
    <2> SUFFICES ASSUME NEW n \in Names, cache[n] # None, cache[n].authority # route'[n]
                 PROVE  cache[n].deadline <= changedAt'[n] + Timeout + LongestLife
        BY DEF StaleDeadlines
    <2>1. CASE changedAt'[n] = now
        <3>1. cache[n].deadline <= now + LongestLife /\ cache[n].deadline \in Nat
            BY DEF DeadlinesAreNear, TypeOK, Entry
        <3>2. now \in Nat /\ LongestLife \in Nat /\ Timeout \in Nat
            BY ConstantsAssumption, LongestLifeIsLongest DEF TypeOK
        <3> QED BY <2>1, <3>1, <3>2
    <2>2. CASE route'[n] = route[n] /\ changedAt'[n] = changedAt[n]
        BY <2>2 DEF StaleDeadlines
    <2> QED BY <1>5, <2>1, <2>2
<1> QED BY <1>1, <1>2, <1>3, <1>4, <1>6, <1>7, <1>8

\* The flush and the evictions of moka.
LEMMA ForgetInv ==
    ASSUME IInv, NEW S \in SUBSET Names,
           cache' = [n \in Names |-> IF n \in S THEN None ELSE cache[n]],
           UNCHANGED <<zones, todo, form, route, bounds, queryVars, now, history,
                       queries, edits>>,
           \/ S = Names /\ edit' = "idle"
           \/ edit' = edit
    PROVE  IInv'
<1> USE DEF IInv, queryVars, history
<1>1. TypeOK'
    BY DEF TypeOK
<1>2. RoutedOrStraddling' /\ QueriesAreInTime' /\ MisroutedIsOld'
    BY DEF RoutedOrStraddling, QueriesAreInTime, MisroutedIsOld
<1>3. OnlyStraddlersAreStale'
    BY DEF OnlyStraddlersAreStale
<1>4. DeadlinesAreNear' /\ StaleDeadlines'
    BY DEF DeadlinesAreNear, StaleDeadlines
<1> QED BY <1>1, <1>2, <1>3, <1>4

\* The clock waits for no query that is overdue.
LEMMA TickInv ==
    ASSUME IInv, Tick
    PROVE  IInv'
<1> USE DEF IInv, Tick, queryVars, editVars, history
<1>1. TypeOK'
    BY DEF TypeOK
<1>2. RoutedOrStraddling' /\ MisroutedIsOld'
    BY DEF RoutedOrStraddling, MisroutedIsOld
<1>3. OnlyStraddlersAreStale'
    BY DEF OnlyStraddlersAreStale
<1>4. QueriesAreInTime'
    <2> SUFFICES ASSUME NEW q \in Queries, pc[q] # "idle"
                 PROVE  started[q] <= now + 1 /\ now + 1 <= started[q] + Timeout
        BY DEF QueriesAreInTime
    <2>1. started[q] <= now /\ now < started[q] + Timeout
        BY DEF QueriesAreInTime
    <2> QED BY <2>1, ConstantsAssumption DEF TypeOK
<1>5. DeadlinesAreNear'
    <2> SUFFICES ASSUME NEW n \in Names, cache[n] # None
                 PROVE  cache[n].deadline <= now + 1 + LongestLife
        BY DEF DeadlinesAreNear
    <2>1. cache[n].deadline <= now + LongestLife /\ cache[n].deadline \in Nat
        BY DEF DeadlinesAreNear, TypeOK, Entry
    <2> QED BY <2>1, LongestLifeIsLongest DEF TypeOK
<1>6. StaleDeadlines'
    BY DEF StaleDeadlines
<1> QED BY <1>1, <1>2, <1>3, <1>4, <1>5, <1>6

-----------------------------------------------------------------------------
(* The theorems.                                                           *)

\* Every step keeps the invariant.
LEMMA NextInv == IInv /\ [Next]_vars => IInv'
<1> SUFFICES ASSUME IInv, [Next]_vars
             PROVE  IInv'
    OBVIOUS
<1>0. TypeOK
    BY DEF IInv
<1>1. ASSUME NEW q \in Queries, NEW n \in Names, Admit(q, n)
      PROVE  IInv'
    BY <1>1, AdmitInv
<1>2. ASSUME NEW q \in Queries, Step(q)
      PROVE  IInv'
    <2>1. CASE Decide(q)
        BY <2>1, DecideInv
    <2>2. CASE Get(q)
        <3>1. CASE Finish(q)
            BY <2>2, <3>1, FinishInv DEF Get
        <3>2. CASE pc' = [pc EXCEPT ![q] = "forward"] /\ UNCHANGED <<name, target, expiry, started>>
            BY <1>0, <2>2, <3>2, GoesOnInv DEF Get, TypeOK
        <3> QED BY <2>2, <3>1, <3>2 DEF Get
    <2>3. CASE Forward(q)
        <3>1. CASE Finish(q)
            BY <2>3, <3>1, FinishInv DEF Forward
        <3>2. CASE pc' = [pc EXCEPT ![q] = "wait"] /\ UNCHANGED <<name, target, expiry, started>>
            BY <1>0, <2>3, <3>2, GoesOnInv DEF Forward, TypeOK
        <3> QED BY <2>3, <3>1, <3>2 DEF Forward
    <2>4. CASE Insert(q)
        BY <2>4, InsertInv
    <2>5. CASE TimesOut(q)
        BY <2>5, FinishInv DEF TimesOut
    <2> QED BY <1>2, <2>1, <2>2, <2>3, <2>4, <2>5 DEF Step
<1>3. ASSUME NEW q \in Queries, Upstream(q)
      PROVE  IInv'
    <2>1. ASSUME NEW ttl \in Ttls \cup {None}, NEW negative \in BOOLEAN, Answered(q, ttl, negative)
          PROVE  IInv'
        <3>1. CASE Finish(q)
            BY <2>1, <3>1, FinishInv DEF Answered
        <3>2. CASE /\ Expiry(ttl, negative) # None
                   /\ pc' = [pc EXCEPT ![q] = "insert"]
                   /\ expiry' = [expiry EXCEPT ![q] = Expiry(ttl, negative)]
                   /\ UNCHANGED <<name, target, started>>
            <4>1. expiry' \in [Queries -> Nat]
                BY <1>0, <3>2, ExpiryIsNatOrNone DEF TypeOK
            <4> QED BY <2>1, <3>2, <4>1, GoesOnInv DEF Answered
        <3> QED BY <2>1, <3>1, <3>2 DEF Answered
    <2>2. CASE Failed(q)
        BY <2>2, FinishInv DEF Failed
    <2> QED BY <1>3, <2>1, <2>2 DEF Upstream
<1>4. CASE ClearCache
    <2>1. cache' = [n \in Names |-> IF n \in Names THEN None ELSE cache[n]]
        BY <1>4 DEF ClearCache
    <2> QED BY <1>4, <2>1, ForgetInv DEF ClearCache
<1>5. ASSUME NEW m \in Names, Evict(m)
      PROVE  IInv'
    <2>1. cache' = [n \in Names |-> IF n \in {m} THEN None ELSE cache[n]]
        BY <1>0, <1>5 DEF Evict, TypeOK
    <2> QED BY <1>5, <2>1, ForgetInv DEF Evict, editVars
<1>6. ASSUME NEW b \in Bounds, SetTtlBounds(b)
      PROVE  IInv'
    <2> USE DEF IInv, SetTtlBounds, editVars, queryVars, history
    <2>1. TypeOK'
        BY <1>6 DEF TypeOK
    <2>2. RoutedOrStraddling' /\ QueriesAreInTime' /\ MisroutedIsOld'
        BY <1>6 DEF RoutedOrStraddling, QueriesAreInTime, MisroutedIsOld
    <2>3. OnlyStraddlersAreStale' /\ DeadlinesAreNear' /\ StaleDeadlines'
        BY <1>6 DEF OnlyStraddlersAreStale, DeadlinesAreNear, StaleDeadlines
    <2> QED BY <2>1, <2>2, <2>3
<1>7. CASE UNCHANGED vars
    <2> USE DEF IInv, vars, editVars, queryVars, history
    <2>1. TypeOK'
        BY <1>7 DEF TypeOK
    <2>2. RoutedOrStraddling' /\ QueriesAreInTime' /\ MisroutedIsOld'
        BY <1>7 DEF RoutedOrStraddling, QueriesAreInTime, MisroutedIsOld
    <2>3. OnlyStraddlersAreStale' /\ DeadlinesAreNear' /\ StaleDeadlines'
        BY <1>7 DEF OnlyStraddlersAreStale, DeadlinesAreNear, StaleDeadlines
    <2> QED BY <2>1, <2>2, <2>3
<1> QED BY <1>1, <1>2, <1>3, <1>4, <1>5, <1>6, <1>7, EditInv, StoreZonesInv, TickInv DEF Next

\* The inductive invariant holds in every reachable state.
THEOREM Invariance == Spec => []IInv
    BY InitInv, NextInv, PTL DEF Spec

\* Every variable keeps its type.
THEOREM Typing == Spec => []TypeOK
<1>1. IInv => TypeOK
    BY DEF IInv
<1> QED BY <1>1, Invariance, PTL

\* Once a zone edit is through, only a query that was under way when the routes were
\* swapped can have left an answer of another authority in the cache.
THEOREM StaleByStraddlersOnly == Spec => []OnlyStraddlersAreStale
<1>1. IInv => OnlyStraddlersAreStale
    BY DEF IInv
<1> QED BY <1>1, Invariance, PTL

\* An answer of a retired authority is not served later than request_timeout and the
\* largest cache_max_ttl after the change.
THEOREM StaleIsServedBriefly == Spec => []StaleAnswersExpire
<1>1. IInv => StaleAnswersExpire
    <2> SUFFICES ASSUME IInv, NEW n \in Names,
                        Live(cache[n]), cache[n].authority # route[n]
                 PROVE  now < changedAt[n] + Timeout + LongestLife
        BY DEF StaleAnswersExpire
    <2>1. now < cache[n].deadline /\ cache[n] # None
        BY DEF Live
    <2>2. cache[n].deadline <= changedAt[n] + Timeout + LongestLife
        BY <2>1 DEF IInv, StaleDeadlines
    <2>3. /\ cache[n].deadline \in Nat /\ now \in Nat /\ changedAt[n] \in Nat
          /\ Timeout \in Nat /\ LongestLife \in Nat
        BY <2>1, ConstantsAssumption, LongestLifeIsLongest DEF IInv, TypeOK, Entry
    <2> QED BY <2>1, <2>2, <2>3
<1> QED BY <1>1, Invariance, PTL
=============================================================================
