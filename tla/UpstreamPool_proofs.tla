------------------------ MODULE UpstreamPool_proofs ------------------------
(***************************************************************************)
(* Proofs about UpstreamPool: how long a query can take and when it may    *)
(* fail, over any number of rebuilds of the pool, and that the pool        *)
(* follows the edits of the admin, for any upstreams, any number of        *)
(* queries and handlers, any budget, timeouts and fan-out.                 *)
(***************************************************************************)
EXTENDS UpstreamPool, FiniteSetTheorems, TLAPS

-----------------------------------------------------------------------------
(* The inductive invariant: the queries.                                   *)

\* The upstreams a query has asked.
Tried(q) == snapshot[q].clients \ untried[q]

\* Those that are asked are not asked again, and those that are through have failed.
TriedHaveFailed(q) ==
    /\ running[q] \cap untried[q] = {}
    /\ Tried(q) \ running[q] \subseteq Down

\* One at a time and within the budget, or as many at once as the fan-out allows.
AskedAtOnce(q) ==
    IF snapshot[q].strategy.mode = "sequential"
    THEN (\E a \in Addrs : running[q] = {a}) /\ Attempts(q) <= MaxAttempts
    ELSE LET n == Cardinality(snapshot[q].clients)
             w == Width(snapshot[q])
         IN Attempts(q) = IF n < w THEN n ELSE w

\* No attempt outlives its timeout, and the query is as old as its attempts add up to.
AgeIsAttempts(q) ==
    /\ \A a \in untried[q] : waited[q][a] = 0
    /\ \A a \in running[q] :
          /\ waited[q][a] <= AttemptTimeout
          /\ age[q] <= waited[q][a]
                         + IF snapshot[q].strategy.mode = "sequential"
                           THEN (Attempts(q) - 1) * AttemptTimeout ELSE 0

QueryOK(q) ==
    IF Under(q) THEN TriedHaveFailed(q) /\ AskedAtOnce(q) /\ AgeIsAttempts(q)
    ELSE age[q] = 0 /\ waited[q] = NotWaited

QueriesOK == \A q \in Queries : QueryOK(q)

-----------------------------------------------------------------------------
(* The inductive invariant: the handlers.                                  *)

\* What a handler is at, and the job it has.
JobsInOrder ==
    \A h \in Handlers :
        /\ hpc[h] \in {"get", "update"} => job[h].kind \in {"settings", "theme"}
        /\ hpc[h] = "store" => job[h].kind = "settings" /\ job[h].form \in Strategy
        /\ hpc[h] \in {"list", "connect"} => job[h].kind \in {"settings", "upstreams"}

\* The table has only what add_upstream accepts.
RowsAreUsable == \A a \in rows : Usable(a)

\* A handler that has met no other is the only one.
AloneMeansAlone == \A h \in Busy : alone[h] => Busy = {h}

SettingsLive == live = settings.strategy
PoolBuilt ==
    /\ pool.strategy = live
    /\ pool.clients \subseteq rows
    /\ {a \in rows \ Down : ServerNameOk(a)} \subseteq pool.clients

\* What is not marked as apart is together.
Together ==
    /\ "settings" \notin apart => SettingsLive
    /\ "pool" \notin apart => PoolBuilt

\* What such a handler can rely on, from step to step.
ReliesOn(h) ==
    /\ hpc[h] \in {"get", "update"} => Together
    /\ hpc[h] = "update" => got[h] = settings
    /\ hpc[h] = "store" => settings.strategy = job[h].form
    /\ hpc[h] \in {"list", "connect"} /\ (job[h].kind = "settings" \/ "settings" \notin apart)
          => SettingsLive
    /\ hpc[h] = "connect" => built[h] = [clients |-> rows, strategy |-> live]

LoneHandlers == \A h \in Busy : alone[h] => ReliesOn(h)

IInv ==
    /\ TypeOK
    /\ QueriesOK
    /\ MasksFailures
    /\ JobsInOrder
    /\ RowsAreUsable
    /\ AloneMeansAlone
    /\ LoneHandlers
    /\ PoolFollowsEdits

\* The types of what queries change, and of what handlers change.
QueryTypes ==
    /\ health \in [Addrs -> [ok : Nat, err : Nat]]
    /\ snapshot \in [Queries -> Pool]
    /\ untried \in [Queries -> SUBSET Addrs]
    /\ running \in [Queries -> SUBSET Addrs]
    /\ age \in [Queries -> Nat]
    /\ waited \in [Queries -> [Addrs -> Nat]]
    /\ \A q \in Queries : untried[q] \cup running[q] \subseteq snapshot[q].clients
    /\ failed \in [Queries -> SUBSET Pool]
    /\ queries \in Nat

HandlerTypes ==
    /\ rows \in SUBSET Addrs
    /\ settings \in Settings
    /\ live \in Strategy
    /\ pool \in Pool
    /\ hpc \in [Handlers -> {"idle", "get", "update", "store", "list", "connect"}]
    /\ job \in [Handlers -> [kind : Jobs, form : Forms]]
    /\ got \in [Handlers -> Settings]
    /\ built \in [Handlers -> Pool]
    /\ alone \in [Handlers -> BOOLEAN]
    /\ apart \in SUBSET Parts
    /\ edits \in Nat /\ faults \in Nat

QueryInv == QueryTypes /\ QueriesOK /\ MasksFailures
HandlerInv ==
    /\ HandlerTypes /\ JobsInOrder /\ RowsAreUsable /\ AloneMeansAlone /\ LoneHandlers
    /\ PoolFollowsEdits

\* The two halves of the invariant.
LEMMA Halves == (IInv <=> QueryInv /\ HandlerInv) /\ (IInv' <=> QueryInv' /\ HandlerInv')
BY DEF IInv, QueryInv, HandlerInv, TypeOK, QueryTypes, HandlerTypes

\* Queries leave the handlers' half alone, and handlers the queries'.
LEMMA HandlersAside ==
    ASSUME HandlerInv,
           UNCHANGED <<dbVars, live, pool, handlerVars, overlap, edits, faults>>
    PROVE  HandlerInv'
<1> USE DEF HandlerInv, dbVars, handlerVars, overlap
<1>1. HandlerTypes'
    BY DEF HandlerTypes
<1>2. JobsInOrder' /\ RowsAreUsable' /\ AloneMeansAlone'
    BY DEF JobsInOrder, RowsAreUsable, AloneMeansAlone, Busy
<1>3. LoneHandlers'
    BY DEF LoneHandlers, ReliesOn, Busy, Together, SettingsLive, PoolBuilt
<1>4. PoolFollowsEdits'
    BY DEF PoolFollowsEdits, Busy
<1> QED BY <1>1, <1>2, <1>3, <1>4

LEMMA QueryAside ==
    ASSUME NEW p \in Queries, QueryOK(p),
           snapshot'[p] = snapshot[p], untried'[p] = untried[p], running'[p] = running[p],
           age'[p] = age[p], waited'[p] = waited[p]
    PROVE  QueryOK(p)'
BY DEF QueryOK, Under, TriedHaveFailed, Tried, AskedAtOnce, AgeIsAttempts, Attempts

LEMMA QueriesAside ==
    ASSUME QueryInv, UNCHANGED <<queryVars, failed, health, queries>>
    PROVE  QueryInv'
<1> USE DEF QueryInv, queryVars
<1>1. QueryTypes'
    BY DEF QueryTypes
<1>2. QueriesOK'
    BY QueryAside DEF QueriesOK
<1>3. MasksFailures'
    BY DEF MasksFailures
<1> QED BY <1>1, <1>2, <1>3

-----------------------------------------------------------------------------
(* Constants and counting.                                                 *)

\* The first start's pool, jobs and settings.
LEMMA ConstantTypes ==
    /\ Random \in Strategy /\ Random \in Forms
    /\ NoPool \in Pool /\ NoPool.clients = {}
    /\ NoJob \in [kind : Jobs, form : Forms]
    /\ Seeded \in Settings
    /\ NotWaited \in [Addrs -> Nat]
<1>1. SeededFanout \in Fanouts \ {0} /\ SeededFanout \in Fanouts
    BY ConstantsAssumption
<1>2. Random \in Strategy /\ Random \in Forms
    BY <1>1 DEF Random, Strategy, Forms, Modes
<1> QED BY <1>2 DEF NoPool, Pool, NoJob, Jobs, Seeded, Settings, Themes, NotWaited

\* A set of upstreams can be counted.
LEMMA AddrsCount ==
    ASSUME NEW S \in SUBSET Addrs
    PROVE  IsFiniteSet(S) /\ Cardinality(S) \in Nat
BY ConstantsAssumption, FS_Subset, FS_CardinalityType

\* The time that attempts take adds up to less than the request timeout.
LEMMA BudgetStep ==
    ASSUME NEW k \in Nat
    PROVE  /\ (k - 1) * AttemptTimeout \in Int
           /\ (k - 1) * AttemptTimeout + AttemptTimeout = k * AttemptTimeout
           /\ k * AttemptTimeout = (k + 1 - 1) * AttemptTimeout
<1>1. AttemptTimeout \in Nat
    BY ConstantsAssumption
<1> QED BY <1>1

LEMMA BudgetFits ==
    ASSUME NEW k \in Nat, k <= MaxAttempts
    PROVE  (k - 1) * AttemptTimeout + AttemptTimeout < RequestTimeout
<1>1. AttemptTimeout \in Nat /\ MaxAttempts \in Nat /\ RequestTimeout \in Nat
    BY ConstantsAssumption DEF MaxAttempts
<1>2. MaxAttempts * AttemptTimeout < RequestTimeout
    BY ConstantsAssumption DEF MaxAttempts
<1>3. PICK d \in Nat : MaxAttempts = k + d
    <2>1. MaxAttempts - k \in Nat /\ MaxAttempts = k + (MaxAttempts - k)
        BY <1>1
    <2> QED BY <2>1
<1>4. d * AttemptTimeout \in Nat /\ k * AttemptTimeout \in Nat
    BY <1>1
<1>5. MaxAttempts * AttemptTimeout = k * AttemptTimeout + d * AttemptTimeout
    BY <1>1, <1>3
<1>6. k * AttemptTimeout < RequestTimeout
    BY <1>1, <1>2, <1>4, <1>5
<1> QED BY <1>6, BudgetStep

-----------------------------------------------------------------------------
(* The queries.                                                            *)

\* How many upstreams a pool asks at most.
LEMMA WidthType ==
    ASSUME NEW p \in Pool
    PROVE  /\ p.clients \in SUBSET Addrs /\ p.strategy.mode \in Modes
           /\ Width(p) \in Nat \ {0}
           /\ p.strategy.mode = "sequential" => Width(p) = MaxAttempts
<1>1. p.clients \in SUBSET Addrs /\ p.strategy.mode \in Modes /\ p.strategy.fanout \in Fanouts \ {0}
    BY DEF Pool, Strategy
<1>2. MaxAttempts \in Nat \ {0}
    BY ConstantsAssumption DEF MaxAttempts
<1> QED BY <1>1, <1>2, ConstantsAssumption DEF Width, AtLeastOne, Modes

\* The slot of a query that is over.
LEMMA FinishOK ==
    ASSUME QueryTypes, QueriesOK, NEW q \in Queries, Finish(q)
    PROVE  /\ QueriesOK'
           /\ snapshot' \in [Queries -> Pool]
           /\ untried' \in [Queries -> SUBSET Addrs]
           /\ running' \in [Queries -> SUBSET Addrs]
           /\ age' \in [Queries -> Nat]
           /\ waited' \in [Queries -> [Addrs -> Nat]]
           /\ \A p \in Queries : untried'[p] \cup running'[p] \subseteq snapshot'[p].clients
<1>1. /\ snapshot' \in [Queries -> Pool]
      /\ untried' \in [Queries -> SUBSET Addrs]
      /\ running' \in [Queries -> SUBSET Addrs]
      /\ age' \in [Queries -> Nat]
      /\ waited' \in [Queries -> [Addrs -> Nat]]
    BY ConstantTypes DEF QueryTypes, Finish
<1>2. /\ snapshot'[q] = NoPool /\ untried'[q] = {} /\ running'[q] = {}
      /\ age'[q] = 0 /\ waited'[q] = NotWaited
    BY DEF QueryTypes, Finish
<1>3. \A p \in Queries : p # q =>
          /\ snapshot'[p] = snapshot[p] /\ untried'[p] = untried[p] /\ running'[p] = running[p]
          /\ age'[p] = age[p] /\ waited'[p] = waited[p]
    BY DEF QueryTypes, Finish
<1>4. QueryOK(q)'
    BY <1>2 DEF QueryOK, Under, NotWaited
<1>5. QueriesOK'
    BY <1>3, <1>4, QueryAside DEF QueriesOK
<1>6. \A p \in Queries : untried'[p] \cup running'[p] \subseteq snapshot'[p].clients
    BY <1>2, <1>3 DEF QueryTypes
<1> QED BY <1>1, <1>5, <1>6

\* The health table, with one more success or failure.
LEMMA HealthType ==
    ASSUME QueryTypes, NEW a \in Addrs, RecordSuccess(a) \/ RecordFailure(a)
    PROVE  health' \in [Addrs -> [ok : Nat, err : Nat]]
<1>1. health[a] \in [ok : Nat, err : Nat]
    BY DEF QueryTypes
<1>2. PICK r : /\ r \in [ok : Nat, err : Nat]
               /\ health' = [health EXCEPT ![a] = r]
    <2>1. CASE RecordSuccess(a)
        <3>1. [health[a] EXCEPT !.ok = health[a].ok + 1] \in [ok : Nat, err : Nat]
            BY <1>1
        <3> QED BY <2>1, <3>1 DEF RecordSuccess
    <2>2. CASE RecordFailure(a)
        <3>1. [health[a] EXCEPT !.err = health[a].err + 1] \in [ok : Nat, err : Nat]
            BY <1>1
        <3> QED BY <2>2, <3>1 DEF RecordFailure
    <2> QED BY <2>1, <2>2
<1> QED BY <1>2 DEF QueryTypes

\* The first success.
LEMMA AnswersInv ==
    ASSUME QueryInv, NEW q \in Queries, NEW a \in Addrs, Answers(q, a)
    PROVE  QueryInv'
<1> USE DEF QueryInv
<1>1. QueriesOK'
    BY FinishOK DEF Answers
<1>2. health' \in [Addrs -> [ok : Nat, err : Nat]]
    BY HealthType DEF Answers
<1>3. QueryTypes'
    BY <1>2, FinishOK DEF Answers, QueryTypes, bounds
<1>4. MasksFailures'
    BY DEF Answers, MasksFailures
<1> QED BY <1>1, <1>3, <1>4

\* A query begins.
LEMMA BeginInv ==
    ASSUME QueryInv, HandlerTypes, NEW q \in Queries, Begin(q)
    PROVE  QueryInv'
<1> USE DEF QueryInv
<1>1. CASE /\ pool.clients = {}
           /\ failed' = [failed EXCEPT ![q] = {pool}]
           /\ UNCHANGED <<snapshot, untried, running>>
    <2>1. QueryTypes'
        BY <1>1 DEF Begin, QueryTypes, HandlerTypes
    <2>2. QueriesOK'
        BY <1>1, QueryAside DEF Begin, QueriesOK
    <2>3. MasksFailures'
        BY <1>1 DEF MasksFailures, QueryTypes
    <2> QED BY <2>1, <2>2, <2>3
<1>2. ASSUME NEW batch \in FirstBatch(pool),
             pool.clients # {},
             snapshot' = [snapshot EXCEPT ![q] = pool],
             running' = [running EXCEPT ![q] = batch],
             untried' = [untried EXCEPT ![q] = pool.clients \ batch],
             failed' = [failed EXCEPT ![q] = {}]
      PROVE  QueryInv'
    <2>1. pool \in Pool /\ pool.clients \in SUBSET Addrs /\ batch \in SUBSET pool.clients
        BY WidthType DEF HandlerTypes, FirstBatch
    <2>2. /\ snapshot'[q] = pool /\ running'[q] = batch /\ untried'[q] = pool.clients \ batch
          /\ age'[q] = 0 /\ waited'[q] = NotWaited
        BY <1>2 DEF Begin, QueryTypes, QueriesOK, QueryOK
    <2>3. \A p \in Queries : p # q =>
              /\ snapshot'[p] = snapshot[p] /\ untried'[p] = untried[p] /\ running'[p] = running[p]
              /\ age'[p] = age[p] /\ waited'[p] = waited[p]
        BY <1>2 DEF Begin, QueryTypes
    <2>4. QueryTypes'
        <3>1. /\ snapshot' \in [Queries -> Pool]
              /\ untried' \in [Queries -> SUBSET Addrs]
              /\ running' \in [Queries -> SUBSET Addrs]
              /\ failed' \in [Queries -> SUBSET Pool]
            BY <1>2, <2>1 DEF QueryTypes
        <3>2. \A p \in Queries : untried'[p] \cup running'[p] \subseteq snapshot'[p].clients
            BY <2>1, <2>2, <2>3 DEF QueryTypes
        <3> QED BY <3>1, <3>2 DEF Begin, QueryTypes
    <2>5. QueryOK(q)'
        <3>1. CASE batch = {}
            BY <2>2, <3>1 DEF QueryOK, Under
        <3>2. CASE batch # {}
            <4>1. pool.clients \ (pool.clients \ batch) = batch
                BY <2>1
            <4>2. Attempts(q)' = Cardinality(batch)
                BY <2>2, <4>1 DEF Attempts
            <4>3. TriedHaveFailed(q)'
                BY <2>1, <2>2 DEF TriedHaveFailed, Tried
            <4>4. AskedAtOnce(q)'
                <5>1. CASE pool.strategy.mode = "sequential"
                    <6>1. Cardinality(batch) = 1 /\ 1 <= MaxAttempts
                        BY <5>1, ConstantsAssumption DEF FirstBatch, MaxAttempts
                    <6>2. \E a \in Addrs : batch = {a}
                        BY <2>1, <6>1, AddrsCount, FS_Singleton
                    <6> QED BY <2>2, <4>2, <5>1, <6>1, <6>2 DEF AskedAtOnce
                <5>2. CASE pool.strategy.mode # "sequential"
                    BY <2>2, <4>2, <5>2 DEF AskedAtOnce, FirstBatch
                <5> QED BY <5>1, <5>2
            <4>5. AgeIsAttempts(q)'
                <5>1. \A a \in Addrs : NotWaited[a] = 0
                    BY DEF NotWaited
                <5>2. CASE pool.strategy.mode = "sequential"
                    <6>1. Cardinality(batch) = 1 /\ (1 - 1) * AttemptTimeout = 0
                        BY <5>2, ConstantsAssumption DEF FirstBatch
                    <6> QED BY <2>1, <2>2, <4>2, <5>1, <5>2, <6>1, ConstantsAssumption DEF AgeIsAttempts
                <5>3. CASE pool.strategy.mode # "sequential"
                    BY <2>1, <2>2, <5>1, <5>3, ConstantsAssumption DEF AgeIsAttempts
                <5> QED BY <5>2, <5>3
            <4> QED BY <2>2, <3>2, <4>3, <4>4, <4>5 DEF QueryOK, Under
        <3> QED BY <3>1, <3>2
    <2>6. QueriesOK'
        BY <2>3, <2>5, QueryAside DEF QueriesOK
    <2>7. MasksFailures'
        BY <1>2 DEF MasksFailures, QueryTypes
    <2> QED BY <2>4, <2>6, <2>7
<1> QED BY <1>1, <1>2 DEF Begin

\* The pool is exhausted: none of its upstreams works, or too many do not.
LEMMA Exhausted ==
    ASSUME QueryTypes, NEW q \in Queries, TriedHaveFailed(q), AskedAtOnce(q),
           NEW a \in Addrs, running[q] \subseteq {a}, a \in Down, NextCandidates(q, a) = {}
    PROVE  \/ snapshot[q].clients \subseteq Down
           \/ Cardinality(snapshot[q].clients \cap Down) >= Width(snapshot[q])
<1>1. PICK p \in Pool : p = snapshot[q]
    BY DEF QueryTypes
<1>2. p.clients \in SUBSET Addrs /\ Width(p) \in Nat
    BY WidthType
<1>3. PICK T \in SUBSET p.clients : T = Tried(q)
    BY <1>1 DEF Tried
<1>4. T \subseteq Down
    BY <1>3 DEF TriedHaveFailed
<1>5. Attempts(q) = Cardinality(T)
    BY <1>3 DEF Attempts, Tried
<1>6. Cardinality(T) \in Nat /\ Cardinality(p.clients) \in Nat /\ Cardinality(p.clients \cap Down) \in Nat
    BY <1>2, AddrsCount
<1>7. Cardinality(T) <= Cardinality(p.clients \cap Down)
    <2>1. IsFiniteSet(p.clients \cap Down) /\ T \in SUBSET (p.clients \cap Down)
        BY <1>2, <1>4, AddrsCount
    <2> QED BY <2>1, FS_Subset
<1>8. CASE p.strategy.mode = "sequential"
    <2>1. CASE untried[q] = {}
        BY <1>1, <1>3, <1>4, <2>1 DEF Tried
    <2>2. CASE untried[q] # {}
        <3>1. ~(Attempts(q) < MaxAttempts)
            BY <1>1, <1>8, <2>2 DEF NextCandidates
        <3>2. Width(p) = MaxAttempts
            BY <1>8, WidthType
        <3> QED BY <1>1, <1>2, <1>5, <1>6, <1>7, <3>1, <3>2
    <2> QED BY <2>1, <2>2
<1>9. CASE p.strategy.mode # "sequential"
    <2>1. Cardinality(T) = IF Cardinality(p.clients) < Width(p)
                           THEN Cardinality(p.clients) ELSE Width(p)
        BY <1>1, <1>5, <1>9 DEF AskedAtOnce
    <2>2. CASE Cardinality(T) = Cardinality(p.clients)
        <3>1. IsFiniteSet(p.clients)
            BY <1>2, AddrsCount
        <3>2. p.clients = T
            BY <2>2, <3>1, FS_Subset
        <3> QED BY <1>1, <1>4, <3>2
    <2>3. CASE Cardinality(T) = Width(p)
        BY <1>1, <1>2, <1>6, <1>7, <2>3
    <2> QED BY <2>1, <2>2, <2>3
<1> QED BY <1>8, <1>9

\* The next upstream is asked.
LEMMA NextAttempt ==
    ASSUME QueryTypes, NEW q \in Queries, QueryOK(q),
           NEW a \in Addrs, a \in running[q] \cap Down, NEW b \in NextCandidates(q, a),
           running'[q] = {b}, untried'[q] = untried[q] \ {b}, snapshot'[q] = snapshot[q],
           age'[q] = age[q], waited'[q] = waited[q]
    PROVE  QueryOK(q)'
<1>1. Under(q) /\ TriedHaveFailed(q) /\ AskedAtOnce(q) /\ AgeIsAttempts(q)
    BY DEF Under, QueryOK
<1>2. /\ snapshot[q].strategy.mode = "sequential" /\ Attempts(q) < MaxAttempts
      /\ b \in untried[q]
    BY DEF NextCandidates
<1>3. running[q] = {a}
    BY <1>1, <1>2 DEF AskedAtOnce
<1>4. snapshot[q] \in Pool /\ b \in snapshot[q].clients /\ b \in Addrs
    BY <1>2 DEF QueryTypes
<1>5. PICK T : T = Tried(q)
    OBVIOUS
<1>6. T \in SUBSET Addrs /\ b \notin T
    BY <1>2, <1>4, <1>5, WidthType DEF Tried
<1>7. Tried(q)' = T \cup {b}
    BY <1>4, <1>5 DEF Tried
<1>8. PICK k \in Nat : k = Attempts(q)
    BY <1>5, <1>6, AddrsCount DEF Attempts, Tried
<1>9. Attempts(q)' = k + 1
    <2>1. Cardinality(T \cup {b}) = Cardinality(T) + 1
        BY <1>6, AddrsCount, FS_AddElement
    <2> QED BY <1>5, <1>7, <1>8, <2>1 DEF Attempts, Tried
<1>10. TriedHaveFailed(q)'
    BY <1>1, <1>3, <1>5, <1>7 DEF TriedHaveFailed
<1>11. AskedAtOnce(q)'
    <2>1. k + 1 <= MaxAttempts
        BY <1>2, <1>8, ConstantsAssumption DEF MaxAttempts
    <2> QED BY <1>2, <1>4, <1>9, <2>1 DEF AskedAtOnce
<1>12. AgeIsAttempts(q)'
    <2>1. waited[q][b] = 0 /\ \A c \in untried[q] : waited[q][c] = 0
        BY <1>1, <1>2 DEF AgeIsAttempts
    <2>2. waited[q][a] <= AttemptTimeout /\ age[q] <= waited[q][a] + (k - 1) * AttemptTimeout
        BY <1>1, <1>2, <1>8 DEF AgeIsAttempts
    <2>3. waited[q][a] \in Nat /\ age[q] \in Nat /\ AttemptTimeout \in Nat
        BY ConstantsAssumption DEF QueryTypes
    <2>4. age[q] <= (k + 1 - 1) * AttemptTimeout
        BY <2>2, <2>3, BudgetStep
    <2>5. (k + 1 - 1) * AttemptTimeout \in Int
        BY <2>3
    <2>6. age[q] <= 0 + (k + 1 - 1) * AttemptTimeout
        BY <2>4, <2>5
    <2> QED BY <1>2, <1>9, <2>1, <2>3, <2>6 DEF AgeIsAttempts
<1> QED BY <1>10, <1>11, <1>12 DEF QueryOK, Under

\* The others that were asked at once go on.
LEMMA OthersGoOn ==
    ASSUME QueryTypes, NEW q \in Queries, QueryOK(q),
           NEW a \in Addrs, a \in running[q] \cap Down,
           running'[q] = running[q] \ {a}, running'[q] # {},
           untried'[q] = untried[q], snapshot'[q] = snapshot[q],
           age'[q] = age[q], waited'[q] = waited[q]
    PROVE  QueryOK(q)'
<1>1. Under(q) /\ TriedHaveFailed(q) /\ AskedAtOnce(q) /\ AgeIsAttempts(q)
    BY DEF Under, QueryOK
<1>2. snapshot[q].strategy.mode # "sequential"
    BY <1>1 DEF AskedAtOnce
<1>3. Attempts(q)' = Attempts(q) /\ Tried(q)' = Tried(q)
    BY DEF Attempts, Tried
<1>4. TriedHaveFailed(q)'
    BY <1>1, <1>3 DEF TriedHaveFailed
<1>5. AskedAtOnce(q)'
    BY <1>1, <1>2, <1>3 DEF AskedAtOnce
<1>6. AgeIsAttempts(q)'
    BY <1>1, <1>2 DEF AgeIsAttempts
<1> QED BY <1>4, <1>5, <1>6 DEF QueryOK, Under

\* An attempt fails.
LEMMA FailsInv ==
    ASSUME QueryInv, NEW q \in Queries, NEW a \in Addrs, Fails(q, a)
    PROVE  QueryInv'
<1> USE DEF QueryInv
<1>1. a \in running[q] \cap Down /\ health' \in [Addrs -> [ok : Nat, err : Nat]]
    BY HealthType DEF Fails
<1>2. QueryOK(q) /\ Under(q)
    BY <1>1 DEF QueriesOK, Under
<1>3. /\ UNCHANGED queries
      /\ running[q] \subseteq snapshot[q].clients /\ untried[q] \subseteq snapshot[q].clients
    BY DEF Fails, bounds, QueryTypes
<1>4. ASSUME NEW R \in SUBSET snapshot[q].clients, NEW U \in SUBSET untried[q],
             running' = [running EXCEPT ![q] = R], untried' = [untried EXCEPT ![q] = U],
             UNCHANGED <<snapshot, age, waited, failed>>, QueryOK(q)'
      PROVE  QueryInv'
    <2>1. \A p \in Queries : p # q => running'[p] = running[p] /\ untried'[p] = untried[p]
        BY <1>4 DEF QueryTypes
    <2>2. QueriesOK'
        BY <1>4, <2>1, QueryAside DEF QueriesOK
    <2>3. R \in SUBSET Addrs /\ U \in SUBSET Addrs
        <3>1. snapshot[q] \in Pool /\ untried[q] \in SUBSET Addrs
            BY DEF QueryTypes
        <3> QED BY <1>4, <3>1, WidthType
    <2>4. running'[q] = R /\ untried'[q] = U
        BY <1>4 DEF QueryTypes
    <2>5. running' \in [Queries -> SUBSET Addrs] /\ untried' \in [Queries -> SUBSET Addrs]
        BY <1>4, <2>3 DEF QueryTypes
    <2>6. \A p \in Queries : untried'[p] \cup running'[p] \subseteq snapshot'[p].clients
        BY <1>3, <1>4, <2>1, <2>4 DEF QueryTypes
    <2>7. QueryTypes'
        BY <1>1, <1>3, <1>4, <2>5, <2>6 DEF QueryTypes
    <2>8. MasksFailures'
        BY <1>4 DEF MasksFailures
    <2> QED BY <2>2, <2>7, <2>8
<1>5. ASSUME NEW b \in NextCandidates(q, a),
             running' = [running EXCEPT ![q] = {b}],
             untried' = [untried EXCEPT ![q] = @ \ {b}],
             UNCHANGED <<snapshot, age, waited, failed>>
      PROVE  QueryInv'
    <2>1. b \in untried[q]
        BY DEF NextCandidates
    <2>2. running'[q] = {b} /\ untried'[q] = untried[q] \ {b}
        BY <1>5 DEF QueryTypes
    <2>3. QueryOK(q)'
        BY <1>1, <1>2, <1>5, <2>2, NextAttempt
    <2>4. {b} \in SUBSET snapshot[q].clients /\ untried[q] \ {b} \in SUBSET untried[q]
        BY <1>3, <2>1
    <2>5. untried' = [untried EXCEPT ![q] = untried[q] \ {b}]
        BY <1>5
    <2> QED BY <1>4, <1>5, <2>3, <2>4, <2>5
<1>6. CASE /\ running[q] \ {a} # {}
           /\ running' = [running EXCEPT ![q] = running[q] \ {a}]
           /\ UNCHANGED <<snapshot, untried, age, waited, failed>>
    <2>1. running'[q] = running[q] \ {a}
        BY <1>6 DEF QueryTypes
    <2>2. QueryOK(q)'
        BY <1>1, <1>2, <1>6, <2>1, OthersGoOn
    <2>3. running[q] \ {a} \in SUBSET snapshot[q].clients /\ untried[q] \in SUBSET untried[q]
        BY <1>3
    <2>4. untried' = [untried EXCEPT ![q] = untried[q]]
        BY <1>6 DEF QueryTypes
    <2> QED BY <1>4, <1>6, <2>2, <2>3, <2>4
<1>7. CASE /\ NextCandidates(q, a) = {} /\ running[q] \ {a} = {}
           /\ failed' = [failed EXCEPT ![q] = {snapshot[q]}]
           /\ Finish(q)
    <2>1. QueriesOK'
        BY <1>7, FinishOK
    <2>2. failed' \in [Queries -> SUBSET Pool]
        BY <1>7 DEF QueryTypes
    <2>3. QueryTypes'
        BY <1>1, <1>3, <1>7, <2>2, FinishOK DEF QueryTypes
    <2>4. PICK s : s = snapshot[q]
        OBVIOUS
    <2>5. s.clients \subseteq Down \/ Cardinality(s.clients \cap Down) >= Width(s)
        BY <1>1, <1>2, <1>7, <2>4, Exhausted DEF QueryOK
    <2>6. /\ failed'[q] = {s}
          /\ \A p \in Queries : p # q => failed'[p] = failed[p]
        BY <1>7, <2>4 DEF QueryTypes
    <2>7. MasksFailures'
        BY <2>5, <2>6 DEF MasksFailures
    <2> QED BY <2>1, <2>3, <2>7
<1> QED BY <1>5, <1>6, <1>7 DEF Fails

\* Time passes.
LEMMA TickInv ==
    ASSUME QueryInv, Tick
    PROVE  QueryInv'
<1> USE DEF QueryInv
<1>1. QueryTypes'
    <2>1. age' \in [Queries -> Nat]
        BY DEF Tick, QueryTypes
    <2>2. waited' \in [Queries -> [Addrs -> Nat]]
        BY DEF Tick, QueryTypes
    <2> QED BY <2>1, <2>2 DEF Tick, QueryTypes, bounds
<1>2. ASSUME NEW q \in Queries
      PROVE  QueryOK(q)'
    <2>1. QueryOK(q) /\ UNCHANGED <<snapshot, untried, running>>
        BY DEF QueriesOK, Tick
    <2>2. CASE ~Under(q)
        <3>1. age'[q] = age[q]
            BY <2>2 DEF Tick
        <3>2. running[q] = {}
            BY <2>2 DEF Under
        <3>3. waited'[q] = [a \in Addrs |-> waited[q][a]]
            BY <3>2 DEF Tick
        <3>4. waited'[q] = waited[q]
            BY <3>3 DEF QueryTypes
        <3> QED BY <2>1, <3>1, <3>4, QueryAside
    <2>3. CASE Under(q)
        <3>1. age'[q] = age[q] + 1
            BY <2>3 DEF Tick
        <3>2. \A a \in Addrs : waited'[q][a] = IF a \in running[q] THEN waited[q][a] + 1 ELSE waited[q][a]
            BY DEF Tick
        <3>3. \A a \in running[q] : waited[q][a] < AttemptTimeout
            BY DEF Tick
        <3>4. TriedHaveFailed(q) /\ AskedAtOnce(q) /\ AgeIsAttempts(q)
            BY <2>1, <2>3 DEF QueryOK
        <3>5. Attempts(q)' = Attempts(q) /\ Tried(q)' = Tried(q)
            BY <2>1 DEF Attempts, Tried
        <3>6. TriedHaveFailed(q)' /\ AskedAtOnce(q)'
            BY <2>1, <3>4, <3>5 DEF TriedHaveFailed, AskedAtOnce
        <3>7. PICK x \in Int : x = IF snapshot[q].strategy.mode = "sequential"
                                   THEN (Attempts(q) - 1) * AttemptTimeout ELSE 0
            <4>1. Tried(q) \in SUBSET Addrs
                BY WidthType DEF Tried, QueryTypes
            <4>2. Attempts(q) \in Nat
                BY <4>1, AddrsCount DEF Attempts, Tried
            <4> QED BY <4>2, BudgetStep
        <3>8. \A a \in running[q] : /\ a \in Addrs /\ a \notin untried[q]
                                    /\ waited[q][a] \in Nat /\ age[q] \in Nat
                                    /\ age[q] <= waited[q][a] + x
            BY <3>4, <3>7 DEF AgeIsAttempts, TriedHaveFailed, QueryTypes
        <3>9. \A a \in running[q] : /\ waited'[q][a] <= AttemptTimeout
                                    /\ age'[q] <= waited'[q][a] + x
            BY <3>1, <3>2, <3>3, <3>7, <3>8, ConstantsAssumption
        <3>10. \A a \in untried[q] : waited'[q][a] = 0
            BY <3>2, <3>4 DEF AgeIsAttempts, TriedHaveFailed, QueryTypes
        <3>11. AgeIsAttempts(q)'
            BY <2>1, <3>5, <3>7, <3>9, <3>10 DEF AgeIsAttempts
        <3> QED BY <2>1, <2>3, <3>6, <3>11 DEF QueryOK, Under
    <2> QED BY <2>2, <2>3
<1>3. MasksFailures'
    BY DEF Tick, MasksFailures
<1> QED BY <1>1, <1>2, <1>3 DEF QueriesOK

-----------------------------------------------------------------------------
(* The handlers.                                                           *)

\* What the table's upstreams give a pool: all of them that work and whose name is valid.
LEMMA ConnectedClients ==
    ASSUME NEW S \in SUBSET Addrs, NEW c \in Connected(S)
    PROVE  c \subseteq S /\ {a \in S \ Down : ServerNameOk(a)} \subseteq c
<1>1. c \subseteq S /\ \A a \in S : (a \in c) \in Connects(a)
    BY DEF Connected
<1>2. ASSUME NEW a \in S, a \notin Down, ServerNameOk(a)
      PROVE  a \in c
    <2>1. Connects(a) = {TRUE}
        BY <1>2 DEF Connects
    <2>2. (a \in c) \in {TRUE}
        BY <1>1, <2>1
    <2> QED BY <2>2
<1> QED BY <1>1, <1>2

\* A request enters a handler.  Others that are at work are not alone any more, and
\* this one is only if there are none.
LEMMA EnterInv ==
    ASSUME HandlerInv, NEW h \in Handlers, NEW kind \in Jobs, NEW form \in Forms,
           NEW first \in {"get", "list"},
           first = "get" => kind \in {"settings", "theme"} /\ rows' = rows,
           first = "list" => kind = "upstreams",
           Enter(h, kind, form, first), settings' = settings,
           rows' \in SUBSET Addrs, RowsAreUsable'
    PROVE  HandlerInv'
<1> USE DEF HandlerInv
<1>1. HandlerTypes'
    <2>1. hpc' \in [Handlers -> {"idle", "get", "update", "store", "list", "connect"}]
        BY DEF HandlerTypes, Enter
    <2>2. job' \in [Handlers -> [kind : Jobs, form : Forms]]
        BY DEF HandlerTypes, Enter
    <2>3. \A g \in Handlers :
              (IF g = h THEN Busy = {} ELSE alone[g] /\ g \notin Busy) \in BOOLEAN
        BY ZenonT(30)
    <2>4. alone' \in [Handlers -> BOOLEAN]
        BY <2>3 DEF Enter
    <2>5. UNCHANGED <<live, pool, got, built, apart, faults>> /\ edits' \in Nat
        BY DEF HandlerTypes, Enter
    <2> QED BY <2>1, <2>2, <2>4, <2>5 DEF HandlerTypes
<1>2. /\ hpc'[h] = first /\ job'[h].kind = kind
      /\ \A k \in Handlers : k # h => hpc'[k] = hpc[k] /\ job'[k] = job[k]
      /\ UNCHANGED <<live, pool, got, built, apart>>
    BY DEF HandlerTypes, Enter
<1>3. JobsInOrder'
    BY <1>2 DEF JobsInOrder
<1>4. ASSUME NEW k \in Busy', alone'[k]
      PROVE  k = h /\ Busy = {}
    <2>1. k \in Handlers
        BY DEF Busy
    <2>2. CASE k # h
        <3>1. k \in Busy
            BY <1>2, <2>1, <2>2 DEF Busy
        <3>2. alone'[k] = (alone[k] /\ k \notin Busy)
            BY <2>1, <2>2 DEF Enter
        <3> QED BY <1>4, <3>1, <3>2
    <2>3. CASE k = h
        <3>1. alone'[h] = (Busy = {})
            BY DEF Enter
        <3> QED BY <1>4, <2>3, <3>1
    <2> QED BY <2>2, <2>3
<1>5. AloneMeansAlone'
    <2> SUFFICES ASSUME NEW k \in Busy', alone'[k]
                 PROVE  Busy' = {k}
        BY DEF AloneMeansAlone
    <2> QED BY <1>2, <1>4 DEF Busy
<1>6. LoneHandlers'
    <2> SUFFICES ASSUME NEW k \in Busy', alone'[k]
                 PROVE  ReliesOn(k)'
        BY DEF LoneHandlers
    <2>1. k = h /\ Together
        BY <1>4 DEF PoolFollowsEdits, Together, SettingsLive, PoolBuilt
    <2>2. CASE first = "get"
        BY <1>2, <2>1, <2>2 DEF ReliesOn, Together, SettingsLive, PoolBuilt
    <2>3. CASE first = "list"
        BY <1>2, <2>1, <2>3 DEF ReliesOn, Together, SettingsLive
    <2> QED BY <2>2, <2>3
<1>7. PoolFollowsEdits'
    <2>1. h \in Busy'
        BY <1>2 DEF Busy
    <2> QED BY <2>1 DEF PoolFollowsEdits
<1> QED BY <1>1, <1>3, <1>5, <1>6, <1>7

\* A handler goes on.  Only if it is alone is there anything to keep.
LEMMA GoesOnInv ==
    ASSUME HandlerInv, NEW h \in Handlers, hpc[h] # "idle",
           NEW to, to # "idle", hpc' = [hpc EXCEPT ![h] = to],
           UNCHANGED <<rows, job, alone>>,
           HandlerTypes', JobsInOrder', alone[h] => ReliesOn(h)'
    PROVE  HandlerInv'
<1> USE DEF HandlerInv
<1>1. Busy' = Busy /\ h \in Busy
    BY DEF Busy, HandlerTypes
<1>2. \A k \in Busy : alone[k] => k = h
    BY <1>1 DEF AloneMeansAlone
<1>3. AloneMeansAlone' /\ RowsAreUsable'
    BY <1>1 DEF AloneMeansAlone, RowsAreUsable
<1>4. LoneHandlers'
    BY <1>1, <1>2 DEF LoneHandlers
<1>5. PoolFollowsEdits'
    BY <1>1 DEF PoolFollowsEdits
<1> QED BY <1>3, <1>4, <1>5

\* A handler leaves.  Alone, it leaves things together; or it leaves a mark.
LEMMA LeaveInv ==
    ASSUME HandlerInv, NEW h \in Handlers, hpc[h] # "idle", NEW result, Leave(h, result),
           UNCHANGED <<rows, edits>>, settings' \in Settings, live' \in Strategy, pool' \in Pool,
           faults' \in Nat,
           alone[h] /\ result # "failed" => Together'
    PROVE  HandlerInv'
<1> USE DEF HandlerInv
<1>1. HandlerTypes'
    BY ConstantTypes DEF HandlerTypes, Leave
<1>2. /\ hpc'[h] = "idle"
      /\ \A k \in Handlers : k # h => hpc'[k] = hpc[k] /\ job'[k] = job[k] /\ alone'[k] = alone[k]
    BY DEF HandlerTypes, Leave
<1>3. JobsInOrder' /\ RowsAreUsable'
    BY <1>2 DEF JobsInOrder, RowsAreUsable
<1>4. h \in Busy /\ Busy' = Busy \ {h}
    BY <1>2 DEF Busy
<1>5. \A k \in Busy' : ~alone'[k]
    <2> SUFFICES ASSUME NEW k \in Busy', alone'[k]
                 PROVE  FALSE
        OBVIOUS
    <2>1. k \in Busy /\ k # h /\ k \in Handlers
        BY <1>4 DEF Busy
    <2>2. alone[k]
        BY <1>2, <2>1
    <2> QED BY <1>4, <2>1, <2>2 DEF AloneMeansAlone
<1>6. AloneMeansAlone' /\ LoneHandlers'
    BY <1>5 DEF AloneMeansAlone, LoneHandlers
<1>7. ~alone[h] \/ result = "failed" => Together'
    BY DEF Leave, Together, Parts
<1>8. PoolFollowsEdits'
    BY <1>7 DEF PoolFollowsEdits, Together, SettingsLive, PoolBuilt
<1> QED BY <1>1, <1>3, <1>6, <1>8

\* The statement of upstreams.rs, then the list.
LEMMA EditUpstreamsInv ==
    ASSUME HandlerInv, NEW h \in Handlers, NEW a \in Addrs, NEW on \in BOOLEAN,
           EditUpstreams(h, a, on)
    PROVE  HandlerInv'
<1>1. rows' \in SUBSET Addrs /\ RowsAreUsable'
    BY DEF EditUpstreams, HandlerInv, HandlerTypes, RowsAreUsable
<1>2. "upstreams" \in Jobs /\ Random \in Forms
    BY ConstantTypes DEF Jobs
<1>3. Enter(h, "upstreams", Random, "list") /\ settings' = settings
    BY DEF EditUpstreams
<1> QED BY <1>1, <1>2, <1>3, EnterInv

\* The two handlers of the settings row come in.
LEMMA EnterSettingsInv ==
    ASSUME HandlerInv, NEW h \in Handlers,
           (\E form \in Forms : SaveSettings(h, form)) \/ ToggleTheme(h)
    PROVE  HandlerInv'
<1>1. PICK kind \in {"settings", "theme"}, form \in Forms :
          Enter(h, kind, form, "get") /\ UNCHANGED dbVars
    BY ConstantTypes DEF SaveSettings, ToggleTheme
<1>2. kind \in Jobs
    BY DEF Jobs
<1>3. rows' = rows /\ settings' = settings /\ rows' \in SUBSET Addrs /\ RowsAreUsable'
    BY <1>1 DEF dbVars, HandlerInv, HandlerTypes, RowsAreUsable
<1> QED BY <1>1, <1>2, <1>3, EnterInv

\* They read the row.
LEMMA GetSettingsInv ==
    ASSUME HandlerInv, NEW h \in Handlers, GetSettings(h)
    PROVE  HandlerInv'
<1> USE DEF GetSettings, dbVars, overlap, bounds
<1>1. HandlerTypes'
    BY DEF HandlerInv, HandlerTypes
<1>2. /\ hpc'[h] = "update" /\ got'[h] = settings
      /\ \A k \in Handlers : k # h => hpc'[k] = hpc[k]
    BY DEF HandlerInv, HandlerTypes
<1>3. JobsInOrder'
    BY <1>2 DEF HandlerInv, JobsInOrder
<1>4. h \in Busy
    BY DEF Busy
<1>5. ASSUME alone[h]
      PROVE  ReliesOn(h)'
    <2>1. ReliesOn(h)
        BY <1>4, <1>5 DEF HandlerInv, LoneHandlers
    <2> QED BY <1>2, <2>1 DEF ReliesOn, Together, SettingsLive, PoolBuilt
<1> QED BY <1>1, <1>3, <1>5, GoesOnInv

\* The form is saved.
LEMMA UpdateSettingsInv ==
    ASSUME HandlerInv, NEW h \in Handlers, UpdateSettings(h)
    PROVE  HandlerInv'
<1> USE DEF UpdateSettings, overlap, bounds
<1>1. settings' \in Settings /\ settings'.strategy = job[h].form /\ job[h].form \in Strategy
    BY DEF HandlerInv, HandlerTypes, Settings, IntoSettings
<1>2. HandlerTypes'
    BY <1>1 DEF HandlerInv, HandlerTypes
<1>3. hpc'[h] = "store" /\ \A k \in Handlers : k # h => hpc'[k] = hpc[k]
    BY DEF HandlerInv, HandlerTypes
<1>4. JobsInOrder'
    BY <1>1, <1>3 DEF HandlerInv, JobsInOrder
<1>5. ReliesOn(h)'
    BY <1>1, <1>3 DEF ReliesOn
<1> QED BY <1>2, <1>4, <1>5, GoesOnInv

\* It goes live.
LEMMA StoreSettingsInv ==
    ASSUME HandlerInv, NEW h \in Handlers, StoreSettings(h)
    PROVE  HandlerInv'
<1> USE DEF StoreSettings, dbVars, overlap, bounds
<1>1. job[h].form \in Strategy /\ job[h].kind = "settings"
    BY DEF HandlerInv, JobsInOrder
<1>2. HandlerTypes'
    BY <1>1 DEF HandlerInv, HandlerTypes
<1>3. hpc'[h] = "list" /\ \A k \in Handlers : k # h => hpc'[k] = hpc[k]
    BY DEF HandlerInv, HandlerTypes
<1>4. JobsInOrder'
    BY <1>1, <1>3 DEF HandlerInv, JobsInOrder
<1>5. h \in Busy
    BY DEF Busy
<1>6. ASSUME alone[h]
      PROVE  ReliesOn(h)'
    <2>1. ReliesOn(h)
        BY <1>5, <1>6 DEF HandlerInv, LoneHandlers
    <2> QED BY <1>3, <2>1 DEF ReliesOn, SettingsLive
<1> QED BY <1>2, <1>4, <1>6, GoesOnInv

\* The rows are listed.
LEMMA ListEnabledInv ==
    ASSUME HandlerInv, NEW h \in Handlers, ListEnabled(h)
    PROVE  HandlerInv'
<1> USE DEF ListEnabled, dbVars, overlap, bounds
<1>1. {a \in rows : Mappable(a)} = rows
    BY DEF HandlerInv, RowsAreUsable, Usable
<1>2. PICK b : b = [clients |-> rows, strategy |-> live]
    OBVIOUS
<1>3. b \in Pool
    BY <1>2 DEF HandlerInv, HandlerTypes, Pool
<1>4. built' = [built EXCEPT ![h] = b]
    BY <1>1, <1>2
<1>5. HandlerTypes'
    BY <1>3, <1>4 DEF HandlerInv, HandlerTypes
<1>6. /\ hpc'[h] = "connect" /\ built'[h] = b
      /\ \A k \in Handlers : k # h => hpc'[k] = hpc[k]
    BY <1>4 DEF HandlerInv, HandlerTypes
<1>7. JobsInOrder'
    BY <1>6 DEF HandlerInv, JobsInOrder
<1>8. h \in Busy
    BY DEF Busy
<1>9. ASSUME alone[h]
      PROVE  ReliesOn(h)'
    <2>1. ReliesOn(h)
        BY <1>8, <1>9 DEF HandlerInv, LoneHandlers
    <2> QED BY <1>2, <1>6, <2>1 DEF ReliesOn, SettingsLive
<1> QED BY <1>5, <1>7, <1>9, GoesOnInv

\* The handlers that leave: the pool is stored, the theme flipped, the form refused, or
\* something fails.
LEMMA StorePoolInv ==
    ASSUME HandlerInv, NEW h \in Handlers, StorePool(h)
    PROVE  HandlerInv'
<1> USE DEF StorePool, dbVars, bounds
<1>1. PICK c \in Connected(built[h].clients) : pool' = [built[h] EXCEPT !.clients = c]
    OBVIOUS
<1>2. built[h] \in Pool /\ c \subseteq built[h].clients
    BY DEF HandlerInv, HandlerTypes, Connected
<1>3. pool' \in Pool /\ pool'.clients = c /\ pool'.strategy = built[h].strategy
    BY <1>1, <1>2 DEF Pool
<1>4. ASSUME alone[h]
      PROVE  Together'
    <2>1. h \in Busy
        BY DEF Busy
    <2>2. ReliesOn(h)
        BY <1>4, <2>1 DEF HandlerInv, LoneHandlers
    <2>3. built[h].clients = rows /\ built[h].strategy = live
        BY <2>2 DEF ReliesOn
    <2>4. "settings" \notin apart' => job[h].kind = "settings" \/ "settings" \notin apart
        BY <1>4 DEF Leave, Mends, HandlerInv, JobsInOrder
    <2>5. "settings" \notin apart' => SettingsLive'
        BY <2>2, <2>4 DEF ReliesOn, SettingsLive
    <2>6. c \subseteq rows /\ {a \in rows \ Down : ServerNameOk(a)} \subseteq c
        BY <2>3, ConnectedClients DEF HandlerInv, HandlerTypes
    <2>7. PoolBuilt'
        BY <1>3, <2>3, <2>6 DEF PoolBuilt
    <2> QED BY <2>5, <2>7 DEF Together
<1>5. Leave(h, "done") /\ settings' \in Settings /\ live' \in Strategy /\ faults' \in Nat
    BY DEF HandlerInv, HandlerTypes
<1> QED BY <1>3, <1>4, <1>5, LeaveInv

LEMMA UpdateThemeInv ==
    ASSUME HandlerInv, NEW h \in Handlers, UpdateTheme(h)
    PROVE  HandlerInv'
<1> USE DEF UpdateTheme, bounds
<1>1. got[h] \in Settings
    BY DEF HandlerInv, HandlerTypes
<1>2. settings' \in Settings /\ settings'.strategy = got[h].strategy
    BY <1>1 DEF Settings, Themes, Flip
<1>3. ASSUME alone[h]
      PROVE  Together'
    <2>1. h \in Busy
        BY DEF Busy
    <2>2. ReliesOn(h)
        BY <1>3, <2>1 DEF HandlerInv, LoneHandlers
    <2>3. apart' = apart
        BY <1>3 DEF Leave, Mends
    <2> QED BY <1>2, <2>2, <2>3 DEF ReliesOn, Together, SettingsLive, PoolBuilt
<1>4. Leave(h, "done") /\ live' \in Strategy /\ pool' \in Pool /\ faults' \in Nat
    BY DEF HandlerInv, HandlerTypes
<1> QED BY <1>2, <1>3, <1>4, LeaveInv

LEMMA RefuseFormInv ==
    ASSUME HandlerInv, NEW h \in Handlers, RefuseForm(h)
    PROVE  HandlerInv'
<1> USE DEF RefuseForm, dbVars, bounds
<1>1. ASSUME alone[h]
      PROVE  Together'
    <2>1. h \in Busy
        BY DEF Busy
    <2>2. ReliesOn(h)
        BY <1>1, <2>1 DEF HandlerInv, LoneHandlers
    <2>3. apart' = apart
        BY <1>1 DEF Leave
    <2> QED BY <2>2, <2>3 DEF ReliesOn, Together, SettingsLive, PoolBuilt
<1>2. /\ Leave(h, "refused") /\ settings' \in Settings /\ live' \in Strategy /\ pool' \in Pool
      /\ faults' \in Nat
    BY DEF HandlerInv, HandlerTypes
<1> QED BY <1>1, <1>2, LeaveInv

LEMMA HandlerFailsInv ==
    ASSUME HandlerInv, NEW h \in Handlers, HandlerFails(h)
    PROVE  HandlerInv'
<1> USE DEF HandlerFails, dbVars, bounds
<1>1. /\ Leave(h, "failed") /\ settings' \in Settings /\ live' \in Strategy /\ pool' \in Pool
      /\ faults' \in Nat
    BY DEF HandlerInv, HandlerTypes
<1> QED BY <1>1, LeaveInv

-----------------------------------------------------------------------------
(* The theorems.                                                           *)

\* A first start.
LEMMA InitInv == Init => IInv
<1> SUFFICES ASSUME Init
             PROVE  QueryInv /\ HandlerInv
    BY Halves
<1> USE DEF Init
<1>1. QueryTypes
    BY ConstantTypes DEF QueryTypes
<1>2. QueryInv
    BY <1>1 DEF QueryInv, QueriesOK, QueryOK, Under, MasksFailures
<1>3. PICK c \in Connected(rows) : pool = [clients |-> c, strategy |-> live]
    OBVIOUS
<1>4. /\ rows \in SUBSET Addrs /\ RowsAreUsable /\ c \subseteq rows
      /\ {a \in rows \ Down : ServerNameOk(a)} \subseteq c
    BY ConnectedClients DEF RowsAreUsable
<1>5. pool \in Pool /\ pool.clients = c /\ pool.strategy = live
    BY <1>3, <1>4, ConstantTypes DEF Pool
<1>6. HandlerTypes
    BY <1>4, <1>5, ConstantTypes DEF HandlerTypes
<1>7. Busy = {} /\ JobsInOrder
    BY DEF Busy, JobsInOrder
<1>8. PoolFollowsEdits
    BY <1>4, <1>5 DEF PoolFollowsEdits, Seeded
<1> QED BY <1>2, <1>4, <1>6, <1>7, <1>8 DEF HandlerInv, AloneMeansAlone, LoneHandlers

\* Every step keeps the invariant.
LEMMA NextInv == IInv /\ [Next]_vars => IInv'
<1> SUFFICES ASSUME QueryInv, HandlerInv, [Next]_vars
             PROVE  QueryInv' /\ HandlerInv'
    BY Halves
<1>1. ASSUME NEW q \in Queries, Begin(q)
      PROVE  QueryInv' /\ HandlerInv'
    BY <1>1, BeginInv, HandlersAside DEF Begin, HandlerInv
<1>2. ASSUME NEW q \in Queries, NEW a \in Addrs, Answers(q, a) \/ Fails(q, a)
      PROVE  QueryInv' /\ HandlerInv'
    <2>1. UNCHANGED <<dbVars, live, pool, handlerVars, overlap, edits, faults>>
        BY <1>2 DEF Answers, Fails, bounds
    <2> QED BY <1>2, <2>1, AnswersInv, FailsInv, HandlersAside
<1>3. CASE Tick
    BY <1>3, TickInv, HandlersAside DEF Tick, bounds
<1>4. ASSUME NEW h \in Handlers,
             \/ \E a \in Addrs, on \in BOOLEAN : EditUpstreams(h, a, on)
             \/ \E form \in Forms : SaveSettings(h, form)
             \/ ToggleTheme(h) \/ GetSettings(h) \/ UpdateTheme(h)
             \/ RefuseForm(h) \/ UpdateSettings(h) \/ StoreSettings(h)
             \/ ListEnabled(h) \/ StorePool(h) \/ HandlerFails(h)
      PROVE  QueryInv' /\ HandlerInv'
    <2>1. UNCHANGED <<queryVars, failed, health, queries>>
        BY <1>4 DEF EditUpstreams, SaveSettings, ToggleTheme, Enter, GetSettings, UpdateTheme,
            RefuseForm, UpdateSettings, StoreSettings, ListEnabled, StorePool, HandlerFails, bounds
    <2>2. HandlerInv'
        BY <1>4, EditUpstreamsInv, EnterSettingsInv, GetSettingsInv, UpdateThemeInv, RefuseFormInv,
            UpdateSettingsInv, StoreSettingsInv, ListEnabledInv, StorePoolInv, HandlerFailsInv
    <2> QED BY <2>1, <2>2, QueriesAside
<1>5. CASE UNCHANGED vars
    BY <1>5, QueriesAside, HandlersAside DEF vars, bounds
<1> QED BY <1>1, <1>2, <1>3, <1>4, <1>5 DEF Next, Forward, Admin

\* The inductive invariant holds in every reachable state.
THEOREM Invariance == Spec => []IInv
    BY InitInv, NextInv, PTL DEF Spec

\* Every variable keeps its type.
THEOREM Typing == Spec => []TypeOK
<1>1. IInv => TypeOK
    BY DEF IInv
<1> QED BY <1>1, Invariance, PTL

\* The pool is through with a query before the request timeout, whichever pool it
\* started on: the attempts of a budget, one after the other, add up to less.
THEOREM FailoverIsInTime == Spec => []FailoverFits
<1>1. IInv => FailoverFits
    <2> SUFFICES ASSUME IInv, NEW q \in Queries, Under(q)
                 PROVE  age[q] < RequestTimeout
        BY DEF FailoverFits
    <2>1. AskedAtOnce(q) /\ AgeIsAttempts(q)
        BY DEF IInv, QueriesOK, QueryOK
    <2>2. PICK a \in running[q] : a \in Addrs
        BY DEF Under, IInv, TypeOK
    <2>3. /\ age[q] \in Nat /\ waited[q][a] \in Nat /\ waited[q][a] <= AttemptTimeout
          /\ AttemptTimeout \in Nat /\ RequestTimeout \in Nat
        BY <2>1, <2>2, ConstantsAssumption DEF IInv, TypeOK, AgeIsAttempts
    <2>4. CASE snapshot[q].strategy.mode = "sequential"
        <3>1. Tried(q) \in SUBSET Addrs
            BY WidthType DEF Tried, IInv, TypeOK
        <3>2. PICK k \in Nat : k = Attempts(q)
            BY <3>1, AddrsCount DEF Attempts, Tried
        <3>3. age[q] <= waited[q][a] + (k - 1) * AttemptTimeout /\ k <= MaxAttempts
            BY <2>1, <2>2, <2>4, <3>2 DEF AgeIsAttempts, AskedAtOnce
        <3>4. (k - 1) * AttemptTimeout \in Int
            BY BudgetStep
        <3>5. (k - 1) * AttemptTimeout + AttemptTimeout < RequestTimeout
            BY <3>3, BudgetFits
        <3> QED BY <2>3, <3>3, <3>4, <3>5
    <2>5. CASE snapshot[q].strategy.mode # "sequential"
        <3>1. age[q] <= waited[q][a] + 0
            BY <2>1, <2>2, <2>5 DEF AgeIsAttempts
        <3>2. 1 <= MaxAttempts /\ (1 - 1) * AttemptTimeout = 0
            BY <2>3, ConstantsAssumption DEF MaxAttempts
        <3>3. AttemptTimeout < RequestTimeout
            BY <2>3, <3>2, BudgetFits
        <3> QED BY <2>3, <3>1, <3>3
    <2> QED BY <2>4, <2>5
<1> QED BY <1>1, Invariance, PTL

\* A query fails only on a pool with no upstream that works, or with at least as many
\* dead ones as are asked.
THEOREM FailuresAreMasked == Spec => []MasksFailures
<1>1. IInv => MasksFailures
    BY DEF IInv
<1> QED BY <1>1, Invariance, PTL

\* rebuild_upstream_pool, apply_settings: with no handler at work the pool is the one the
\* tables call for, and overlaps and failures undo that only up to the next edit that
\* runs alone.
THEOREM EditsTakeEffect == Spec => []PoolFollowsEdits
<1>1. IInv => PoolFollowsEdits
    BY DEF IInv
<1> QED BY <1>1, Invariance, PTL

=============================================================================
