---------------------- MODULE BlocklistScheduler_proofs ----------------------
(***************************************************************************)
(* Proofs about BlocklistScheduler, for any set of lists, any bodies and   *)
(* any bounds.                                                             *)
(***************************************************************************)
EXTENDS BlocklistScheduler, TLAPS

\* The action formulas that only name others.
USE ConstantsAssumption DEF None, Ids, OptId, OptVersion, BudgetKinds

\* Next, as the list of its actions.
LEMMA NextCases ==
    ASSUME Next, NEW P,
           Boot => P, BootList => P, BootInstall => P, Crash => P,
           Cancel => P, Exit => P, Trigger => P, HandlerDropped => P,
           RefreshNow => P, SleepElapsed => P, Notified => P, Stop => P,
           ListEnabled => P, SaveCache => P, UpdateMetadata => P,
           AddCached => P, FinishRefresh => P,
           \A s \in todo : BootLoad(s) => P,
           \A s \in todo : FetchModified(s) => P,
           \A s \in todo : FetchEmpty(s) => P,
           \A s \in todo : FetchNotModified(s) => P,
           \A s \in todo : FetchError(s) => P,
           \A u \in Urls : AddBlocklist(u) => P,
           \A i \in Ids : RemoveBlocklist(i) => P,
           \A i \in Ids, on \in BOOLEAN : ToggleBlocklist(i, on) => P,
           \A u \in Urls, v \in Versions : Publish(u, v) => P
    PROVE  P
BY Zenon DEF Next, Offline, Admin, Loop, Refresh, Fetch

\* Spending keeps the budget a function to the naturals that only decreases.
LEMMA SpendType ==
    ASSUME budget \in [BudgetKinds -> Nat], NEW kind \in BudgetKinds, Spend(kind)
    PROVE  /\ budget' \in [BudgetKinds -> Nat]
           /\ budget'[kind] = budget[kind] - 1
           /\ \A k \in BudgetKinds : budget'[k] <= budget[k]
BY DEF Spend

\* OrInsert yields a map again.
LEMMA OrInsertType ==
    ASSUME NEW map \in [Domains -> OptId], NEW id \in Ids, NEW names
    PROVE  OrInsert(map, id, names) \in [Domains -> OptId]
BY DEF OrInsert

\* list_enabled() returns rows.
LEMMA EnabledRowsType == TypeOK => EnabledRows \in SUBSET SourceRow
<1> SUFFICES ASSUME TypeOK, NEW i \in enabled
             PROVE  [id |-> i, etag |-> etag[i]] \in SourceRow
    BY DEF EnabledRows
<1>1. i \in Ids /\ etag[i] \in OptVersion
    BY DEF TypeOK
<1> QED BY <1>1 DEF SourceRow

\* The initial states are typed.
LEMMA InitType == Init => TypeOK
<1> SUFFICES ASSUME Init PROVE TypeOK
    OBVIOUS
<1>1. (CHOOSE u \in Urls : TRUE) \in Urls
    OBVIOUS
<1>2. url \in [Ids -> Urls]
    BY <1>1 DEF Init
<1>3. QED
    BY <1>2 DEF Init, TypeOK, NoContribution, EmptySet, Phases

\* Every step keeps the types.
LEMMA NextType == TypeOK /\ [Next]_vars => TypeOK'
<1> SUFFICES ASSUME TypeOK, [Next]_vars PROVE TypeOK'
    OBVIOUS
<1> USE DEF TypeOK, dbVars, cycleVars
<1>1. CASE UNCHANGED vars
    BY <1>1 DEF vars
<1>2. ASSUME Boot PROVE TypeOK'
    BY <1>2 DEF Boot, Phases
<1>3. ASSUME BootList PROVE TypeOK'
    <2>1. todo' \in SUBSET SourceRow /\ phase' \in Phases
        BY <1>3, EnabledRowsType DEF BootList, Phases
    <2>2. merged' \in [Domains -> OptId] /\ contributions' \in [Ids -> OptVersion]
        BY <1>3 DEF BootList, NewAggregator, EmptySet, NoContribution
    <2>3. budget' \in [BudgetKinds -> Nat]
        BY <1>3, SpendType DEF BootList, DbFails
    <2> QED BY <1>3, <2>1, <2>2, <2>3 DEF BootList
<1>4. ASSUME BootInstall PROVE TypeOK'
    BY <1>4 DEF BootInstall, InstallAggregator, Phases
<1>5. ASSUME Crash PROVE TypeOK'
    <2>1. budget' \in [BudgetKinds -> Nat]
        BY <1>5, SpendType DEF Crash
    <2> QED BY <1>5, <2>1 DEF Crash, LoseMemory, EmptySet, NoContribution, Phases
<1>6. ASSUME Cancel PROVE TypeOK'
    <2>1. budget' \in [BudgetKinds -> Nat]
        BY <1>6, SpendType DEF Cancel
    <2> QED BY <1>6, <2>1 DEF Cancel
<1>7. ASSUME Exit PROVE TypeOK'
    BY <1>7 DEF Exit, LoseMemory, EmptySet, NoContribution, Phases
<1>8. ASSUME Trigger PROVE TypeOK'
    BY <1>8, SMTT(60) DEF Trigger
<1>9. ASSUME HandlerDropped PROVE TypeOK'
    <2>1. budget' \in [BudgetKinds -> Nat]
        BY <1>9, SpendType DEF HandlerDropped
    <2>2. handlers' \in Nat
        BY <1>9 DEF HandlerDropped
    <2> QED BY <1>9, <2>1, <2>2 DEF HandlerDropped
<1>10. ASSUME RefreshNow PROVE TypeOK'
    <2>1. budget' \in [BudgetKinds -> Nat]
        BY <1>10, SpendType DEF RefreshNow
    <2> QED BY <1>10, <2>1 DEF RefreshNow
<1>11. ASSUME SleepElapsed PROVE TypeOK'
    BY <1>11 DEF SleepElapsed, Phases
<1>12. ASSUME Notified PROVE TypeOK'
    BY <1>12 DEF Notified, Phases
<1>13. ASSUME Stop PROVE TypeOK'
    BY <1>13 DEF Stop, Phases
<1>14. ASSUME ListEnabled PROVE TypeOK'
    <2>1. todo' \in SUBSET SourceRow /\ phase' \in Phases
        BY <1>14, EnabledRowsType DEF ListEnabled, Phases
    <2>2. merged' \in [Domains -> OptId] /\ contributions' \in [Ids -> OptVersion]
        BY <1>14 DEF ListEnabled, NewAggregator, EmptySet, NoContribution
    <2>3. budget' \in [BudgetKinds -> Nat]
        BY <1>14, SpendType DEF ListEnabled, DbFails
    <2>4. listed' \in SUBSET Ids /\ unseen' \in BOOLEAN /\ complete' \in BOOLEAN
        BY <1>14 DEF ListEnabled
    <2> QED BY <1>14, <2>1, <2>2, <2>3, <2>4 DEF ListEnabled
<1>15. ASSUME SaveCache PROVE TypeOK'
    <2>1. budget' \in [BudgetKinds -> Nat]
        BY <1>15, SpendType DEF SaveCache, DbFails
    <2>2. cache' \in [Ids -> OptVersion]
        BY <1>15 DEF SaveCache
    <2> QED BY <1>15, <2>1, <2>2 DEF SaveCache, Phases
<1>16. ASSUME UpdateMetadata PROVE TypeOK'
    <2>1. budget' \in [BudgetKinds -> Nat]
        BY <1>16, SpendType DEF UpdateMetadata, DbFails
    <2>2. etag' \in [Ids -> OptVersion]
        BY <1>16 DEF UpdateMetadata, ResponseValidators
    <2> QED BY <1>16, <2>1, <2>2 DEF UpdateMetadata, Phases
<1>17. ASSUME AddCached PROVE TypeOK'
    <2>1. budget' \in [BudgetKinds -> Nat]
        BY <1>17, SpendType DEF AddCached, DbFails
    <2>2. CASE Add(current, cache[current])
        <3>1. CASE current \in Ids
            BY <1>17, <2>1, <2>2, <3>1, OrInsertType DEF AddCached, Add, Phases
        <3> QED BY <1>17, <2>1, <2>2, <3>1 DEF AddCached, Add, Phases, OrInsert
    <2> QED BY <1>17, <2>1, <2>2 DEF AddCached, Phases
<1>18. ASSUME FinishRefresh PROVE TypeOK'
    BY <1>18 DEF FinishRefresh, InstallAggregator, Phases
<1>19. ASSUME NEW s \in todo, BootLoad(s) PROVE TypeOK'
    <2>1. budget' \in [BudgetKinds -> Nat]
        BY <1>19, SpendType DEF BootLoad, DbFails
    <2>2. s.id \in Ids
        BY DEF SourceRow
    <2>3. merged' \in [Domains -> OptId] /\ contributions' \in [Ids -> OptVersion]
        <3>1. CASE Add(s.id, cache[s.id])
            BY <2>2, <3>1, OrInsertType DEF Add
        <3> QED BY <1>19, <3>1 DEF BootLoad
    <2> QED BY <1>19, <2>1, <2>3 DEF BootLoad
<1>20. ASSUME NEW s \in todo, FetchModified(s) PROVE TypeOK'
    <2>1. s.id \in Ids /\ served[url[s.id]] \in Versions
        BY DEF SourceRow
    <2>2. merged' \in [Domains -> OptId] /\ contributions' \in [Ids -> OptVersion]
        BY <1>20, <2>1, OrInsertType DEF FetchModified, Add
    <2> QED BY <1>20, <2>1, <2>2 DEF FetchModified, Take, Phases
<1>21. ASSUME NEW s \in todo, FetchEmpty(s) PROVE TypeOK'
    <2>1. s.id \in Ids
        BY DEF SourceRow
    <2> QED BY <1>21, <2>1 DEF FetchEmpty, Take, Phases
<1>22. ASSUME NEW s \in todo, FetchNotModified(s) PROVE TypeOK'
    <2>1. s.id \in Ids
        BY DEF SourceRow
    <2> QED BY <1>22, <2>1 DEF FetchNotModified, Take, Phases
<1>23. ASSUME NEW s \in todo, FetchError(s) PROVE TypeOK'
    <2>1. budget' \in [BudgetKinds -> Nat]
        BY <1>23, SpendType DEF FetchError
    <2>2. s.id \in Ids
        BY DEF SourceRow
    <2> QED BY <1>23, <2>1, <2>2 DEF FetchError, Take, Phases
<1>24. ASSUME NEW u \in Urls, AddBlocklist(u) PROVE TypeOK'
    <2>1. budget' \in [BudgetKinds -> Nat]
        BY <1>24, SpendType DEF AddBlocklist, Writes
    <2>2. lastId + 1 \in Ids /\ lastId' \in Nat
        BY <1>24 DEF AddBlocklist
    <2>3. present' \in SUBSET Ids /\ enabled' \in SUBSET present'
        BY <1>24, <2>2 DEF AddBlocklist
    <2>4. url' \in [Ids -> Urls]
        BY <1>24, <2>2 DEF AddBlocklist
    <2>5. unseen' \in BOOLEAN
        BY <1>24, Zenon DEF AddBlocklist, Writes
    <2>6. handlers' \in Nat
        BY <1>24 DEF AddBlocklist, Writes
    <2> QED BY <1>24, <2>1, <2>2, <2>3, <2>4, <2>5, <2>6 DEF AddBlocklist, Writes
<1>25. ASSUME NEW i \in Ids, RemoveBlocklist(i) PROVE TypeOK'
    <2>1. budget' \in [BudgetKinds -> Nat]
        BY <1>25, SpendType DEF RemoveBlocklist, Writes
    <2>2. present' \in SUBSET Ids /\ enabled' \in SUBSET present'
        BY <1>25 DEF RemoveBlocklist
    <2>3. etag' \in [Ids -> OptVersion] /\ cache' \in [Ids -> OptVersion]
        BY <1>25 DEF RemoveBlocklist
    <2>4. unseen' \in BOOLEAN
        BY <1>25, Zenon DEF RemoveBlocklist, Writes
    <2>5. handlers' \in Nat
        BY <1>25 DEF RemoveBlocklist, Writes
    <2> QED BY <1>25, <2>1, <2>2, <2>3, <2>4, <2>5 DEF RemoveBlocklist, Writes
<1>26. ASSUME NEW i \in Ids, NEW on \in BOOLEAN, ToggleBlocklist(i, on)
       PROVE TypeOK'
    <2>1. budget' \in [BudgetKinds -> Nat]
        BY <1>26, SpendType DEF ToggleBlocklist, Writes
    <2>2. present' \in SUBSET Ids /\ enabled' \in SUBSET present'
        BY <1>26 DEF ToggleBlocklist
    <2>3. unseen' \in BOOLEAN
        BY <1>26, Zenon DEF ToggleBlocklist, Writes
    <2>4. handlers' \in Nat
        BY <1>26 DEF ToggleBlocklist, Writes
    <2> QED BY <1>26, <2>1, <2>2, <2>3, <2>4 DEF ToggleBlocklist, Writes
<1>27. ASSUME NEW u \in Urls, NEW v \in Versions, Publish(u, v) PROVE TypeOK'
    <2>1. budget' \in [BudgetKinds -> Nat]
        BY <1>27, SpendType DEF Publish
    <2> QED BY <1>27, <2>1 DEF Publish
<1> HIDE DEF TypeOK
<1>28. CASE Next
    BY ONLY <1>28, <1>2, <1>3, <1>4, <1>5, <1>6, <1>7, <1>8, <1>9, <1>10, <1>11,
       <1>12, <1>13, <1>14, <1>15, <1>16, <1>17, <1>18, <1>19, <1>20, <1>21,
       <1>22, <1>23, <1>24, <1>25, <1>26, <1>27, NextCases
<1> QED BY <1>1, <1>28

\* Every variable keeps its type, whatever the environment does.
THEOREM Typing == Spec => []TypeOK
BY InitType, NextType, PTL DEF Spec

-----------------------------------------------------------------------------
(* The steps of Next, by what they do to a cycle.                          *)

\* Steps that leave the database, the cycle and the live set alone.
Aside ==
    /\ UNCHANGED <<dbVars, live, installed, cycleVars, listed>>
    /\ \/ phase' = phase
       \/ phase \in {"down", "idle"} /\ phase' \in {"bootList", "list", "stopped"}

\* The three ways a fetch ends without a usable body.
ToFallback(s) ==
    /\ Take(s)
    /\ phase' = "fallback"
    /\ UNCHANGED <<body, merged, contributions>>

\* The actions that only move the loop, the trigger or the world outside.
LEMMA AsideSteps ==
    ASSUME Boot \/ Cancel \/ Trigger \/ HandlerDropped \/ RefreshNow
             \/ SleepElapsed \/ Notified \/ Stop
             \/ \E u \in Urls, v \in Versions : Publish(u, v)
    PROVE  Aside
BY DEF Aside, dbVars, cycleVars, Boot, Cancel, Trigger, HandlerDropped,
       RefreshNow, SleepElapsed, Notified, Stop, Publish

\* Next again, by what an action does to the tables and the maps.
LEMMA StepKinds ==
    ASSUME Next, NEW P,
           Aside => P, LoseMemory => P, BootList => P, BootInstall => P,
           ListEnabled => P, SaveCache => P, UpdateMetadata => P,
           AddCached => P, FinishRefresh => P,
           \A s \in todo : BootLoad(s) => P,
           \A s \in todo : FetchModified(s) => P,
           \A s \in todo : ToFallback(s) => P,
           \A u \in Urls : AddBlocklist(u) => P,
           \A i \in Ids : RemoveBlocklist(i) => P,
           \A i \in Ids, on \in BOOLEAN : ToggleBlocklist(i, on) => P
    PROVE  P
<1>1. \A s \in todo : FetchEmpty(s) \/ FetchNotModified(s) \/ FetchError(s)
                        => ToFallback(s)
    BY Zenon DEF FetchEmpty, FetchNotModified, FetchError, ToFallback
<1>2. Crash \/ Exit => LoseMemory
    BY DEF Crash, Exit
<1> QED BY ONLY <1>1, <1>2, NextCases, AsideSteps, Zenon, Next,
           Aside => P, LoseMemory => P, BootList => P, BootInstall => P,
           ListEnabled => P, SaveCache => P, UpdateMetadata => P,
           AddCached => P, FinishRefresh => P,
           \A s \in todo : BootLoad(s) => P,
           \A s \in todo : FetchModified(s) => P,
           \A s \in todo : ToFallback(s) => P,
           \A u \in Urls : AddBlocklist(u) => P,
           \A i \in Ids : RemoveBlocklist(i) => P,
           \A i \in Ids, on \in BOOLEAN : ToggleBlocklist(i, on) => P
-----------------------------------------------------------------------------
(* The parts of the inductive invariant, one step lemma each.              *)

\* Ids in use are at most lastId.
LEMMA IdsHandedOutStep ==
    ASSUME TypeOK, IdsHandedOut, [Next]_vars
    PROVE  IdsHandedOut'
<1> USE DEF TypeOK, IdsHandedOut, SourceRow, dbVars, cycleVars, EnabledRows
<1>1. CASE UNCHANGED vars
    BY <1>1 DEF vars
<1>2. ASSUME Aside PROVE IdsHandedOut'
    BY <1>2 DEF Aside
<1>3. ASSUME LoseMemory PROVE IdsHandedOut'
    BY <1>3 DEF LoseMemory, EmptySet, NoContribution
<1>4. ASSUME BootList PROVE IdsHandedOut'
    BY <1>4, SMTT(60) DEF BootList, NewAggregator, EmptySet, NoContribution
<1>5. ASSUME BootInstall PROVE IdsHandedOut'
    BY <1>5 DEF BootInstall, InstallAggregator
<1>6. ASSUME ListEnabled PROVE IdsHandedOut'
    BY <1>6, SMTT(60) DEF ListEnabled, NewAggregator, EmptySet, NoContribution
<1>7. ASSUME SaveCache PROVE IdsHandedOut'
    BY <1>7 DEF SaveCache
<1>8. ASSUME UpdateMetadata PROVE IdsHandedOut'
    BY <1>8 DEF UpdateMetadata
<1>9. ASSUME AddCached PROVE IdsHandedOut'
    BY <1>9 DEF AddCached, Add
<1>10. ASSUME FinishRefresh PROVE IdsHandedOut'
    BY <1>10 DEF FinishRefresh, InstallAggregator
<1>11. ASSUME NEW s \in todo, BootLoad(s) PROVE IdsHandedOut'
    BY <1>11 DEF BootLoad, Add, NextSource
<1>12. ASSUME NEW s \in todo, FetchModified(s) PROVE IdsHandedOut'
    BY <1>12 DEF FetchModified, Take, Add, NextSource
<1>13. ASSUME NEW s \in todo, ToFallback(s) PROVE IdsHandedOut'
    BY <1>13 DEF ToFallback, Take, NextSource
<1>14. ASSUME NEW u \in Urls, AddBlocklist(u) PROVE IdsHandedOut'
    BY <1>14, SMTT(60) DEF AddBlocklist, Writes
<1>15. ASSUME NEW i \in Ids, RemoveBlocklist(i) PROVE IdsHandedOut'
    BY <1>15 DEF RemoveBlocklist, Writes
<1>16. ASSUME NEW i \in Ids, NEW on \in BOOLEAN, ToggleBlocklist(i, on)
       PROVE  IdsHandedOut'
    BY <1>16 DEF ToggleBlocklist, Writes
<1> HIDE DEF TypeOK, IdsHandedOut, SourceRow, dbVars, cycleVars, EnabledRows
<1>17. CASE Next
    BY ONLY <1>17, StepKinds, <1>2, <1>3, <1>4, <1>5, <1>6, <1>7, <1>8,
       <1>9, <1>10, <1>11, <1>12, <1>13, <1>14, <1>15, <1>16
<1> QED BY <1>1, <1>17

\* The loop takes the sources in ascending id order.
LEMMA InOrderStep ==
    ASSUME TypeOK, InOrder, [Next]_vars
    PROVE  InOrder'
<1> USE DEF TypeOK, InOrder, SourceRow, dbVars, cycleVars, EnabledRows
<1>1. CASE UNCHANGED vars
    BY <1>1 DEF vars
<1>2. ASSUME Aside PROVE InOrder'
    BY <1>2 DEF Aside
<1>3. ASSUME LoseMemory PROVE InOrder'
    BY <1>3 DEF LoseMemory, EmptySet, NoContribution
<1>4. ASSUME BootList PROVE InOrder'
    BY <1>4, SMTT(60) DEF BootList, NewAggregator, EmptySet, NoContribution
<1>5. ASSUME BootInstall PROVE InOrder'
    BY <1>5 DEF BootInstall, InstallAggregator
<1>6. ASSUME ListEnabled PROVE InOrder'
    <2>1. CASE phase' = "idle"
        BY <1>6, <2>1 DEF ListEnabled
    <2>2. CASE phase' = "fetch"
        BY <1>6, <2>2, SMTT(60) DEF ListEnabled, NewAggregator, NoContribution
    <2> QED BY <1>6, <2>1, <2>2 DEF ListEnabled
<1>7. ASSUME SaveCache PROVE InOrder'
    BY <1>7 DEF SaveCache
<1>8. ASSUME UpdateMetadata PROVE InOrder'
    BY <1>8 DEF UpdateMetadata
<1>9. ASSUME AddCached PROVE InOrder'
    BY <1>9 DEF AddCached, Add
<1>10. ASSUME FinishRefresh PROVE InOrder'
    BY <1>10 DEF FinishRefresh, InstallAggregator
<1>11. ASSUME NEW s \in todo, BootLoad(s) PROVE InOrder'
    <2>1. \A t \in todo' : s.id < t.id
        BY <1>11 DEF BootLoad, NextSource
    <2>2. \A i \in Ids : contributions'[i] # None => contributions[i] # None \/ i = s.id
        BY <1>11 DEF BootLoad, Add
    <2> QED BY <1>11, <2>1, <2>2, SMTT(60) DEF BootLoad
<1>12. ASSUME NEW s \in todo, FetchModified(s) PROVE InOrder'
    BY <1>12, SMTT(60) DEF FetchModified, Take, Add, NextSource
<1>13. ASSUME NEW s \in todo, ToFallback(s) PROVE InOrder'
    BY <1>13, SMTT(60) DEF ToFallback, Take, NextSource
<1>14. ASSUME NEW u \in Urls, AddBlocklist(u) PROVE InOrder'
    BY <1>14 DEF AddBlocklist, Writes
<1>15. ASSUME NEW i \in Ids, RemoveBlocklist(i) PROVE InOrder'
    BY <1>15 DEF RemoveBlocklist, Writes
<1>16. ASSUME NEW i \in Ids, NEW on \in BOOLEAN, ToggleBlocklist(i, on)
       PROVE  InOrder'
    BY <1>16 DEF ToggleBlocklist, Writes
<1> HIDE DEF TypeOK, InOrder, SourceRow, dbVars, cycleVars, EnabledRows
<1>17. CASE Next
    BY ONLY <1>17, StepKinds, <1>2, <1>3, <1>4, <1>5, <1>6, <1>7, <1>8,
       <1>9, <1>10, <1>11, <1>12, <1>13, <1>14, <1>15, <1>16
<1> QED BY <1>1, <1>17

\* Adding a source above all earlier ones keeps the oldest as the primary.
LEMMA OrInsertAttribution ==
    ASSUME NEW map \in [Domains -> OptId], NEW contribs \in [Ids -> OptVersion],
           AttributedToOldest(map, contribs),
           url \in [Ids -> Urls], NEW id \in Ids, NEW v \in Versions,
           \A i \in Ids : contribs[i] # None => i < id
    PROVE  AttributedToOldest(OrInsert(map, id, Names[url[id]][v]),
                              [contribs EXCEPT ![id] = v])
<1> DEFINE new == OrInsert(map, id, Names[url[id]][v])
           more == [contribs EXCEPT ![id] = v]
<1> SUFFICES ASSUME NEW d \in Domains
             PROVE  /\ new[d] # None => Claims(more, new[d], d)
                    /\ \A i \in Ids :
                          Claims(more, i, d) => new[d] # None /\ new[d] <= i
    BY DEF AttributedToOldest
<1>1. \A i \in Ids : Claims(more, i, d) <=>
          IF i = id THEN d \in Names[url[id]][v] ELSE Claims(contribs, i, d)
    BY DEF Claims
<1>2. \A i \in Ids : Claims(contribs, i, d) => i < id
    BY DEF Claims
<1>3. new[d] = IF d \in Names[url[id]][v] /\ map[d] = None THEN id ELSE map[d]
    BY DEF OrInsert
<1>4. /\ map[d] # None => Claims(contribs, map[d], d)
      /\ \A i \in Ids : Claims(contribs, i, d) => map[d] # None /\ map[d] <= i
    BY DEF AttributedToOldest
<1> HIDE DEF new, more
<1> QED BY <1>1, <1>2, <1>3, <1>4

\* The empty map is attributed to no contribution at all.
LEMMA EmptyAttribution == AttributedToOldest(EmptySet, NoContribution)
BY DEF AttributedToOldest, EmptySet, NoContribution, Claims

\* Both maps credit the oldest source that names a domain.
LEMMA AttributionStep ==
    ASSUME TypeOK, IdsHandedOut, InOrder, Attribution, [Next]_vars
    PROVE  Attribution'
<1> USE DEF TypeOK, Attribution, PrimaryIsOldest, SourceRow, dbVars, cycleVars
<1>1. CASE UNCHANGED vars
    BY <1>1 DEF vars, AttributedToOldest, Claims
<1>2. ASSUME Aside PROVE Attribution'
    BY <1>2 DEF Aside, AttributedToOldest, Claims
<1>3. ASSUME LoseMemory PROVE Attribution'
    BY <1>3, EmptyAttribution DEF LoseMemory, AttributedToOldest, Claims
<1>4. ASSUME BootList PROVE Attribution'
    BY <1>4, EmptyAttribution DEF BootList, NewAggregator, AttributedToOldest, Claims
<1>5. ASSUME BootInstall PROVE Attribution'
    BY <1>5 DEF BootInstall, InstallAggregator, AttributedToOldest, Claims
<1>6. ASSUME ListEnabled PROVE Attribution'
    <2>1. AttributedToOldest(merged', contributions')
        BY <1>6, EmptyAttribution DEF ListEnabled, NewAggregator
    <2> QED BY <1>6, <2>1 DEF ListEnabled, AttributedToOldest, Claims
<1>7. ASSUME SaveCache PROVE Attribution'
    BY <1>7 DEF SaveCache, AttributedToOldest, Claims
<1>8. ASSUME UpdateMetadata PROVE Attribution'
    BY <1>8 DEF UpdateMetadata, AttributedToOldest, Claims
<1>9. ASSUME AddCached PROVE Attribution'
    <2>1. PrimaryIsOldest'
        BY <1>9 DEF AddCached, AttributedToOldest, Claims
    <2>2. CASE UNCHANGED <<merged, contributions>>
        BY <1>9, <2>1, <2>2 DEF AddCached, AttributedToOldest, Claims
    <2>3. CASE cache[current] # None /\ Add(current, cache[current])
        <3>1. /\ current \in Ids /\ cache[current] \in Versions
              /\ \A i \in Ids : contributions[i] # None => i < current
            BY <1>9, <2>3 DEF AddCached, InOrder
        <3>2. AttributedToOldest(merged', contributions')
            BY <2>3, <3>1, OrInsertAttribution DEF Add
        <3> QED BY <1>9, <2>1, <3>2 DEF AddCached, AttributedToOldest, Claims
    <2> QED BY <1>9, <2>2, <2>3 DEF AddCached
<1>10. ASSUME FinishRefresh PROVE Attribution'
    BY <1>10 DEF FinishRefresh, InstallAggregator, AttributedToOldest, Claims
<1>11. ASSUME NEW s \in todo, BootLoad(s) PROVE Attribution'
    <2>1. PrimaryIsOldest'
        BY <1>11 DEF BootLoad, AttributedToOldest, Claims
    <2>2. CASE UNCHANGED <<merged, contributions>>
        BY <1>11, <2>1, <2>2 DEF BootLoad, AttributedToOldest, Claims
    <2>3. CASE cache[s.id] # None /\ Add(s.id, cache[s.id])
        <3>1. /\ s.id \in Ids /\ cache[s.id] \in Versions
              /\ \A i \in Ids : contributions[i] # None => i < s.id
            BY <2>3 DEF InOrder
        <3>2. AttributedToOldest(merged', contributions')
            BY <2>3, <3>1, OrInsertAttribution DEF Add
        <3> QED BY <1>11, <2>1, <3>2 DEF BootLoad, AttributedToOldest, Claims
    <2> QED BY <1>11, <2>2, <2>3 DEF BootLoad
<1>12. ASSUME NEW s \in todo, FetchModified(s) PROVE Attribution'
    <2>1. PrimaryIsOldest'
        BY <1>12 DEF FetchModified, Take, AttributedToOldest, Claims
    <2>2. /\ s.id \in Ids /\ served[url[s.id]] \in Versions
          /\ \A i \in Ids : contributions[i] # None => i < s.id
        BY DEF InOrder
    <2>3. AttributedToOldest(merged', contributions')
        BY <1>12, <2>2, OrInsertAttribution DEF FetchModified, Add
    <2> QED BY <1>12, <2>1, <2>3 DEF FetchModified, Take, AttributedToOldest, Claims
<1>13. ASSUME NEW s \in todo, ToFallback(s) PROVE Attribution'
    BY <1>13 DEF ToFallback, Take, AttributedToOldest, Claims
<1>14. ASSUME NEW u \in Urls, AddBlocklist(u) PROVE Attribution'
    <2>1. \A i \in Ids : i <= lastId => url'[i] = url[i]
        BY <1>14 DEF AddBlocklist
    <2>2. \A i \in Ids, d \in Domains :
              /\ Claims(contributions, i, d)' <=> Claims(contributions, i, d)
              /\ Claims(installed, i, d)' <=> Claims(installed, i, d)
        BY <1>14, <2>1 DEF AddBlocklist, Writes, IdsHandedOut, Claims
    <2>3. UNCHANGED <<live, installed, merged, contributions>>
        BY <1>14 DEF AddBlocklist, Writes
    <2> QED BY <2>2, <2>3 DEF AttributedToOldest
<1>15. ASSUME NEW i \in Ids, RemoveBlocklist(i) PROVE Attribution'
    BY <1>15 DEF RemoveBlocklist, Writes, AttributedToOldest, Claims
<1>16. ASSUME NEW i \in Ids, NEW on \in BOOLEAN, ToggleBlocklist(i, on)
       PROVE  Attribution'
    BY <1>16 DEF ToggleBlocklist, Writes, AttributedToOldest, Claims
<1> HIDE DEF TypeOK, Attribution, PrimaryIsOldest, SourceRow, dbVars, cycleVars
<1>17. CASE Next
    BY ONLY <1>17, StepKinds, <1>2, <1>3, <1>4, <1>5, <1>6, <1>7, <1>8,
       <1>9, <1>10, <1>11, <1>12, <1>13, <1>14, <1>15, <1>16
<1> QED BY <1>1, <1>17

\* No empty body gets into the cache or the map.
LEMMA GoodBodiesStep ==
    ASSUME TypeOK, IdsHandedOut, InOrder, GoodBodies, [Next]_vars
    PROVE  GoodBodies'
<1> USE DEF TypeOK, IdsHandedOut, InOrder, GoodBodies, CacheNeverPoisoned,
             SourceRow, dbVars, cycleVars
<1>1. CASE UNCHANGED vars
    BY <1>1 DEF vars
<1>2. ASSUME Aside PROVE GoodBodies'
    BY <1>2 DEF Aside
<1>3. ASSUME LoseMemory PROVE GoodBodies'
    BY <1>3 DEF LoseMemory, EmptySet, NoContribution
<1>4. ASSUME BootList PROVE GoodBodies'
    BY <1>4 DEF BootList, NewAggregator, EmptySet, NoContribution
<1>5. ASSUME BootInstall PROVE GoodBodies'
    BY <1>5 DEF BootInstall, InstallAggregator
<1>6. ASSUME ListEnabled PROVE GoodBodies'
    BY <1>6, SMTT(60) DEF ListEnabled, NewAggregator, EmptySet, NoContribution
<1>7. ASSUME SaveCache PROVE GoodBodies'
    BY <1>7, SMTT(60) DEF SaveCache
<1>8. ASSUME UpdateMetadata PROVE GoodBodies'
    BY <1>8 DEF UpdateMetadata
<1>9. ASSUME AddCached PROVE GoodBodies'
    BY <1>9, SMTT(60) DEF AddCached, Add
<1>10. ASSUME FinishRefresh PROVE GoodBodies'
    BY <1>10 DEF FinishRefresh, InstallAggregator
<1>11. ASSUME NEW s \in todo, BootLoad(s) PROVE GoodBodies'
    <2>1. \A i \in Ids : /\ contributions'[i] # None
                         /\ contributions'[i] # contributions[i]
                         => i = s.id /\ contributions'[i] = cache[i]
        BY <1>11, SMTT(60) DEF BootLoad, Add
    <2> QED BY <1>11, <2>1 DEF BootLoad
<1>12. ASSUME NEW s \in todo, FetchModified(s) PROVE GoodBodies'
    BY <1>12 DEF FetchModified, Take, Add, NextSource
<1>13. ASSUME NEW s \in todo, ToFallback(s) PROVE GoodBodies'
    BY <1>13 DEF ToFallback, Take, NextSource
<1>14. ASSUME NEW u \in Urls, AddBlocklist(u) PROVE GoodBodies'
    BY <1>14, SMTT(60) DEF AddBlocklist, Writes
<1>15. ASSUME NEW i \in Ids, RemoveBlocklist(i) PROVE GoodBodies'
    BY <1>15 DEF RemoveBlocklist, Writes
<1>16. ASSUME NEW i \in Ids, NEW on \in BOOLEAN, ToggleBlocklist(i, on)
       PROVE  GoodBodies'
    BY <1>16 DEF ToggleBlocklist, Writes
<1> HIDE DEF TypeOK, IdsHandedOut, InOrder, GoodBodies, CacheNeverPoisoned,
             SourceRow, dbVars, cycleVars
<1>17. CASE Next
    BY ONLY <1>17, StepKinds, <1>2, <1>3, <1>4, <1>5, <1>6, <1>7, <1>8,
       <1>9, <1>10, <1>11, <1>12, <1>13, <1>14, <1>15, <1>16
<1> QED BY <1>1, <1>17

\* A complete cycle has accounted for every source it listed.
LEMMA WholeListingStep ==
    ASSUME TypeOK, InOrder, WholeListing, [Next]_vars
    PROVE  WholeListing'
<1> USE DEF TypeOK, WholeListing, CyclePhases, SourceRow, dbVars, cycleVars
<1>1. CASE UNCHANGED vars
    BY <1>1 DEF vars
<1>2. ASSUME Aside PROVE WholeListing'
    BY <1>2 DEF Aside
<1>3. ASSUME LoseMemory PROVE WholeListing'
    BY <1>3 DEF LoseMemory, EmptySet, NoContribution
<1>4. ASSUME BootList PROVE WholeListing'
    BY <1>4 DEF BootList, NewAggregator, EmptySet, NoContribution
<1>5. ASSUME BootInstall PROVE WholeListing'
    BY <1>5 DEF BootInstall, InstallAggregator
<1>6. ASSUME ListEnabled PROVE WholeListing'
    <2>1. CASE phase' = "idle"
        BY <2>1
    <2>2. CASE phase' = "fetch"
        <3>1. contributions' = NoContribution /\ todo' = EnabledRows /\ listed' = enabled
            BY <1>6, <2>2 DEF ListEnabled, NewAggregator
        <3>2. \A s \in todo' : s.id \in listed'
            BY <3>1 DEF EnabledRows
        <3>3. \A i \in listed' : \E s \in todo' : s.id = i
            <4> SUFFICES ASSUME NEW i \in enabled
                         PROVE  \E s \in EnabledRows : s.id = i
                BY <3>1
            <4>1. [id |-> i, etag |-> etag[i]] \in EnabledRows
                BY DEF EnabledRows
            <4> QED BY <4>1
        <3> QED BY <2>2, <3>1, <3>2, <3>3 DEF NoContribution
    <2> QED BY <1>6, <2>1, <2>2 DEF ListEnabled
<1>7. ASSUME SaveCache PROVE WholeListing'
    BY <1>7 DEF SaveCache
<1>8. ASSUME UpdateMetadata PROVE WholeListing'
    BY <1>8 DEF UpdateMetadata
<1>9. ASSUME AddCached PROVE WholeListing'
    BY <1>9, SMTT(60) DEF AddCached, Add
<1>10. ASSUME FinishRefresh PROVE WholeListing'
    BY <1>10 DEF FinishRefresh, InstallAggregator
<1>11. ASSUME NEW s \in todo, BootLoad(s) PROVE WholeListing'
    BY <1>11 DEF BootLoad, Add, NextSource
<1>12. ASSUME NEW s \in todo, FetchModified(s) PROVE WholeListing'
    BY <1>12, SMTT(60) DEF FetchModified, Take, Add, NextSource
<1>13. ASSUME NEW s \in todo, ToFallback(s) PROVE WholeListing'
    BY <1>13 DEF ToFallback, Take, NextSource
<1>14. ASSUME NEW u \in Urls, AddBlocklist(u) PROVE WholeListing'
    BY <1>14 DEF AddBlocklist, Writes
<1>15. ASSUME NEW i \in Ids, RemoveBlocklist(i) PROVE WholeListing'
    BY <1>15 DEF RemoveBlocklist, Writes
<1>16. ASSUME NEW i \in Ids, NEW on \in BOOLEAN, ToggleBlocklist(i, on)
       PROVE  WholeListing'
    BY <1>16 DEF ToggleBlocklist, Writes
<1> HIDE DEF TypeOK, WholeListing, CyclePhases, SourceRow, dbVars, cycleVars
<1>17. CASE Next
    BY ONLY <1>17, StepKinds, <1>2, <1>3, <1>4, <1>5, <1>6, <1>7, <1>8,
       <1>9, <1>10, <1>11, <1>12, <1>13, <1>14, <1>15, <1>16
<1> QED BY <1>1, <1>17

\* As long as statements succeed, every merged body has been saved.
LEMMA MergedIsSavedStep ==
    ASSUME TypeOK, IdsHandedOut, InOrder, GoodBodies, MergedIsSaved, ~DbFails, [Next]_vars
    PROVE  MergedIsSaved'
<1> USE DEF TypeOK, MergedIsSaved, SourceRow, dbVars, cycleVars
<1>1. CASE UNCHANGED vars
    BY <1>1 DEF vars
<1>2. ASSUME Aside PROVE MergedIsSaved'
    BY <1>2 DEF Aside
<1>3. ASSUME LoseMemory PROVE MergedIsSaved'
    BY <1>3 DEF LoseMemory, EmptySet, NoContribution
<1>4. ASSUME BootList PROVE MergedIsSaved'
    BY <1>4 DEF BootList, NewAggregator, EmptySet, NoContribution
<1>5. ASSUME BootInstall PROVE MergedIsSaved'
    BY <1>5 DEF BootInstall, InstallAggregator
<1>6. ASSUME ListEnabled PROVE MergedIsSaved'
    BY <1>6 DEF ListEnabled, NewAggregator, EmptySet, NoContribution
<1>7. ASSUME SaveCache PROVE MergedIsSaved'
    BY <1>7, SMTT(60) DEF SaveCache, GoodBodies
<1>8. ASSUME UpdateMetadata PROVE MergedIsSaved'
    BY <1>8 DEF UpdateMetadata
<1>9. ASSUME AddCached PROVE MergedIsSaved'
    BY <1>9 DEF AddCached, Add
<1>10. ASSUME FinishRefresh PROVE MergedIsSaved'
    BY <1>10 DEF FinishRefresh, InstallAggregator
<1>11. ASSUME NEW s \in todo, BootLoad(s) PROVE MergedIsSaved'
    BY <1>11 DEF BootLoad, Add, NextSource
<1>12. ASSUME NEW s \in todo, FetchModified(s) PROVE MergedIsSaved'
    BY <1>12 DEF FetchModified, Take, Add, NextSource
<1>13. ASSUME NEW s \in todo, ToFallback(s) PROVE MergedIsSaved'
    BY <1>13 DEF ToFallback, Take, NextSource
<1>14. ASSUME NEW u \in Urls, AddBlocklist(u) PROVE MergedIsSaved'
    BY <1>14, SMTT(60) DEF AddBlocklist, Writes, IdsHandedOut
<1>15. ASSUME NEW i \in Ids, RemoveBlocklist(i) PROVE MergedIsSaved'
    BY <1>15 DEF RemoveBlocklist, Writes
<1>16. ASSUME NEW i \in Ids, NEW on \in BOOLEAN, ToggleBlocklist(i, on)
       PROVE  MergedIsSaved'
    BY <1>16 DEF ToggleBlocklist, Writes
<1> HIDE DEF TypeOK, MergedIsSaved, SourceRow, dbVars, cycleVars
<1>17. CASE Next
    BY ONLY <1>17, StepKinds, <1>2, <1>3, <1>4, <1>5, <1>6, <1>7, <1>8,
       <1>9, <1>10, <1>11, <1>12, <1>13, <1>14, <1>15, <1>16
<1> QED BY <1>1, <1>17

\* As long as statements succeed and the process lives, the validators follow.
LEMMA WrittenInStepStep ==
    ASSUME TypeOK, IdsHandedOut, InOrder, GoodBodies, WrittenInStep,
           ~DbFails, ~LoseMemory, [Next]_vars
    PROVE  WrittenInStep'
<1> USE DEF TypeOK, WrittenInStep, SourceRow, dbVars, cycleVars
<1>1. CASE UNCHANGED vars
    BY <1>1 DEF vars
<1>2. ASSUME Aside PROVE WrittenInStep'
    BY <1>2 DEF Aside
<1>3. ASSUME LoseMemory PROVE WrittenInStep'
    BY <1>3
<1>4. ASSUME BootList PROVE WrittenInStep'
    BY <1>4 DEF BootList, NewAggregator, EmptySet, NoContribution
<1>5. ASSUME BootInstall PROVE WrittenInStep'
    BY <1>5 DEF BootInstall, InstallAggregator
<1>6. ASSUME ListEnabled PROVE WrittenInStep'
    BY <1>6 DEF ListEnabled, NewAggregator, EmptySet, NoContribution
<1>7. ASSUME SaveCache PROVE WrittenInStep'
    BY <1>7 DEF SaveCache, GoodBodies
<1>8. ASSUME UpdateMetadata PROVE WrittenInStep'
    <2>1. CASE current \in present
        <3>1. /\ cache' = cache /\ present' = present /\ cache[current] = body
              /\ etag' = [etag EXCEPT ![current] = ResponseValidators]
            BY <1>8, <2>1 DEF UpdateMetadata
        <3>2. ResponseValidators \in {body, None}
            BY DEF ResponseValidators
        <3> QED BY <1>8, <2>1, <3>1, <3>2 DEF UpdateMetadata
    <2>2. CASE current \notin present
        BY <1>8, <2>2 DEF UpdateMetadata
    <2> QED BY <2>1, <2>2
<1>9. ASSUME AddCached PROVE WrittenInStep'
    BY <1>9 DEF AddCached, Add
<1>10. ASSUME FinishRefresh PROVE WrittenInStep'
    BY <1>10 DEF FinishRefresh, InstallAggregator
<1>11. ASSUME NEW s \in todo, BootLoad(s) PROVE WrittenInStep'
    BY <1>11 DEF BootLoad, Add, NextSource
<1>12. ASSUME NEW s \in todo, FetchModified(s) PROVE WrittenInStep'
    BY <1>12 DEF FetchModified, Take, Add, NextSource
<1>13. ASSUME NEW s \in todo, ToFallback(s) PROVE WrittenInStep'
    BY <1>13 DEF ToFallback, Take, NextSource
<1>14. ASSUME NEW u \in Urls, AddBlocklist(u) PROVE WrittenInStep'
    BY <1>14, SMTT(60) DEF AddBlocklist, Writes, IdsHandedOut
<1>15. ASSUME NEW i \in Ids, RemoveBlocklist(i) PROVE WrittenInStep'
    BY <1>15, SMTT(60) DEF RemoveBlocklist, Writes
<1>16. ASSUME NEW i \in Ids, NEW on \in BOOLEAN, ToggleBlocklist(i, on)
       PROVE  WrittenInStep'
    BY <1>16 DEF ToggleBlocklist, Writes
<1> HIDE DEF TypeOK, WrittenInStep, SourceRow, dbVars, cycleVars
<1>17. CASE Next
    BY ONLY <1>17, StepKinds, <1>2, <1>3, <1>4, <1>5, <1>6, <1>7, <1>8,
       <1>9, <1>10, <1>11, <1>12, <1>13, <1>14, <1>15, <1>16
<1> QED BY <1>1, <1>17

\* As long as statements succeed and handlers finish, no wake-up is lost.
LEMMA WakeUpStep ==
    ASSUME TypeOK, WakeUpPending, ~DbFails, ~Spend("drop"), [Next]_vars
    PROVE  WakeUpPending'
<1> USE DEF TypeOK, WakeUpPending, CyclePhases
<1>1. CASE UNCHANGED vars
    BY <1>1 DEF vars
<1>2. ASSUME NEW u \in Urls, AddBlocklist(u) PROVE WakeUpPending'
    BY <1>2 DEF AddBlocklist, Writes
<1>3. ASSUME NEW i \in Ids, RemoveBlocklist(i) PROVE WakeUpPending'
    BY <1>3 DEF RemoveBlocklist, Writes
<1>4. ASSUME NEW i \in Ids, NEW on \in BOOLEAN, ToggleBlocklist(i, on)
      PROVE  WakeUpPending'
    BY <1>4 DEF ToggleBlocklist, Writes
<1>5. ASSUME Trigger \/ RefreshNow PROVE WakeUpPending'
    BY <1>5 DEF Trigger, RefreshNow
<1>6. ASSUME SleepElapsed \/ Notified \/ Stop PROVE WakeUpPending'
    BY <1>6 DEF SleepElapsed, Notified, Stop
<1>7. ASSUME ListEnabled PROVE WakeUpPending'
    BY <1>7 DEF ListEnabled
<1>8. ASSUME Boot \/ BootList \/ BootInstall \/ Crash \/ Exit PROVE WakeUpPending'
    BY <1>8 DEF Boot, BootList, BootInstall, Crash, Exit, LoseMemory
<1>9. ASSUME SaveCache \/ UpdateMetadata \/ AddCached \/ FinishRefresh \/ Cancel
      PROVE  WakeUpPending'
    BY <1>9 DEF SaveCache, UpdateMetadata, AddCached, FinishRefresh, Cancel
<1>10. ASSUME NEW s \in todo, \/ BootLoad(s) \/ FetchModified(s) \/ FetchEmpty(s)
                              \/ FetchNotModified(s) \/ FetchError(s)
       PROVE  WakeUpPending'
    BY <1>10 DEF BootLoad, FetchModified, FetchEmpty, FetchNotModified,
                 FetchError, Take
<1>11. ASSUME NEW u \in Urls, NEW v \in Versions, Publish(u, v) PROVE WakeUpPending'
    BY <1>11 DEF Publish
<1>12. ~HandlerDropped
    BY DEF HandlerDropped
<1> HIDE DEF TypeOK, WakeUpPending
<1>13. CASE Next
    BY ONLY <1>2, <1>3, <1>4, <1>5, <1>6, <1>7, <1>8, <1>9, <1>10, <1>11,
            <1>12, <1>13, NextCases
<1> QED BY <1>1, <1>13

\* A step either leaves the budget alone or spends one kind of it.
LEMMA BudgetSteps ==
    ASSUME TypeOK, [Next]_vars
    PROVE  UNCHANGED budget \/ \E k \in BudgetKinds : Spend(k)
<1>1. CASE UNCHANGED vars
    BY <1>1 DEF vars
<1>2. ASSUME Crash \/ Cancel \/ HandlerDropped \/ RefreshNow
      PROVE  \E k \in BudgetKinds : Spend(k)
    BY <1>2 DEF Crash, Cancel, HandlerDropped, RefreshNow
<1>3. ASSUME NEW u \in Urls, AddBlocklist(u) PROVE \E k \in BudgetKinds : Spend(k)
    BY <1>3 DEF AddBlocklist, Writes
<1>4. ASSUME NEW i \in Ids, RemoveBlocklist(i) PROVE \E k \in BudgetKinds : Spend(k)
    BY <1>4 DEF RemoveBlocklist, Writes
<1>5. ASSUME NEW i \in Ids, NEW on \in BOOLEAN, ToggleBlocklist(i, on)
      PROVE  \E k \in BudgetKinds : Spend(k)
    BY <1>5 DEF ToggleBlocklist, Writes
<1>6. ASSUME NEW u \in Urls, NEW v \in Versions, Publish(u, v)
      PROVE  \E k \in BudgetKinds : Spend(k)
    BY <1>6 DEF Publish
<1>7. ASSUME NEW s \in todo, FetchError(s) PROVE \E k \in BudgetKinds : Spend(k)
    BY <1>7 DEF FetchError
<1>8. ASSUME NEW s \in todo, BootLoad(s)
      PROVE  UNCHANGED budget \/ \E k \in BudgetKinds : Spend(k)
    BY <1>8 DEF BootLoad, DbFails
<1>9. ASSUME BootList \/ ListEnabled \/ SaveCache \/ UpdateMetadata \/ AddCached
      PROVE  UNCHANGED budget \/ \E k \in BudgetKinds : Spend(k)
    BY <1>9 DEF BootList, ListEnabled, SaveCache, UpdateMetadata, AddCached, DbFails
<1>10. ASSUME NEW s \in todo, FetchModified(s) \/ FetchEmpty(s) \/ FetchNotModified(s)
       PROVE  UNCHANGED budget
    BY <1>10 DEF FetchModified, FetchEmpty, FetchNotModified
<1>11. ASSUME Boot \/ BootInstall \/ Exit \/ Trigger \/ SleepElapsed \/ Notified
                \/ Stop \/ FinishRefresh
       PROVE  UNCHANGED budget
    BY <1>11 DEF Boot, BootInstall, Exit, Trigger, SleepElapsed, Notified, Stop,
                 FinishRefresh
<1>12. CASE Next
    BY ONLY <1>2, <1>3, <1>4, <1>5, <1>6, <1>7, <1>8, <1>9, <1>10, <1>11,
            <1>12, NextCases
<1> QED BY <1>1, <1>12

\* Memory is lost only when the process ends, or was lost already.
LEMMA OnlyTheEndForgets ==
    ASSUME TypeOK, [Next]_vars, LoseMemory, ~Crash, ~Exit
    PROVE  phase = "down" /\ UNCHANGED <<etag, cache, present>>
<1>1. phase' = "down" /\ UNCHANGED <<etag, cache, present>>
    BY DEF LoseMemory, dbVars
<1>2. CASE UNCHANGED vars
    BY <1>1, <1>2 DEF vars
<1>3. CASE Next
    BY <1>1, <1>3 DEF Next, Offline, Admin, Loop, Refresh, Fetch, Boot, BootList,
       BootInstall, Cancel, Trigger, HandlerDropped, RefreshNow, SleepElapsed,
       Notified, Stop, ListEnabled, SaveCache, UpdateMetadata, AddCached,
       FinishRefresh, BootLoad, FetchModified, FetchEmpty, FetchNotModified,
       FetchError, Take, AddBlocklist, RemoveBlocklist, ToggleBlocklist, Writes,
       Publish, Running, Booting
<1> QED BY <1>1, <1>2, <1>3

\* A cycle ends with FinishRefresh.
LEMMA CycleEnds ==
    ASSUME Next, phase = "fetch", phase' = "idle"
    PROVE  FinishRefresh
BY DEF Next, Offline, Admin, Loop, Refresh, Fetch, Boot, BootList, BootInstall,
       Crash, Exit, LoseMemory, Cancel, Trigger, HandlerDropped, RefreshNow,
       SleepElapsed, Notified, Stop, ListEnabled, SaveCache, UpdateMetadata,
       AddCached, BootLoad, FetchModified, FetchEmpty, FetchNotModified,
       FetchError, Take, AddBlocklist, RemoveBlocklist, ToggleBlocklist, Writes,
       Publish

\* Nothing is ever given back: a kind that is unspent after a step was unspent
\* before it and was not spent by it.
LEMMA UnspentBefore ==
    ASSUME TypeOK, BudgetBound, [Next]_vars, NEW k \in BudgetKinds
    PROVE  /\ budget'[k] <= budget[k]
           /\ Spent(k)' \in Nat /\ Spent(k) \in Nat /\ Spent(k) <= Spent(k)'
           /\ Spent(k)' = 0 => Spent(k) = 0 /\ ~Spend(k)
<1>1. budget \in [BudgetKinds -> Nat] /\ Budget \in [BudgetKinds -> Nat]
    BY DEF TypeOK
<1>2. budget' \in [BudgetKinds -> Nat] /\ budget'[k] <= budget[k]
    BY <1>1, BudgetSteps, SpendType
<1>3. Spend(k) => budget'[k] = budget[k] - 1
    BY <1>1, SpendType
<1>4. budget[k] <= Budget[k]
    BY DEF BudgetBound
<1> QED BY <1>1, <1>2, <1>3, <1>4 DEF Spent

\* No kind of event happens more often than its bound.
LEMMA BudgetBoundStep ==
    ASSUME TypeOK, BudgetBound, [Next]_vars
    PROVE  BudgetBound'
<1>1. \A k \in BudgetKinds : budget'[k] <= Budget[k]
    <2> SUFFICES ASSUME NEW k \in BudgetKinds PROVE budget'[k] <= Budget[k]
        OBVIOUS
    <2>1. budget'[k] <= budget[k] /\ budget[k] <= Budget[k]
        BY UnspentBefore DEF BudgetBound
    <2>2. budget[k] \in Nat /\ budget'[k] \in Nat /\ Budget[k] \in Nat
        BY NextType DEF TypeOK
    <2> QED BY <2>1, <2>2
<1>2. cancelled' => cancelled \/ Spend("stop")
    <2>1. CASE UNCHANGED vars
        BY <2>1 DEF vars
    <2>2. CASE Next
        BY <2>2, Zenon DEF Next, Offline, Admin, Loop, Refresh, Fetch, Boot,
           BootList, BootInstall, Crash, Cancel, Exit, LoseMemory, Trigger,
           HandlerDropped, RefreshNow, SleepElapsed, Notified, Stop, ListEnabled,
           SaveCache, UpdateMetadata, AddCached, FinishRefresh, BootLoad,
           FetchModified, FetchEmpty, FetchNotModified, FetchError, Take,
           AddBlocklist, RemoveBlocklist, ToggleBlocklist, Writes, Publish
    <2> QED BY <2>1, <2>2
<1>3. cancelled' => Spent("stop")' > 0
    BY <1>2, UnspentBefore DEF BudgetBound
<1> QED BY <1>1, <1>3 DEF BudgetBound
-----------------------------------------------------------------------------
(* The theorems.                                                           *)

\* The inductive invariant holds initially.
LEMMA InitIInv == Init => IInv
<1> SUFFICES ASSUME Init PROVE IInv
    OBVIOUS
<1>1. TypeOK
    BY InitType
<1>2. IdsHandedOut /\ InOrder
    BY DEF Init, IdsHandedOut, InOrder, NoContribution
<1>3. Attribution
    BY EmptyAttribution DEF Init, Attribution, PrimaryIsOldest
<1>4. GoodBodies /\ WholeListing
    BY DEF Init, GoodBodies, CacheNeverPoisoned, WholeListing, CyclePhases,
           NoContribution
<1>5. BudgetBound
    BY DEF Init, BudgetBound
<1>6. MergedIsSaved /\ WakeUpPending /\ WrittenInStep
    BY DEF Init, MergedIsSaved, WakeUpPending, WrittenInStep, NoContribution
<1> QED BY <1>1, <1>2, <1>3, <1>4, <1>5, <1>6 DEF IInv

\* Every step preserves the inductive invariant.
LEMMA NextIInv == IInv /\ [Next]_vars => IInv'
<1> SUFFICES ASSUME IInv, [Next]_vars PROVE IInv'
    OBVIOUS
<1>1. TypeOK'
    BY NextType DEF IInv
<1>2. IdsHandedOut' /\ InOrder'
    BY IdsHandedOutStep, InOrderStep DEF IInv
<1>3. Attribution' /\ GoodBodies' /\ WholeListing'
    BY AttributionStep, GoodBodiesStep, WholeListingStep DEF IInv
<1>4. BudgetBound'
    BY BudgetBoundStep DEF IInv
<1>5. \A k \in BudgetKinds : /\ Spent(k) \in Nat /\ Spent(k)' \in Nat
                             /\ Spent(k)' = 0 => Spent(k) = 0 /\ ~Spend(k)
    BY UnspentBefore DEF IInv
<1>6. Spent("db")' = 0 => MergedIsSaved'
    BY <1>5, MergedIsSavedStep DEF IInv, DbFails
<1>7. Spent("db")' + Spent("drop")' = 0 => WakeUpPending'
    <2> SUFFICES ASSUME Spent("db")' + Spent("drop")' = 0 PROVE WakeUpPending'
        OBVIOUS
    <2>1. /\ Spent("db")' = 0 /\ Spent("drop")' = 0
          /\ Spent("db") = 0 /\ Spent("drop") = 0
          /\ ~Spend("db") /\ ~Spend("drop")
        BY <1>5
    <2> QED BY <2>1, WakeUpStep DEF IInv, DbFails
<1>8. Spent("db")' + Spent("stop")' = 0 => WrittenInStep'
    <2> SUFFICES ASSUME Spent("db")' + Spent("stop")' = 0 PROVE WrittenInStep'
        OBVIOUS
    <2>1. /\ Spent("db")' = 0 /\ Spent("stop")' = 0
          /\ Spent("db") = 0 /\ Spent("stop") = 0
          /\ ~Spend("db") /\ ~Spend("stop")
        BY <1>5
    <2>2. ~cancelled /\ ~Crash /\ ~Exit
        BY <2>1 DEF IInv, BudgetBound, Crash, Exit
    <2>3. CASE LoseMemory
        BY <2>1, <2>2, <2>3, OnlyTheEndForgets DEF IInv, WrittenInStep, LoseMemory
    <2>4. CASE ~LoseMemory
        BY <2>1, <2>4, WrittenInStepStep DEF IInv, DbFails
    <2> QED BY <2>3, <2>4
<1> QED BY <1>1, <1>2, <1>3, <1>4, <1>6, <1>7, <1>8 DEF IInv

\* The inductive invariant holds in every reachable state.
THEOREM Invariance == Spec => []IInv
BY InitIInv, NextIInv, PTL DEF Spec

\* Attribution is right whatever interrupts a refresh.
THEOREM OldestIsPrimary == Spec => []PrimaryIsOldest
<1>1. IInv => PrimaryIsOldest
    BY DEF IInv, Attribution
<1> QED BY <1>1, Invariance, PTL

\* The last good body survives every empty answer.
THEOREM CacheStaysGood == Spec => []CacheNeverPoisoned
<1>1. IInv => CacheNeverPoisoned
    BY DEF IInv, GoodBodies
<1> QED BY <1>1, Invariance, PTL

\* Until a statement fails, every source that blocks now blocks offline too.
THEOREM OfflineCopies == Spec => []LiveSourcesAreSaved
<1>1. IInv => LiveSourcesAreSaved
    BY DEF IInv, MergedIsSaved, LiveSourcesAreSaved
<1> QED BY <1>1, Invariance, PTL

\* Until a statement fails or the process dies, validators and body agree.
THEOREM WritesInStep == Spec => []SavedInStep
<1>1. IInv => SavedInStep
    BY DEF IInv, WrittenInStep, SavedInStep, ValidatorsMatchCache
<1> QED BY <1>1, Invariance, PTL

\* No lost wake-up between the admin's edits and the refresh loop.
THEOREM NoLostWakeUp == Spec => []EditNotForgotten
<1>1. IInv => EditNotForgotten
    BY DEF IInv, WakeUpPending, EditNotForgotten, CyclePhases
<1> QED BY <1>1, Invariance, PTL

\* A refresh replaces the live set only by the whole of what it listed.
THEOREM OnlyWholeListings == Spec => InstallsWholeListing
<1> DEFINE Whole ==
        phase = "fetch" /\ <<live, installed>>' # <<live, installed>> /\ phase' = "idle"
         => \A i \in Ids :
               IF i \in listed
               THEN installed'[i] # None /\ Names[url[i]][installed'[i]] # {}
               ELSE installed'[i] = None
<1>1. IInv /\ [Next]_vars => [Whole]_vars
    <2> SUFFICES ASSUME IInv, Next, phase = "fetch", phase' = "idle",
                        <<live, installed>>' # <<live, installed>>
                 PROVE  Whole
        OBVIOUS
    <2>1. FinishRefresh
        BY CycleEnds
    <2>2. complete /\ todo = {} /\ installed' = contributions
        BY <2>1 DEF FinishRefresh, InstallAggregator
    <2> QED BY <2>2 DEF IInv, TypeOK, GoodBodies, WholeListing, CyclePhases
<1> QED BY <1>1, Invariance, PTL DEF Spec, InstallsWholeListing
=============================================================================
