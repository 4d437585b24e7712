-------------------------- MODULE ConfigSync_proofs --------------------------
(***************************************************************************)
(* Proofs about ConfigSync, for any keys, any column values, any sections  *)
(* the primary's admin edits and any number of edits, faults and restarts. *)
(*                                                                         *)
(* Neither property is inductive: whether the version may advance depends  *)
(* on what each section already applied has left in the tables, the memory *)
(* and the pool (AppliedSoFar), and whether a section is whole on where    *)
(* the snapshot's sections came from (SnapshotIsPast).                     *)
(***************************************************************************)
EXTENDS ConfigSync, TLAPS

USE ConstantsAssumption

\* The sections a query is decided by.
Swaps == InMemory \ {"blocklists"}

\* The history holds what the primary has now, and rows of the settings are
\* updated and never deleted.
PastCoversConfig ==
    /\ \A s \in Sections : cfg[s] \in past[s]
    /\ \A c \in past["settings"], k \in Keys : c[k] # None

\* Each section of the snapshot was read from the primary at some time.
SnapshotIsPast ==
    /\ phase = "read" =>
         \A j \in 1..8 : j < at => snap[ReadOrder[j]] \in past[ReadOrder[j]]
    /\ phase = "apply" => \A s \in Sections : snap[s] \in past[s]

\* A table written in one transaction is never seen half written.
ReplacedAreWhole == \A s \in Replaced : db[s] \in past[s]

\* What section s leaves behind once its seam has run.
AppliedSection(s) ==
    /\ db[s] = snap[s]
    /\ s \in Swaps => mem[s] = snap[s]
    /\ s = "upstreams" => pool = snap["settings"]
    /\ s = "blocklists" => mem[s] = snap[s] \/ triggered

AppliedSoFar ==
    phase = "apply" => \A j \in 1..8 : j < at => AppliedSection(ApplyOrder[j])

\* The inductive invariant.
IInv ==
    /\ TypeOK
    /\ PastCoversConfig
    /\ SnapshotIsPast
    /\ ReplacedAreWhole
    /\ AppliedSoFar
    /\ VersionStandsForState
    /\ WholeSections

-----------------------------------------------------------------------------
(* The orders.                                                             *)

\* The places of the two orders are the eight sections.
LEMMA Places ==
    /\ \A j \in 1..8 : ReadOrder[j] \in Sections /\ ApplyOrder[j] \in Sections
    /\ \A s \in Sections : \E j \in 1..8 : ReadOrder[j] = s
    /\ \A s \in Sections : \E j \in 1..8 : ApplyOrder[j] = s
<1>1. \A j \in 1..8 : ReadOrder[j] \in Sections /\ ApplyOrder[j] \in Sections
    BY DEF ReadOrder, ApplyOrder, Sections
<1>2. \A s \in Sections : \E j \in 1..8 : ReadOrder[j] = s
    <2>1. /\ ReadOrder[1] = "settings" /\ ReadOrder[2] = "upstreams"
          /\ ReadOrder[3] = "blacklist" /\ ReadOrder[4] = "allowlist"
          /\ ReadOrder[5] = "local_records" /\ ReadOrder[6] = "forward_zones"
          /\ ReadOrder[7] = "blocklists" /\ ReadOrder[8] = "admin_users"
        BY DEF ReadOrder
    <2> QED BY <2>1 DEF Sections
<1>3. \A s \in Sections : \E j \in 1..8 : ApplyOrder[j] = s
    <2>1. /\ ApplyOrder[1] = "settings" /\ ApplyOrder[2] = "upstreams"
          /\ ApplyOrder[3] = "blacklist" /\ ApplyOrder[4] = "allowlist"
          /\ ApplyOrder[5] = "local_records" /\ ApplyOrder[6] = "forward_zones"
          /\ ApplyOrder[7] = "admin_users" /\ ApplyOrder[8] = "blocklists"
        BY DEF ApplyOrder
    <2> QED BY <2>1 DEF Sections
<1> QED BY <1>1, <1>2, <1>3

\* The settings are applied before the pool that reads them is rebuilt.
LEMMA SettingsBeforePool ==
    ASSUME NEW j \in 1..8, ApplyOrder[j] = "upstreams"
    PROVE  1 < j /\ ApplyOrder[1] = "settings"
BY DEF ApplyOrder

\* Two places of ApplyOrder hold different sections.
LEMMA ApplyOnce ==
    ASSUME NEW i \in 1..8, NEW j \in 1..8, ApplyOrder[i] = ApplyOrder[j]
    PROVE  i = j
BY DEF ApplyOrder

\* Kinds of sections.
LEMMA SectionKinds ==
    /\ Replaced \subseteq Sections /\ Replaced \subseteq InMemory
    /\ Swaps \subseteq InMemory /\ InMemory \subseteq Sections
    /\ "settings" \in Swaps \cap Replaced /\ "blocklists" \in InMemory
    /\ "blocklists" \notin Replaced
BY DEF Replaced, Swaps, InMemory, Sections

-----------------------------------------------------------------------------
(* The applier's statements.                                               *)

\* A statement leaves a row or no row.
LEMMA NextRowType ==
    ASSUME NEW s, NEW old \in Row \cup {None}, NEW new \in Row \cup {None}
    PROVE  NextRow(s, old, new) \in Row \cup {None}
<1>1. CASE old # None /\ new # None
    <2>1. old \in Row /\ new \in Row
        BY <1>1
    <2>2. [old EXCEPT !.main = new.main] \in Row
        BY <2>1 DEF Row
    <2> QED BY <2>2 DEF NextRow
<1>2. CASE old = None \/ new = None
    BY <1>2 DEF NextRow
<1> QED BY <1>1, <1>2

\* A statement leaves a table.
LEMMA AfterStatementType ==
    ASSUME TypeOK, NEW s \in Sections
    PROVE  AfterStatement(s) \in Content
<1>1. db[s] \in Content /\ snap[s] \in Content
    BY DEF TypeOK, Config
<1>2. CASE s \in Replaced
    BY <1>1, <1>2 DEF AfterStatement
<1>3. CASE s \notin Replaced
    <2> DEFINE t == [db[s] EXCEPT ![NextKey(s)] =
                        NextRow(s, db[s][NextKey(s)], snap[s][NextKey(s)])]
    <2>1. t = [k \in Keys |-> IF k = NextKey(s)
                                THEN NextRow(s, db[s][NextKey(s)], snap[s][NextKey(s)])
                                ELSE db[s][k]]
        BY <1>1 DEF Content
    <2>2. ASSUME NEW k \in Keys PROVE t[k] \in Row \cup {None}
        <3>1. db[s][k] \in Row \cup {None} /\ snap[s][k] \in Row \cup {None}
            BY <1>1 DEF Content
        <3>2. NextRow(s, db[s][k], snap[s][k]) \in Row \cup {None}
            BY <3>1, NextRowType
        <3> HIDE DEF t
        <3> QED BY <2>1, <3>1, <3>2
    <2> HIDE DEF t
    <2>3. t \in Content
        BY <2>1, <2>2 DEF Content
    <2> QED BY <1>3, <2>3 DEF AfterStatement, t
<1> QED BY <1>2, <1>3

\* A section without pending rows is as the snapshot has it.
LEMMA NothingPending ==
    ASSUME TypeOK, NEW s \in Sections, Pending(s) = {}
    PROVE  db[s] = snap[s]
<1>1. db[s] \in Content /\ snap[s] \in Content
    BY DEF TypeOK, Config
<1>2. \A k \in Keys : db[s][k] = snap[s][k]
    BY DEF Pending
<1>3. ASSUME NEW f \in Content, NEW g \in Content, \A k \in Keys : f[k] = g[k]
      PROVE  f = g
    <2>1. f = [k \in Keys |-> f[k]] /\ g = [k \in Keys |-> g[k]]
        BY DEF Content
    <2>2. [k \in Keys |-> f[k]] = [k \in Keys |-> g[k]]
        BY <1>3
    <2> QED BY <2>1, <2>2
<1> QED BY <1>1, <1>2, <1>3

-----------------------------------------------------------------------------
(* The invariant holds initially and every step keeps it.                  *)

\* Next, as the list of its actions.
LEMMA NextCases ==
    ASSUME Next, NEW P,
           \A s \in Sections, k \in Keys, r \in Row \cup {None} : Edit(s, k, r) => P,
           Poll => P, ReadSection => P, NotModified => P, Modified => P,
           WriteSection => P, SwapSection => P, Applied => P,
           RequestFails => P, ApplyFails => P, SchedulerLists => P, Restart => P
    PROVE  P
BY Zenon DEF Next, Tick, Apply

\* The seeded tables.
LEMMA SeedType ==
    /\ Seed \in Config /\ Blank \in Config
    /\ \A k \in Keys : Seed["settings"][k] # None
    /\ SomeRow \in Row
<1>1. Row # {}
    <2>1. PICK m \in Mains : TRUE
        OBVIOUS
    <2>2. [main |-> m, enabled |-> TRUE] \in Row
        BY <2>1 DEF Row
    <2> QED BY <2>2
<1>2. SomeRow \in Row
    BY <1>1 DEF SomeRow
<1>3. Seed \in Config /\ Blank \in Config
    BY <1>2 DEF Seed, Blank, Config, Content
<1>4. \A k \in Keys : Seed["settings"][k] = SomeRow
    BY DEF Seed, Sections
<1> QED BY <1>2, <1>3, <1>4

LEMMA InitInv == Init => IInv
<1> SUFFICES ASSUME Init PROVE IInv
    OBVIOUS
<1> USE SeedType, SectionKinds
<1>1. \A s \in Sections : Seed[s] \in Content
    BY DEF Config
<1>2. TypeOK
    <2>1. mem \in [InMemory -> Content] /\ pool \in Content
        BY <1>1 DEF Init, Hydrated
    <2>2. past \in [Sections -> SUBSET Content]
        BY <1>1 DEF Init
    <2>3. /\ phase \in {"sleep", "read", "apply"} /\ at \in 1..End
          /\ edits \in Nat /\ faults \in Nat /\ restarts \in Nat
        BY DEF Init, End
    <2>5. triggered \in BOOLEAN /\ lastVersion = None
        BY Zenon DEF Init
    <2>4. cfg = Seed /\ db = Seed /\ snap = Blank
        BY DEF Init
    <2> QED BY <2>1, <2>2, <2>3, <2>4, <2>5 DEF TypeOK
<1>3. PastCoversConfig
    BY DEF Init, PastCoversConfig
<1>4. SnapshotIsPast /\ AppliedSoFar /\ VersionStandsForState
    BY DEF Init, SnapshotIsPast, AppliedSoFar, VersionStandsForState
<1>5. ReplacedAreWhole
    BY DEF Init, ReplacedAreWhole
<1>6. WholeSections
    BY DEF Init, WholeSections, Hydrated, Swaps
<1> QED BY <1>2, <1>3, <1>4, <1>5, <1>6 DEF IInv

\* What an edit does to the history: it only grows, and by the new table.
LEMMA EditPast ==
    ASSUME IInv, NEW s \in Sections, NEW k \in Keys, NEW r \in Row \cup {None},
           Edit(s, k, r)
    PROVE  /\ cfg' \in Config /\ past' \in [Sections -> SUBSET Content]
           /\ \A x \in Sections : past[x] \subseteq past'[x]
           /\ PastCoversConfig'
<1> USE DEF IInv, TypeOK
<1>1. cfg' = [cfg EXCEPT ![s] = [cfg[s] EXCEPT ![k] = r]]
    BY DEF Edit
<1>2. [cfg[s] EXCEPT ![k] = r] \in Content
    BY DEF Config, Content
<1>3. cfg' \in Config /\ cfg'[s] \in Content
    BY <1>1, <1>2 DEF Config
<1>4. past' = [past EXCEPT ![s] = past[s] \cup {cfg'[s]}]
    BY DEF Edit
<1>5. past' \in [Sections -> SUBSET Content]
    BY <1>3, <1>4
<1>6. \A x \in Sections : past[x] \subseteq past'[x]
    BY <1>4
<1>7. \A x \in Sections : cfg'[x] \in past'[x]
    BY <1>1, <1>4, <1>5 DEF PastCoversConfig, Config
<1>8. \A c \in past'["settings"], j \in Keys : c[j] # None
    <2>1. CASE s # "settings"
        BY <1>4, <2>1 DEF PastCoversConfig
    <2>2. CASE s = "settings"
        <3>1. r \in Row
            <4>1. Edits(s, cfg[s][k]) = Row
                BY <2>2 DEF Edits, Lists
            <4> QED BY <4>1 DEF Edit
        <3>2. cfg[s] \in past[s]
            BY DEF PastCoversConfig
        <3>3. cfg'[s] = [cfg[s] EXCEPT ![k] = r] /\ cfg[s] \in Content
            BY <1>1 DEF Config
        <3>4. \A j \in Keys : cfg'[s][j] # None
            BY <2>2, <3>1, <3>2, <3>3 DEF PastCoversConfig, Content
        <3> QED BY <1>4, <2>2, <3>4 DEF PastCoversConfig
    <2> QED BY <2>1, <2>2
<1> QED BY <1>3, <1>5, <1>6, <1>7, <1>8 DEF PastCoversConfig

\* Only edits touch the primary.
LEMMA OthersKeepPast ==
    ASSUME PastCoversConfig, UNCHANGED <<cfg, past>>
    PROVE  PastCoversConfig'
BY DEF PastCoversConfig

\* The section being applied.
LEMMA SectionPlace ==
    ASSUME TypeOK, at < End
    PROVE  at \in 1..8 /\ Section \in Sections
BY Places DEF TypeOK, End, Section

\* The steps of the primary and of the snapshot.
LEMMA EditInv ==
    ASSUME IInv, NEW s \in Sections, NEW k \in Keys, NEW r \in Row \cup {None},
           Edit(s, k, r)
    PROVE  IInv'
<1>1. /\ cfg' \in Config /\ past' \in [Sections -> SUBSET Content]
      /\ \A x \in Sections : past[x] \subseteq past'[x]
      /\ PastCoversConfig'
    BY EditPast
<1>2. /\ UNCHANGED <<phase, at, snap, lastVersion, db, mem, pool, triggered>>
      /\ edits' = edits + 1 /\ faults' = faults /\ restarts' = restarts
    BY DEF Edit, syncVars, localVars
<1>3. TypeOK'
    BY <1>1, <1>2 DEF IInv, TypeOK
<1>4. SnapshotIsPast'
    BY <1>1, <1>2, Places DEF IInv, SnapshotIsPast
<1>5. ReplacedAreWhole'
    BY <1>1, <1>2, SectionKinds DEF IInv, ReplacedAreWhole
<1>6. AppliedSoFar' /\ VersionStandsForState'
    BY <1>2 DEF IInv, AppliedSoFar, AppliedSection, VersionStandsForState, Mirrors
<1>7. WholeSections'
    BY <1>1, <1>2, SectionKinds DEF IInv, WholeSections, Swaps
<1> QED BY <1>1, <1>3, <1>4, <1>5, <1>6, <1>7 DEF IInv

LEMMA ReadSectionInv == IInv /\ ReadSection => IInv'
<1> SUFFICES ASSUME IInv, ReadSection PROVE IInv'
    OBVIOUS
<1>1. /\ UNCHANGED <<cfg, past, phase, lastVersion, db, mem, pool, triggered>>
      /\ UNCHANGED <<edits, faults, restarts>>
    BY DEF ReadSection, localVars, bounds
<1>2. at \in 1..8 /\ at' = at + 1 /\ phase = "read"
    BY DEF ReadSection, IInv, TypeOK, End
<1>3. snap' = [snap EXCEPT ![ReadOrder[at]] = cfg[ReadOrder[at]]]
    BY DEF ReadSection
<1>4. TypeOK'
    BY <1>1, <1>2, <1>3, Places DEF IInv, TypeOK, Config, End
<1>5. SnapshotIsPast'
    <2> SUFFICES ASSUME NEW j \in 1..8, j < at + 1
                 PROVE  snap'[ReadOrder[j]] \in past[ReadOrder[j]]
        BY <1>1, <1>2 DEF SnapshotIsPast
    <2> DEFINE a == ReadOrder[at]
               b == ReadOrder[j]
    <2>1. a \in Sections /\ b \in Sections
        BY <1>2, Places
    <2>2. cfg[a] \in past[a]
        BY <2>1 DEF IInv, PastCoversConfig
    <2>3. snap \in Config
        BY DEF IInv, TypeOK
    <2>4. CASE a = b
        BY <1>3, <2>1, <2>2, <2>3, <2>4 DEF Config
    <2>5. CASE a # b
        <3>1. j # at
            BY <2>5
        <3>2. j < at
            BY <1>2, <3>1
        <3>3. snap[b] \in past[b]
            BY <1>2, <3>2 DEF IInv, SnapshotIsPast
        <3> QED BY <1>3, <2>1, <2>3, <2>5, <3>3 DEF Config
    <2> QED BY <2>4, <2>5
<1>6. ReplacedAreWhole' /\ PastCoversConfig' /\ AppliedSoFar'
    BY <1>1, <1>2 DEF IInv, ReplacedAreWhole, PastCoversConfig, AppliedSoFar
<1>7. VersionStandsForState' /\ WholeSections'
    BY <1>1 DEF IInv, VersionStandsForState, Mirrors, WholeSections
<1> QED BY <1>4, <1>5, <1>6, <1>7 DEF IInv

LEMMA PollInv == IInv /\ Poll => IInv'
<1> SUFFICES ASSUME IInv, Poll PROVE IInv'
    OBVIOUS
<1>1. /\ UNCHANGED <<cfg, past, snap, lastVersion, db, mem, pool, triggered>>
      /\ UNCHANGED <<edits, faults, restarts>>
      /\ phase = "sleep" /\ phase' = "read" /\ at' = 1
    BY DEF Poll, localVars, bounds
<1>2. TypeOK'
    BY <1>1 DEF IInv, TypeOK, End
<1>3. SnapshotIsPast' /\ ReplacedAreWhole' /\ PastCoversConfig' /\ AppliedSoFar'
    BY <1>1 DEF IInv, SnapshotIsPast, ReplacedAreWhole, PastCoversConfig, AppliedSoFar
<1>4. VersionStandsForState' /\ WholeSections'
    BY <1>1 DEF IInv, VersionStandsForState, Mirrors, WholeSections
<1> QED BY <1>2, <1>3, <1>4 DEF IInv

\* A tick that ends without a word about the version: no answer, or a 304.
LEMMA SleepInv ==
    ASSUME IInv, Sleep, phase = "read",
           UNCHANGED <<cfg, past, lastVersion, db, mem, pool, triggered>>,
           edits' \in Nat, faults' \in Nat, UNCHANGED restarts
    PROVE  IInv'
<1>1. TypeOK'
    BY SeedType DEF IInv, TypeOK, Sleep, End
<1>2. SnapshotIsPast' /\ ReplacedAreWhole' /\ PastCoversConfig' /\ AppliedSoFar'
    BY DEF Sleep, IInv, SnapshotIsPast, ReplacedAreWhole, PastCoversConfig,
           AppliedSoFar
<1>3. VersionStandsForState' /\ WholeSections'
    BY DEF Sleep, IInv, VersionStandsForState, Mirrors, WholeSections
<1> QED BY <1>1, <1>2, <1>3 DEF IInv

LEMMA ModifiedInv == IInv /\ Modified => IInv'
<1> SUFFICES ASSUME IInv, Modified PROVE IInv'
    OBVIOUS
<1>1. /\ UNCHANGED <<cfg, past, snap, lastVersion, db, mem, pool, triggered>>
      /\ UNCHANGED <<edits, faults, restarts>>
      /\ phase = "read" /\ at = End /\ phase' = "apply" /\ at' = 1
    BY DEF Modified, localVars, bounds
<1>2. TypeOK'
    BY <1>1 DEF IInv, TypeOK, End
<1>3. \A s \in Sections : snap[s] \in past[s]
    BY <1>1, Places DEF IInv, SnapshotIsPast, End
<1>4. SnapshotIsPast' /\ ReplacedAreWhole' /\ PastCoversConfig' /\ AppliedSoFar'
    BY <1>1, <1>3 DEF IInv, SnapshotIsPast, ReplacedAreWhole, PastCoversConfig,
                      AppliedSoFar
<1>5. VersionStandsForState' /\ WholeSections'
    BY <1>1 DEF IInv, VersionStandsForState, Mirrors, WholeSections
<1> QED BY <1>2, <1>4, <1>5 DEF IInv

\* One statement of the applier.
LEMMA WriteSectionInv == IInv /\ WriteSection => IInv'
<1> SUFFICES ASSUME IInv, WriteSection PROVE IInv'
    OBVIOUS
<1>1. /\ UNCHANGED <<cfg, past, phase, at, snap, lastVersion, mem, pool, triggered>>
      /\ UNCHANGED <<edits, faults, restarts>>
      /\ phase = "apply" /\ at < End
    BY DEF WriteSection, syncVars, bounds
<1>2. TypeOK
    BY DEF IInv
<1>3. at \in 1..8 /\ Section \in Sections
    BY <1>1, <1>2, SectionPlace
<1>4. db' = [db EXCEPT ![Section] = AfterStatement(Section)] /\ db \in Config
    BY <1>2 DEF WriteSection, TypeOK
<1>5. AfterStatement(Section) \in Content
    BY <1>2, <1>3, AfterStatementType
<1>6. db' \in Config
    BY <1>3, <1>4, <1>5 DEF Config
<1>7. \A s \in Sections : db'[s] = IF s = Section THEN AfterStatement(s) ELSE db[s]
    BY <1>3, <1>4 DEF Config
<1>8. ReplacedAreWhole'
    <2> SUFFICES ASSUME NEW s \in Replaced PROVE db'[s] \in past[s]
        BY <1>1 DEF ReplacedAreWhole
    <2>1. s \in Sections
        BY SectionKinds
    <2>2. snap[s] \in past[s] /\ db[s] \in past[s]
        BY <1>1, <2>1 DEF IInv, SnapshotIsPast, ReplacedAreWhole
    <2>3. AfterStatement(s) = snap[s]
        BY DEF AfterStatement
    <2> QED BY <1>7, <2>1, <2>2, <2>3
<1>9. \A k \in Keys : db'["settings"][k] # None
    BY <1>1, <1>8, SectionKinds DEF IInv, ReplacedAreWhole, PastCoversConfig
<1>10. TypeOK'
    BY <1>1, <1>6, <1>9 DEF IInv, TypeOK
<1>11. AppliedSoFar'
    <2> SUFFICES ASSUME NEW j \in 1..8, j < at
                 PROVE  AppliedSection(ApplyOrder[j])'
        BY <1>1 DEF AppliedSoFar
    <2>1. AppliedSection(ApplyOrder[j])
        BY <1>1 DEF IInv, AppliedSoFar
    <2>2. ApplyOrder[j] # Section
        BY <1>3, ApplyOnce DEF Section
    <2>3. db'[ApplyOrder[j]] = db[ApplyOrder[j]]
        BY <1>7, <2>2, Places
    <2> QED BY <1>1, <2>1, <2>3 DEF AppliedSection
<1>12. SnapshotIsPast' /\ PastCoversConfig' /\ VersionStandsForState' /\ WholeSections'
    BY <1>1 DEF IInv, SnapshotIsPast, PastCoversConfig, VersionStandsForState,
                WholeSections
<1> QED BY <1>8, <1>10, <1>11, <1>12 DEF IInv

\* The seam of a written section.
LEMMA SwapSectionInv == IInv /\ SwapSection => IInv'
<1> SUFFICES ASSUME IInv, SwapSection PROVE IInv'
    OBVIOUS
<1>1. /\ UNCHANGED <<cfg, past, phase, snap, lastVersion, db>>
      /\ UNCHANGED <<edits, faults, restarts>>
      /\ phase = "apply" /\ at < End /\ at' = at + 1
    BY DEF SwapSection, bounds
<1>2. TypeOK
    BY DEF IInv
<1>3. at \in 1..8 /\ Section \in Sections
    BY <1>1, <1>2, SectionPlace
<1>4. db[Section] = snap[Section]
    BY <1>2, <1>3, NothingPending DEF SwapSection
<1>5. snap[Section] \in past[Section] /\ snap[Section] \in Content
    BY <1>1, <1>2, <1>3 DEF IInv, SnapshotIsPast, TypeOK, Config
<1>6. mem' = IF Section \in Swaps THEN [mem EXCEPT ![Section] = snap[Section]] ELSE mem
    BY <1>4 DEF SwapSection, Swapped, Swaps
<1>7. mem' \in [InMemory -> Content]
    BY <1>2, <1>5, <1>6, SectionKinds DEF TypeOK
<1>8. \A s \in InMemory : mem'[s] = IF s = Section /\ s \in Swaps THEN snap[s] ELSE mem[s]
    BY <1>2, <1>6 DEF TypeOK
<1>9. pool' = (IF Section = "upstreams" THEN mem["settings"] ELSE pool)
    BY DEF SwapSection
<1>10. triggered' = (triggered \/ Section = "blocklists")
    BY DEF SwapSection
<1>11. TypeOK'
    <2>1. pool' \in Content
        BY <1>2, <1>9, SectionKinds DEF TypeOK
    <2>2. triggered' \in BOOLEAN
        BY <1>10
    <2>3. at' \in 1..End
        BY <1>1, <1>3 DEF End
    <2> QED BY <1>1, <1>2, <1>7, <2>1, <2>2, <2>3 DEF TypeOK
<1>12. AppliedSoFar'
    <2> SUFFICES ASSUME NEW j \in 1..8, j < at + 1, NEW s, s = ApplyOrder[j]
                 PROVE  AppliedSection(s)'
        BY <1>1 DEF AppliedSoFar
    <2>0. s \in Sections
        BY Places
    <2>1. CASE j = at
        <3>1. s = Section
            BY <2>1 DEF Section
        <3>2. db'[s] = snap'[s]
            BY <1>1, <1>4, <3>1
        <3>3. s \in Swaps => mem'[s] = snap'[s]
            BY <1>1, <1>8, <3>1, SectionKinds
        <3>4. s = "upstreams" => pool' = snap'["settings"]
            <4>1. ASSUME s = "upstreams" PROVE mem["settings"] = snap["settings"]
                <5>1. 1 < j /\ ApplyOrder[1] = "settings"
                    BY <4>1, SettingsBeforePool
                <5>2. AppliedSection("settings")
                    BY <1>1, <2>1, <5>1 DEF IInv, AppliedSoFar
                <5> QED BY <5>2, SectionKinds DEF AppliedSection
            <4> QED BY <1>1, <1>9, <3>1, <4>1
        <3>5. s = "blocklists" => mem'[s] = snap'[s] \/ triggered'
            BY <1>10, <3>1
        <3> QED BY <3>2, <3>3, <3>4, <3>5 DEF AppliedSection
    <2>2. CASE j # at
        <3>1. AppliedSection(s) /\ s # Section
            BY <1>1, <1>3, <2>2, ApplyOnce DEF IInv, AppliedSoFar, Section
        <3>2. s \in InMemory => mem'[s] = mem[s]
            BY <1>8, <3>1
        <3>3. s = "upstreams" => pool' = pool
            BY <1>9, <3>1
        <3>4. triggered => triggered'
            BY <1>10
        <3> QED BY <1>1, <3>1, <3>2, <3>3, <3>4, SectionKinds DEF AppliedSection
    <2> QED BY <2>1, <2>2
<1>13. WholeSections'
    BY <1>1, <1>5, <1>8, SectionKinds DEF IInv, WholeSections, Swaps
<1>14. SnapshotIsPast' /\ PastCoversConfig' /\ ReplacedAreWhole' /\ VersionStandsForState'
    BY <1>1 DEF IInv, SnapshotIsPast, PastCoversConfig, ReplacedAreWhole,
                VersionStandsForState
<1> QED BY <1>11, <1>12, <1>13, <1>14 DEF IInv

\* At the end of the apply every section stands as the snapshot says.
LEMMA AppliedIsMirror ==
    ASSUME IInv, phase = "apply", at = End
    PROVE  Mirrors(snap)
<1>1. ASSUME NEW s \in Sections PROVE AppliedSection(s)
    <2>1. PICK j \in 1..8 : ApplyOrder[j] = s
        BY Places
    <2> QED BY <2>1 DEF IInv, AppliedSoFar, End
<1>2. db = snap
    <2>1. db \in Config /\ snap \in Config
        BY DEF IInv, TypeOK
    <2>2. db = [s \in Sections |-> db[s]] /\ snap = [s \in Sections |-> snap[s]]
        BY <2>1 DEF Config
    <2>3. \A s \in Sections : db[s] = snap[s]
        BY <1>1 DEF AppliedSection
    <2>4. [s \in Sections |-> db[s]] = [s \in Sections |-> snap[s]]
        BY <2>3
    <2> QED BY <2>2, <2>4
<1>3. "upstreams" \in Sections
    BY DEF Sections
<1> QED BY <1>1, <1>2, <1>3, SectionKinds DEF Mirrors, AppliedSection, Swaps

LEMMA AppliedInv == IInv /\ Applied => IInv'
<1> SUFFICES ASSUME IInv, Applied PROVE IInv'
    OBVIOUS
<1>1. /\ UNCHANGED <<cfg, past, db, mem, pool, triggered, edits, faults, restarts>>
      /\ phase = "apply" /\ at = End /\ lastVersion' = snap
      /\ phase' = "sleep" /\ at' = 1 /\ snap' = Blank
    BY DEF Applied, Sleep, localVars, bounds
<1>2. Mirrors(snap)
    BY <1>1, AppliedIsMirror
<1>3. TypeOK'
    BY <1>1, SeedType DEF IInv, TypeOK, End
<1>4. VersionStandsForState'
    BY <1>1, <1>2 DEF VersionStandsForState, Mirrors
<1>5. WholeSections'
    BY <1>1, <1>2, SectionKinds DEF IInv, SnapshotIsPast, WholeSections, Mirrors, Swaps
<1>6. SnapshotIsPast' /\ PastCoversConfig' /\ ReplacedAreWhole' /\ AppliedSoFar'
    BY <1>1 DEF IInv, SnapshotIsPast, PastCoversConfig, ReplacedAreWhole, AppliedSoFar
<1> QED BY <1>3, <1>4, <1>5, <1>6 DEF IInv

LEMMA ApplyFailsInv == IInv /\ ApplyFails => IInv'
<1> SUFFICES ASSUME IInv, ApplyFails PROVE IInv'
    OBVIOUS
<1>1. /\ UNCHANGED <<cfg, past, db, mem, pool, triggered, edits, restarts>>
      /\ phase = "apply" /\ lastVersion' = None /\ faults' = faults + 1
      /\ phase' = "sleep" /\ at' = 1 /\ snap' = Blank
    BY DEF ApplyFails, Fault, Sleep, localVars
<1>2. TypeOK'
    BY <1>1, SeedType DEF IInv, TypeOK, End
<1>3. VersionStandsForState' /\ WholeSections'
    BY <1>1 DEF IInv, VersionStandsForState, WholeSections
<1>4. SnapshotIsPast' /\ PastCoversConfig' /\ ReplacedAreWhole' /\ AppliedSoFar'
    BY <1>1 DEF IInv, SnapshotIsPast, PastCoversConfig, ReplacedAreWhole, AppliedSoFar
<1> QED BY <1>2, <1>3, <1>4 DEF IInv

LEMMA SchedulerListsInv == IInv /\ SchedulerLists => IInv'
<1> SUFFICES ASSUME IInv, SchedulerLists PROVE IInv'
    OBVIOUS
<1>1. /\ UNCHANGED <<cfg, past, phase, at, snap, lastVersion, db, pool>>
      /\ UNCHANGED <<edits, faults, restarts>>
      /\ mem' = [mem EXCEPT !["blocklists"] = db["blocklists"]]
    BY DEF SchedulerLists, syncVars, bounds
<1>2. TypeOK
    BY DEF IInv
<1>3. db["blocklists"] \in Content
    BY <1>2, SectionKinds DEF TypeOK, Config
<1>4. mem' \in [InMemory -> Content] /\ mem'["blocklists"] = db["blocklists"]
    BY <1>1, <1>2, <1>3, SectionKinds DEF TypeOK
<1>5. \A s \in Swaps : mem'[s] = mem[s]
    BY <1>1, <1>2 DEF TypeOK, Swaps
<1>6. TypeOK'
    BY <1>1, <1>2, <1>4, Zenon DEF SchedulerLists, TypeOK
<1>7. AppliedSoFar'
    <2>1. ASSUME NEW s, AppliedSection(s) PROVE AppliedSection(s)'
        BY <1>1, <1>4, <1>5, <2>1 DEF AppliedSection
    <2> QED BY <1>1, <2>1 DEF IInv, AppliedSoFar
<1>8. VersionStandsForState'
    BY <1>1, <1>4, <1>5 DEF IInv, VersionStandsForState, Mirrors, Swaps
<1>9. WholeSections'
    BY <1>1, <1>5 DEF IInv, WholeSections, Swaps
<1>10. SnapshotIsPast' /\ PastCoversConfig' /\ ReplacedAreWhole'
    BY <1>1 DEF IInv, SnapshotIsPast, PastCoversConfig, ReplacedAreWhole
<1> QED BY <1>6, <1>7, <1>8, <1>9, <1>10 DEF IInv

LEMMA RestartInv == IInv /\ Restart => IInv'
<1> SUFFICES ASSUME IInv, Restart PROVE IInv'
    OBVIOUS
<1>1. /\ UNCHANGED <<cfg, past, db, edits, faults>> /\ restarts' = restarts + 1
      /\ mem' = Hydrated(db) /\ pool' = db["settings"] /\ lastVersion' = None
      /\ phase' = "sleep" /\ at' = 1 /\ snap' = Blank
    BY DEF Restart, Sleep
<1>2. triggered' \in BOOLEAN
    BY Zenon DEF Restart
<1>3. \A s \in Sections : db[s] \in Content
    BY DEF IInv, TypeOK, Config
<1>4. mem' \in [InMemory -> Content] /\ pool' \in Content
    BY <1>1, <1>3, SectionKinds DEF Hydrated
<1>5. TypeOK'
    BY <1>1, <1>2, <1>4, SeedType DEF IInv, TypeOK, End
<1>6. VersionStandsForState'
    BY <1>1 DEF VersionStandsForState
<1>7. WholeSections'
    <2>1. restarts' # 0
        BY <1>1 DEF IInv, TypeOK
    <2>2. \A s \in Replaced : mem'[s] \in past'[s]
        BY <1>1, SectionKinds DEF IInv, ReplacedAreWhole, Hydrated
    <2> QED BY <1>1, <2>1, <2>2 DEF WholeSections
<1>8. SnapshotIsPast' /\ PastCoversConfig' /\ ReplacedAreWhole' /\ AppliedSoFar'
    BY <1>1 DEF IInv, SnapshotIsPast, PastCoversConfig, ReplacedAreWhole, AppliedSoFar
<1> QED BY <1>5, <1>6, <1>7, <1>8 DEF IInv

\* Every step keeps the invariant.
LEMMA NextInv == IInv /\ [Next]_vars => IInv'
<1> SUFFICES ASSUME IInv, [Next]_vars PROVE IInv'
    OBVIOUS
<1>1. CASE UNCHANGED vars
    <2>1. UNCHANGED <<cfg, past, phase, at, snap, lastVersion, db, mem, pool,
                      triggered, edits, faults, restarts>>
        BY <1>1 DEF vars, syncVars, localVars, bounds
    <2> QED BY <2>1 DEF IInv, TypeOK, PastCoversConfig, SnapshotIsPast,
                        ReplacedAreWhole, AppliedSoFar, AppliedSection,
                        VersionStandsForState, Mirrors, WholeSections
<1>2. CASE Next
    <2>1. RequestFails => IInv'
        BY SleepInv DEF RequestFails, Fault, localVars, IInv, TypeOK
    <2>2. NotModified => IInv'
        BY SleepInv DEF NotModified, localVars, bounds, IInv, TypeOK
    <2> QED BY <1>2, <2>1, <2>2, NextCases, EditInv, PollInv, ReadSectionInv,
               ModifiedInv, WriteSectionInv, SwapSectionInv, AppliedInv,
               ApplyFailsInv, SchedulerListsInv, RestartInv, Zenon
<1> QED BY <1>1, <1>2

\* IInv is an invariant of the mirror.
THEOREM Invariance == Spec => []IInv
BY InitInv, NextInv, PTL DEF Spec

\* The types are kept, and the settings row the migrations seed is never lost on
\* the secondary, whatever fails in apply_config_snapshot.
THEOREM Typing == Spec => []TypeOK
<1>1. IInv => TypeOK
    BY DEF IInv
<1> QED BY <1>1, Invariance, PTL

\* sync_once: between two applies, the version a 304 would confirm is what the
\* secondary's tables, memory, pool and pending wake-up amount to, so a failed
\* or interrupted apply is never frozen.
THEOREM VersionIsTheState == Spec => []VersionStandsForState
<1>1. IInv => VersionStandsForState
    BY DEF IInv
<1> QED BY <1>1, Invariance, PTL

\* Each section the DNS path reads is one the primary had as a whole at some
\* time, however applies fail.
THEOREM SectionsAreWhole == Spec => []WholeSections
<1>1. IInv => WholeSections
    BY DEF IInv
<1> QED BY <1>1, Invariance, PTL
=============================================================================
