----------------------------- MODULE ConfigSync -----------------------------
(***************************************************************************)
(* A secondary that mirrors a primary's configuration: the snapshot the    *)
(* primary builds table by table (src/src/web/sync.rs), the polling client *)
(* (src/src/sync/mod.rs) and the applier that writes the snapshot through  *)
(* to the local SQLite section by section, row by row, and swaps the live  *)
(* state after each section (src/src/sync/apply.rs).                       *)
(*                                                                         *)
(* One action is one statement or one swap, so the primary's admin may     *)
(* edit between two tables of a snapshot and the secondary may fail or     *)
(* stop between two rows of a section.  A snapshot's version is a hash of  *)
(* its content and is represented by the content.                          *)
(*                                                                         *)
(* A key is the natural key of a row (domain, URL, zone suffix, user name, *)
(* record) or a column of the settings.  A zone's main column is its       *)
(* target, a blocklist's its format, a user's the password hash.           *)
(***************************************************************************)
EXTENDS Naturals, Sequences

CONSTANTS
    Keys,        \* natural keys, in the order the snapshot lists them
    Mains,       \* values of the main column
    None,        \* no row; no version
    Edited,      \* the sections the primary's admin edits
    MaxEdits,    \* bound: edits on the primary
    MaxFaults,   \* bound: failing requests and failing statements
    MaxRestarts  \* bound: restarts of the secondary

Row == [main : Mains, enabled : BOOLEAN]
Content == [Keys -> Row \cup {None}]

\* The tables in the order build_config_snapshot reads them.
ReadOrder ==
    <<"settings", "upstreams", "blacklist", "allowlist", "local_records",
      "forward_zones", "blocklists", "admin_users">>

\* The sections in the order apply_config_snapshot applies them.
ApplyOrder ==
    <<"settings", "upstreams", "blacklist", "allowlist", "local_records",
      "forward_zones", "admin_users", "blocklists">>

Sections ==
    {"settings", "upstreams", "blacklist", "allowlist", "local_records",
     "forward_zones", "blocklists", "admin_users"}

End == 9  \* the place after the last section

\* One UPDATE, or replace_all in one transaction.
Replaced == {"settings", "upstreams", "local_records"}

\* Rows of these are a name and nothing else, and surplus ones go first.
Lists == {"blacklist", "allowlist"}

\* Users are read from SQLite at each login: there is no copy in memory.
InMemory == Sections \ {"admin_users"}

Config == [Sections -> Content]

ASSUME ConstantsAssumption ==
    /\ Keys \subseteq Nat
    /\ Mains # {} /\ None \notin Row
    /\ Edited \subseteq Sections
    /\ MaxEdits \in Nat /\ MaxFaults \in Nat /\ MaxRestarts \in Nat

VARIABLES
    cfg,          \* the primary's tables
    past,         \* history: every content a table of the primary has had
    \* The request and the applier.
    phase,        \* "sleep", "read" (the primary is answering) or "apply"
    at,           \* the place in ReadOrder or ApplyOrder
    snap,         \* the snapshot, as far as it has been read
    lastVersion,  \* ConfigSyncer.last_version
    \* The secondary.
    db,           \* its tables
    mem,          \* its live state; for blocklists, the rows last listed by
                  \* the scheduler
    pool,         \* the settings the live upstream pool was built with
    triggered,    \* the permit of the scheduler's RefreshTrigger
    \* Bounds.
    edits, faults, restarts

syncVars == <<phase, at, snap, lastVersion>>
localVars == <<db, mem, pool, triggered>>
bounds == <<edits, faults, restarts>>
vars == <<cfg, past, syncVars, localVars, bounds>>

TypeOK ==
    /\ cfg \in Config
    /\ past \in [Sections -> SUBSET Content]
    /\ phase \in {"sleep", "read", "apply"}
    /\ at \in 1..End
    /\ snap \in Config
    /\ lastVersion \in Config \cup {None}
    /\ db \in Config
    /\ \A k \in Keys : db["settings"][k] # None
    /\ mem \in [InMemory -> Content]
    /\ pool \in Content
    /\ triggered \in BOOLEAN
    /\ edits \in Nat /\ faults \in Nat /\ restarts \in Nat

SomeRow == CHOOSE r \in Row : TRUE

\* What the migrations seed: default settings, and no rows that matter here.
Seed ==
    [s \in Sections |-> [k \in Keys |-> IF s = "settings" THEN SomeRow ELSE None]]

Blank == [s \in Sections |-> [k \in Keys |-> None]]

\* Hydration: memory holds what the tables hold.
Hydrated(tables) == [s \in InMemory |-> tables[s]]

Init ==
    /\ cfg = Seed
    /\ past = [s \in Sections |-> {Seed[s]}]
    /\ phase = "sleep" /\ at = 1 /\ snap = Blank /\ lastVersion = None
    /\ db = Seed /\ mem = Hydrated(Seed) /\ pool = Seed["settings"]
    /\ triggered = FALSE
    /\ edits = 0 /\ faults = 0 /\ restarts = 0

Fault ==
    /\ faults < MaxFaults
    /\ faults' = faults + 1

-----------------------------------------------------------------------------
(* The primary.                                                            *)

\* What an admin can make of a row; an account is made once and kept.
Edits(s, old) ==
    CASE s = "settings" -> Row
      [] s \in Lists -> {SomeRow, None}
      [] s = "admin_users" -> IF old = None THEN Row ELSE {old}
      [] OTHER -> Row \cup {None}

\* A handler of the primary's admin UI writes a row.
Edit(s, k, r) ==
    /\ edits < MaxEdits
    /\ r \in Edits(s, cfg[s][k]) \ {cfg[s][k]}
    /\ edits' = edits + 1
    /\ cfg' = [cfg EXCEPT ![s][k] = r]
    /\ past' = [past EXCEPT ![s] = @ \cup {cfg'[s]}]
    /\ UNCHANGED <<syncVars, localVars, faults, restarts>>

\* build_config_snapshot reads the next table.
ReadSection ==
    /\ phase = "read" /\ at < End
    /\ snap' = [snap EXCEPT ![ReadOrder[at]] = cfg[ReadOrder[at]]]
    /\ at' = at + 1
    /\ UNCHANGED <<cfg, past, phase, lastVersion, localVars, bounds>>

-----------------------------------------------------------------------------
(* The secondary's ConfigSyncer.                                           *)

\* The start, and each elapsed POLL_INTERVAL.
Poll ==
    /\ phase = "sleep"
    /\ phase' = "read" /\ at' = 1
    /\ UNCHANGED <<cfg, past, snap, lastVersion, localVars, bounds>>

\* The tick is over.
Sleep ==
    /\ phase' = "sleep" /\ at' = 1 /\ snap' = Blank

\* No answer, a timeout, a redirect, a refusal, a 5xx, an undecodable body.
RequestFails ==
    /\ phase = "read"
    /\ Fault
    /\ Sleep
    /\ UNCHANGED <<cfg, past, lastVersion, localVars, edits, restarts>>

\* sync_config: 304 if the version sent is that of the snapshot just built.
NotModified ==
    /\ phase = "read" /\ at = End
    /\ lastVersion = snap
    /\ Sleep
    /\ UNCHANGED <<cfg, past, lastVersion, localVars, bounds>>

Modified ==
    /\ phase = "read" /\ at = End
    /\ lastVersion # snap
    /\ phase' = "apply" /\ at' = 1
    /\ UNCHANGED <<cfg, past, snap, lastVersion, localVars, bounds>>

Section == ApplyOrder[at]

\* Mutation: rows the primary no longer has are kept.
PendingKeepsSurplus(s) ==
    {k \in Keys : db[s][k] # snap[s][k] /\ snap[s][k] # None}

\* The rows of a section that are not yet as the snapshot has them.
Pending(s) == {k \in Keys : db[s][k] # snap[s][k]}

\* The lists drop surplus rows and then add, the others the other way round.
FirstPass(s) == {k \in Pending(s) : (snap[s][k] = None) <=> (s \in Lists)}

NextKey(s) ==
    LET pass == IF FirstPass(s) # {} THEN FirstPass(s) ELSE Pending(s) IN
    CHOOSE k \in pass : \A j \in pass : k <= j

\* One statement's worth of a row: a zone's columns are updated one by one, and
\* a blocklist whose format changed is removed and inserted again.
NextRow(s, old, new) ==
    CASE s = "forward_zones" /\ old # None /\ new # None /\ old.main # new.main
           -> [old EXCEPT !.main = new.main]
      [] s = "blocklists" /\ old # None /\ new # None /\ old.main # new.main
           -> None
      [] OTHER -> new

\* The table after the applier's next statement on it.
AfterStatement(s) ==
    IF s \in Replaced THEN snap[s]
    ELSE [db[s] EXCEPT ![NextKey(s)] = NextRow(s, @, snap[s][NextKey(s)])]

WriteSection ==
    /\ phase = "apply" /\ at < End
    /\ Pending(Section) # {}
    /\ db' = [db EXCEPT ![Section] = AfterStatement(Section)]
    /\ UNCHANGED <<cfg, past, syncVars, mem, pool, triggered, bounds>>

\* Memory after the section's seam has run: the settings and the lists are
\* stored, the zones and the records rebuilt; the scheduler is only triggered.
Swapped(s) ==
    IF s \in InMemory \ {"blocklists"} THEN [mem EXCEPT ![s] = db[s]] ELSE mem

\* Mutation: the live state is swapped while rows are still to be written.
SwapEarly ==
    /\ phase = "apply" /\ at < End
    /\ mem' = Swapped(Section)
    /\ pool' = IF Section = "upstreams" THEN mem["settings"] ELSE pool
    /\ triggered' = (triggered \/ Section = "blocklists")
    /\ at' = IF Pending(Section) = {} THEN at + 1 ELSE at
    /\ UNCHANGED <<cfg, past, phase, snap, lastVersion, db, bounds>>

\* The section is written: its seam swaps the live state.
SwapSection ==
    /\ phase = "apply" /\ at < End
    /\ Pending(Section) = {}
    /\ mem' = Swapped(Section)
    /\ pool' = IF Section = "upstreams" THEN mem["settings"] ELSE pool
    /\ triggered' = (triggered \/ Section = "blocklists")
    /\ at' = at + 1
    /\ UNCHANGED <<cfg, past, phase, snap, lastVersion, db, bounds>>

\* All sections are through: the version advances.
Applied ==
    /\ phase = "apply" /\ at = End
    /\ lastVersion' = snap
    /\ Sleep
    /\ UNCHANGED <<cfg, past, localVars, bounds>>

\* Mutation: the version of before survives a failed apply.
ApplyFailsKeepsVersion ==
    /\ phase = "apply" /\ at < End
    /\ Fault
    /\ Sleep
    /\ UNCHANGED <<cfg, past, lastVersion, localVars, edits, restarts>>

\* A token does not parse, a statement, a reload or a rebuild fails: the rest is
\* skipped and the version is forgotten.  store_settings itself cannot fail.
ApplyFails ==
    /\ phase = "apply" /\ at < End
    /\ Section = "settings" => db["settings"] = mem["settings"]
    /\ Fault
    /\ lastVersion' = None
    /\ Sleep
    /\ UNCHANGED <<cfg, past, localVars, edits, restarts>>

\* The secondary's scheduler lists its sources: triggered, or on its timer.
SchedulerLists ==
    /\ triggered \/ mem["blocklists"] # db["blocklists"]
    /\ mem' = [mem EXCEPT !["blocklists"] = db["blocklists"]]
    /\ triggered' = FALSE
    /\ UNCHANGED <<cfg, past, syncVars, db, pool, bounds>>

\* The secondary stops anywhere, and starts again from its tables.
Restart ==
    /\ restarts < MaxRestarts
    /\ restarts' = restarts + 1
    /\ mem' = Hydrated(db) /\ pool' = db["settings"] /\ triggered' = FALSE
    /\ lastVersion' = None
    /\ Sleep
    /\ UNCHANGED <<cfg, past, db, edits, faults>>

Apply == WriteSection \/ SwapSection \/ Applied

Tick == Poll \/ ReadSection \/ NotModified \/ Modified \/ Apply

Next ==
    \/ \E s \in Edited, k \in Keys, r \in Row \cup {None} : Edit(s, k, r)
    \/ Tick \/ RequestFails \/ ApplyFails
    \/ SchedulerLists
    \/ Restart

Spec == Init /\ [][Next]_vars

\* The poll interval ends, the primary answers what is not counted as a fault,
\* and a triggered scheduler gets to its listing.
FairSpec == Spec /\ WF_vars(Tick) /\ WF_vars(SchedulerLists)

-----------------------------------------------------------------------------
(* What the mirror promises.                                               *)

\* The secondary is configured exactly as version v says.
Mirrors(v) ==
    /\ db = v
    /\ \A s \in InMemory \ {"blocklists"} : mem[s] = v[s]
    /\ pool = v["settings"]
    /\ mem["blocklists"] = v["blocklists"] \/ triggered

\* sync_once: "a 304 would freeze the half-applied mix forever".  Between two
\* applies, the version a 304 would confirm is what the tables, the live state,
\* the pool's strategy and the scheduler's wake-up amount to.
VersionStandsForState ==
    phase # "apply" /\ lastVersion # None => Mirrors(lastVersion)

\* SPEC 13.4: "a query never sees a torn set".  Each section the DNS path reads
\* is one the primary had as a whole at some time, however applies fail; after
\* a restart this holds at once for the tables replaced in one transaction, and
\* for the others from the next successful apply on.
WholeSections ==
    \A s \in InMemory \ {"blocklists"} :
        s \in Replaced \/ restarts = 0 \/ lastVersion # None => mem[s] \in past[s]

\* "a transient failure retries on the next poll": once the edits, the failures
\* and the restarts are over, the secondary becomes and stays the primary's
\* mirror, in its tables, its live state and its pool.
EventuallyMirrors ==
    <>[](Mirrors(cfg) /\ mem["blocklists"] = cfg["blocklists"])
=============================================================================
