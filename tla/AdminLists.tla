----------------------------- MODULE AdminLists -----------------------------
(***************************************************************************)
(* The admin blacklist and allowlist: the two SQLite tables                *)
(* (src/src/storage/lists.rs), the two in-memory MatchSets the DNS path    *)
(* reads (src/src/resolver/matchset.rs, state.rs), and the web handlers    *)
(* that write a change through to SQLite and then reload the whole list    *)
(* into memory (src/src/web/lists.rs).                                     *)
(*                                                                         *)
(* Handlers run concurrently on a multi-threaded runtime, and nothing      *)
(* orders them between their awaits: a handler is three steps, its         *)
(* statement, its load_all and its store.  Domains are canonical names;    *)
(* a domain that does not parse is refused before anything happens.        *)
(***************************************************************************)
EXTENDS Naturals

CONSTANTS
    Domains,     \* canonical domain names
    Handlers,    \* handler slots: requests that may be in flight at once
    MaxEdits,    \* bound: requests accepted
    MaxFaults,   \* bound: statements that fail, handlers that are dropped
    MaxRestarts  \* bound: restarts of the process

ASSUME ListsAssumption ==
    /\ Domains # {}
    /\ MaxEdits \in Nat /\ MaxFaults \in Nat /\ MaxRestarts \in Nat

Kinds == {"blacklist", "allowlist"}

VARIABLES
    db,         \* the tables: the rows of each list
    mem,        \* ResolverState.blacklist / .allowlist
    step,       \* where each handler is
    req,        \* what it was asked to do
    loaded,     \* what load_all returned to it
    \* History.
    alone,      \* no other handler of its list was in flight with this one
    writer,     \* per list and domain: the handler that wrote it last, or none
    disturbed,  \* the lists whose last handler failed or was not alone
    \* Bounds.
    edits, faults, restarts

listVars == <<db, mem, step, req, loaded, alone, writer, disturbed,
              edits, faults, restarts>>

Requests == [op : {"add", "remove"}, kind : Kinds, domain : Domains]

ListsTypeOK ==
    /\ db \in [Kinds -> SUBSET Domains]
    /\ mem \in [Kinds -> SUBSET Domains]
    /\ step \in [Handlers -> {"idle", "write", "load", "store"}]
    /\ req \in [Handlers -> Requests]
    /\ loaded \in [Handlers -> SUBSET Domains]
    /\ alone \in [Handlers -> BOOLEAN]
    /\ writer \in [Kinds -> [Domains -> SUBSET Handlers]]
    /\ disturbed \in SUBSET Kinds
    /\ edits \in Nat /\ faults \in Nat /\ restarts \in Nat

\* The slots of handlers that are not running hold this.
NoRequest ==
    [op |-> "add", kind |-> "blacklist", domain |-> CHOOSE d \in Domains : TRUE]

NoWriter == [k \in Kinds |-> [d \in Domains |-> {}]]

AllIdle ==
    /\ step = [h \in Handlers |-> "idle"]
    /\ req = [h \in Handlers |-> NoRequest]
    /\ loaded = [h \in Handlers |-> {}]
    /\ alone = [h \in Handlers |-> TRUE]

\* ResolverState::hydrate reads both lists before the admin server starts.
ListsInit ==
    /\ db \in [Kinds -> SUBSET Domains]
    /\ mem = db
    /\ AllIdle
    /\ writer = NoWriter
    /\ disturbed = {}
    /\ edits = 0 /\ faults = 0 /\ restarts = 0

Of(k) == {h \in Handlers : step[h] # "idle" /\ req[h].kind = k}

-----------------------------------------------------------------------------
(* The handlers.                                                           *)

\* A request for list r.kind enters its handler.
Enter(h, r) ==
    /\ step[h] = "idle"
    /\ edits < MaxEdits
    /\ edits' = edits + 1
    /\ step' = [step EXCEPT ![h] = "write"]
    /\ req' = [req EXCEPT ![h] = r]
    /\ alone' = [g \in Handlers |-> IF g = h THEN Of(r.kind) = {}
                                             ELSE alone[g] /\ g \notin Of(r.kind)]
    /\ UNCHANGED <<db, mem, loaded, writer, disturbed, faults, restarts>>

\* list_add / list_remove of the two pages, and log_block.
Edit(h, k, o, d) ==
    Enter(h, [op |-> o, kind |-> k, domain |-> d])

\* unblock: the list is chosen by a look at the snapshot in memory.
Unblock(h, d) ==
    Enter(h, IF d \in mem["blacklist"]
             THEN [op |-> "remove", kind |-> "blacklist", domain |-> d]
             ELSE [op |-> "add", kind |-> "allowlist", domain |-> d])

\* add: INSERT ... ON CONFLICT DO NOTHING; remove: DELETE.
Apply(r, rows) ==
    IF r.op = "add" THEN rows \cup {r.domain} ELSE rows \ {r.domain}

\* Mutation: the snapshot is read before the statement runs.
WriteAfterLoad(h) ==
    LET r == req[h] IN
    /\ step[h] = "write"
    /\ db' = [db EXCEPT ![r.kind] = Apply(r, @)]
    /\ loaded' = [loaded EXCEPT ![h] = db[r.kind]]
    /\ writer' = [writer EXCEPT ![r.kind][r.domain] = {h}]
    /\ step' = [step EXCEPT ![h] = "store"]
    /\ UNCHANGED <<mem, req, alone, disturbed, edits, faults, restarts>>

Write(h) ==
    LET r == req[h] IN
    /\ step[h] = "write"
    /\ db' = [db EXCEPT ![r.kind] = Apply(r, @)]
    /\ writer' = [writer EXCEPT ![r.kind][r.domain] = {h}]
    /\ step' = [step EXCEPT ![h] = "load"]
    /\ UNCHANGED <<mem, req, loaded, alone, disturbed, edits, faults, restarts>>

\* reload_blacklist / reload_allowlist, load_all().
LoadAll(h) ==
    /\ step[h] = "load"
    /\ loaded' = [loaded EXCEPT ![h] = db[req[h].kind]]
    /\ step' = [step EXCEPT ![h] = "store"]
    /\ UNCHANGED <<db, mem, req, alone, writer, disturbed, edits,
                   faults, restarts>>

\* The handler's slot is free again.
Leave(h) ==
    /\ step' = [step EXCEPT ![h] = "idle"]
    /\ req' = [req EXCEPT ![h] = NoRequest]
    /\ loaded' = [loaded EXCEPT ![h] = {}]
    /\ alone' = [alone EXCEPT ![h] = TRUE]

\* Mutation: the reload adds to the live set instead of replacing it.
StoreMerges(h) ==
    LET k == req[h].kind IN
    /\ step[h] = "store"
    /\ mem' = [mem EXCEPT ![k] = @ \cup loaded[h]]
    /\ disturbed' = IF alone[h] THEN disturbed \ {k} ELSE disturbed \cup {k}
    /\ Leave(h)
    /\ UNCHANGED <<db, writer, edits, faults, restarts>>

\* MatchSet::store, and the response.
Store(h) ==
    LET k == req[h].kind IN
    /\ step[h] = "store"
    /\ mem' = [mem EXCEPT ![k] = loaded[h]]
    /\ disturbed' = IF alone[h] THEN disturbed \ {k} ELSE disturbed \cup {k}
    /\ Leave(h)
    /\ UNCHANGED <<db, writer, edits, faults, restarts>>

\* A statement returns an error, which ends the handler with a 500; or the
\* connection closes and the handler is dropped at one of its awaits.
Fail(h) ==
    /\ step[h] # "idle"
    /\ faults < MaxFaults
    /\ faults' = faults + 1
    /\ disturbed' = IF step[h] = "write" /\ alone[h]
                    THEN disturbed ELSE disturbed \cup {req[h].kind}
    /\ Leave(h)
    /\ UNCHANGED <<db, mem, writer, edits, restarts>>

-----------------------------------------------------------------------------
(* The rest of the process.                                                *)

\* The process ends, at any point, and starts again.
Restart ==
    /\ restarts < MaxRestarts
    /\ restarts' = restarts + 1
    /\ mem' = db
    /\ step' = [h \in Handlers |-> "idle"]
    /\ req' = [h \in Handlers |-> NoRequest]
    /\ loaded' = [h \in Handlers |-> {}]
    /\ alone' = [h \in Handlers |-> TRUE]
    /\ writer' = NoWriter
    /\ disturbed' = {}
    /\ UNCHANGED <<db, edits, faults>>

ListsNext ==
    \/ \E h \in Handlers, k \in Kinds, o \in {"add", "remove"}, d \in Domains :
          Edit(h, k, o, d)
    \/ \E h \in Handlers, d \in Domains : Unblock(h, d)
    \/ \E h \in Handlers : Write(h) \/ LoadAll(h) \/ Store(h) \/ Fail(h)
    \/ Restart

ListsSpec == ListsInit /\ [][ListsNext]_listVars

-----------------------------------------------------------------------------
(* What the write-through promises.                                        *)

\* web/lists.rs: "persisted to SQLite first, then the affected in-memory
\* snapshot is rebuilt".  When no request for a list is in flight, the list
\* in memory is its table, if the last request ran alone and without a fault;
\* so one undisturbed edit, or a restart, also repairs a list that drifted.
MirrorsUnlessDisturbed ==
    \A k \in Kinds \ disturbed : Of(k) = {} => mem[k] = db[k]

\* "the change takes effect on the very next query": the snapshot a handler
\* installs has its own edit in it, unless another handler has since written
\* the same domain; overlapping requests do not change that.
StoresOwnEdit ==
    [][\A h \in Handlers :
         LET r == req[h] IN
         Store(h) /\ writer[r.kind][r.domain] = {h} =>
             (r.domain \in mem'[r.kind] <=> r.op = "add")]_listVars

\* The inductive invariant behind the two properties above, in parts.

\* A handler that is still alone is the only one of its list.
AloneIsAlone ==
    \A h \in Handlers : step[h] # "idle" /\ alone[h] => Of(req[h].kind) = {h}

\* What a lone handler has loaded is still what the table holds.
LoneLoadIsFresh ==
    \A h \in Handlers :
        step[h] = "store" /\ alone[h] => loaded[h] = db[req[h].kind]

\* An undisturbed list differs from its table only behind a statement.
MirrorsUntilWritten ==
    \A k \in Kinds \ disturbed :
        (\A h \in Of(k) : step[h] = "write") => mem[k] = db[k]

\* The last writer of a domain finds its edit in the table, then in its load.
OwnEditSeen ==
    \A h \in Handlers :
        LET r == req[h] IN
        step[h] \in {"load", "store"} /\ writer[r.kind][r.domain] = {h} =>
            (r.domain \in (IF step[h] = "load" THEN db[r.kind] ELSE loaded[h])
               <=> r.op = "add")

ListsInv ==
    /\ ListsTypeOK
    /\ AloneIsAlone
    /\ LoneLoadIsFresh
    /\ MirrorsUntilWritten
    /\ OwnEditSeen
=============================================================================
