----------------------------- MODULE WebAccess -----------------------------
(***************************************************************************)
(* Who may do what through the admin interface (src/src/web: auth.rs,      *)
(* csrf.rs, wizard.rs, readonly.rs, apikeys.rs; storage: sessions.rs,      *)
(* admin_users.rs, api_keys.rs).  A request passes the read-only guard,    *)
(* the wizard guard and the CSRF guard, then the handler's extractor looks *)
(* the session up a second time; every statement is an await between which *)
(* other requests, a config sync, the clock and a restart may come, and    *)
(* may fail.  Hashes and tokens are what they verify.                      *)
(***************************************************************************)
EXTENDS Integers, FiniteSets

CONSTANTS
    SessionIds,   \* random ids of sessions
    KeyIds,       \* random ids of API keys
    Names,        \* of admin users
    Requests,     \* requests under way at a time
    None,
    IDLE_SECS, ABSOLUTE_SECS, RENEW_THRESHOLD_SECS,
    Lag,          \* bound: how long a statement may take
    MaxTime,      \* bound: the clock
    MaxUsers,     \* bound: admin users ever made
    MaxFaults     \* bound: failing statements

ASSUME TimesAssumption ==
    /\ {IDLE_SECS, ABSOLUTE_SECS, RENEW_THRESHOLD_SECS, Lag} \subseteq Nat
    /\ RENEW_THRESHOLD_SECS < IDLE_SECS /\ IDLE_SECS < ABSOLUTE_SECS
    /\ Lag <= RENEW_THRESHOLD_SECS

\* Sessions and keys are of two tables, and an id is a random token.
ASSUME IdsAssumption ==
    /\ SessionIds \cap KeyIds = {}
    /\ None \notin SessionIds \cup KeyIds

VARIABLES
    secondary,  \* InstanceMode: whether this is a read-only mirror
    users,      \* the table admin_users: name to id
    lastId,     \* its AUTOINCREMENT counter
    sessions,   \* the table sessions
    keys,       \* the table api_keys: id to whether it is revoked
    setupDone,  \* AppState::setup_done
    reqs,       \* the requests
    clock, faults,
    past        \* history: of the sessions, see Begun, and the wizard's accounts

vars == <<secondary, users, lastId, sessions, keys, setupDone, reqs, clock, faults, past>>
store == <<users, lastId, sessions, keys>>
env == <<secondary, clock>>

Idle == [phase |-> "idle"]

SessionRow(user, created, expires) == [user |-> user, created |-> created, expires |-> expires]

\* "page" and "post" stand for the protected routes of either kind.
Safe == {"page"}
PublicForms == {"login", "setup"}
Kinds == {"post", "logout"} \cup Safe \cup PublicForms

\* A request under way: the session or key it presents, whether it is genuine and has
\* the CSRF token, whether the CSRF guard is done with it and the extractor has let it
\* through; what its last statement left it; and, of its history, whether the
\* credential was good when it came and whether a statement of its lookups failed.
Request(kind, phase, cred, genuine, token, live) ==
    [kind |-> kind, phase |-> phase, cred |-> cred, genuine |-> genuine, token |-> token,
     guarded |-> kind \notin {"post", "logout"}, granted |-> FALSE,
     now |-> 0, expires |-> 0, name |-> None, user |-> 0,
     live |-> live, faulted |-> FALSE]

\* Whose session it is, when it was begun, when it was last found good, and whether that
\* no longer says how long it is good: the renewal is still owed, or it was ended.
Begun(name, now) == [name |-> name, born |-> clock, used |-> now, owed |-> FALSE]
Ended(gone) ==
    [s \in DOMAIN past.begun |-> IF s \in gone THEN [past.begun[s] EXCEPT !.used = 0, !.owed = TRUE]
                                ELSE past.begun[s]]

Init ==
    /\ secondary \in BOOLEAN
    /\ users = <<>> /\ lastId = 0
    /\ sessions = <<>>
    /\ keys = <<>>
    /\ setupDone = FALSE
    /\ reqs = [r \in Requests |-> Idle]
    /\ clock = 0 /\ faults = 0
    /\ past = [begun |-> <<>>, wizard |-> {}]

Without(f, gone) == [x \in DOMAIN f \ gone |-> f[x]]
Put(f, x, v) == [y \in DOMAIN f \cup {x} |-> IF y = x THEN v ELSE f[y]]
Least(a, b) == IF a < b THEN a ELSE b
Greatest(a, b) == IF a < b THEN b ELSE a

\* A statement fails: SQLITE_BUSY after the busy timeout, a full disk.
Fault == faults < MaxFaults /\ faults' = faults + 1

Finish(r) == reqs' = [reqs EXCEPT ![r] = Idle]

-----------------------------------------------------------------------------
(* The guards, outermost first.  They decide by the request and at most    *)
(* one statement, up to the CSRF guard's look at the session.              *)

PassesReadonly(kind) ==
    ~secondary \/ kind \in Safe \cup {"login", "logout"}

\* needs_setup, with the outcome of count.
NeedsSetup(counted) ==
    /\ ~secondary /\ ~setupDone
    /\ counted /\ users = <<>>

PassesWizard(kind, counted) == NeedsSetup(counted) <=> kind = "setup"

\* The Origin or Referer of a request, against the origin the browser sees.
Origins == {"same", "other", "none"}

\* origin_ok: it may be left out beside a session cookie.
OriginOk(kind, cookie, origin) ==
    \/ kind \in Safe
    \/ origin = "same"
    \/ origin = "none" /\ kind \notin PublicForms /\ cookie # None

\* Where a request that has come so far goes on; one without a cookie only gets to an
\* extractor that redirects it, or to a logout that has nothing to delete.
Entry(kind, cookie) ==
    IF kind \in PublicForms THEN kind ELSE IF cookie # None THEN "find" ELSE "idle"

Arrive(r, kind, cookie, genuine, origin, token) ==
    /\ reqs[r] = Idle
    /\ \E counted \in BOOLEAN :
          /\ IF counted THEN UNCHANGED faults ELSE ~secondary /\ ~setupDone /\ Fault
          /\ setupDone' = (setupDone \/ (~secondary /\ counted /\ users # <<>>))
          /\ reqs' = [reqs EXCEPT ![r] =
                IF /\ PassesReadonly(kind)
                   /\ PassesWizard(kind, counted)
                   /\ OriginOk(kind, cookie, origin)
                   /\ Entry(kind, cookie) # "idle"
                THEN Request(kind, Entry(kind, cookie), cookie, genuine, token,
                             cookie \in DOMAIN sessions)
                ELSE Idle]
    /\ UNCHANGED <<store, env, past>>

-----------------------------------------------------------------------------
(* current_user, called by the CSRF guard and by the extractor.            *)

\* Mutation: the sliding expiry is not looked at.
ExpiredAbsolute(row) == clock >= row.created + ABSOLUTE_SECS

Expired(row) == clock >= row.expires \/ clock >= row.created + ABSOLUTE_SECS

NewExpires(row) == Least(clock + IDLE_SECS, row.created + ABSOLUTE_SECS)

\* Mutation: renewals are rarer than the threshold says.
RenewalDueLate(row) == NewExpires(row) - row.expires > 2 * RENEW_THRESHOLD_SECS

RenewalDue(row) == NewExpires(row) - row.expires > RENEW_THRESHOLD_SECS

\* No session: the guard leaves the request to the extractor, which redirects; logout
\* has no extractor.
NoSession(q) ==
    IF q.guarded THEN Idle
    ELSE [q EXCEPT !.phase = IF q.kind = "logout" THEN "handler" ELSE "find",
                   !.guarded = TRUE, !.now = 0]

\* Mutation: the guard does not ask for the token of a form.
SessionWithoutToken(q) ==
    IF q.guarded THEN [q EXCEPT !.phase = "handler", !.granted = TRUE, !.now = 0, !.expires = 0]
    ELSE [q EXCEPT !.phase = IF q.kind = "logout" THEN "handler" ELSE "find",
                   !.guarded = TRUE, !.now = 0, !.expires = 0]

\* A session: the guard asks for the token, the extractor lets the request through.
Session(q) ==
    IF q.guarded THEN [q EXCEPT !.phase = "handler", !.granted = TRUE, !.now = 0, !.expires = 0]
    ELSE IF ~q.token THEN Idle
    ELSE [q EXCEPT !.phase = IF q.kind = "logout" THEN "handler" ELSE "find",
                   !.guarded = TRUE, !.now = 0, !.expires = 0]

Find(r) ==
    LET q == reqs[r]
        s == q.cred
        row == sessions[s]
        looked == [past EXCEPT !.begun[s].used = clock, !.begun[s].owed = RenewalDue(row)]
    IN /\ q.phase = "find"
       /\ \/ /\ s \in DOMAIN sessions => ~Expired(row) /\ ~q.genuine
             /\ reqs' = [reqs EXCEPT ![r] = NoSession(q)]
             /\ UNCHANGED past
          \/ /\ s \in DOMAIN sessions /\ Expired(row)
             /\ reqs' = [reqs EXCEPT ![r].phase = "delete", ![r].now = clock]
             /\ UNCHANGED past
          \/ /\ s \in DOMAIN sessions /\ ~Expired(row) /\ q.genuine
             /\ IF RenewalDue(row)
                THEN reqs' = [reqs EXCEPT ![r].phase = "touch", ![r].now = clock,
                                          ![r].expires = NewExpires(row)]
                ELSE reqs' = [reqs EXCEPT ![r] = Session(q)]
             /\ past' = looked
       /\ UNCHANGED <<store, env, setupDone, faults>>

\* A lookup that fails finds no session.
FindFails(r) ==
    /\ reqs[r].phase = "find"
    /\ Fault
    /\ reqs' = [reqs EXCEPT ![r] = NoSession([reqs[r] EXCEPT !.faulted = TRUE])]
    /\ UNCHANGED <<store, env, setupDone, past>>

\* Mutation: an upsert.
TouchUpserts(s, expires) ==
    Put(sessions, s, SessionRow(IF s \in DOMAIN sessions THEN sessions[s].user ELSE 1,
                                past.begun[s].born, expires))

Touched(s, expires) ==
    IF s \in DOMAIN sessions THEN [sessions EXCEPT ![s].expires = expires] ELSE sessions

\* A renewal; a failed one is passed over.
Touch(r) ==
    LET q == reqs[r] IN
    /\ q.phase = "touch"
    /\ \/ /\ sessions' = Touched(q.cred, q.expires)
          /\ past' = IF q.cred \in DOMAIN sessions /\ past.begun[q.cred].used = q.now
                     THEN [past EXCEPT !.begun[q.cred].owed = FALSE] ELSE past
          /\ reqs' = [reqs EXCEPT ![r] = Session(q)]
          /\ UNCHANGED faults
       \/ /\ Fault
          /\ reqs' = [reqs EXCEPT ![r] = Session(q)]
          /\ UNCHANGED <<sessions, past>>
    /\ UNCHANGED <<users, lastId, keys, env, setupDone>>

\* An expired session is deleted, and then all that are expired; what fails is passed
\* over.  One that was renewed since it was read goes, too.
Delete(r) ==
    LET q == reqs[r]
        renewed == q.cred \in DOMAIN sessions /\ sessions[q.cred].expires > q.now
    IN /\ q.phase = "delete"
       /\ \/ /\ sessions' = Without(sessions, {q.cred})
             /\ past' = IF renewed THEN [past EXCEPT !.begun = Ended({q.cred})] ELSE past
             /\ reqs' = [reqs EXCEPT ![r].phase = "sweep"]
             /\ UNCHANGED faults
          \/ /\ Fault
             /\ reqs' = [reqs EXCEPT ![r].phase = "sweep", ![r].faulted = TRUE]
             /\ UNCHANGED <<sessions, past>>
       /\ UNCHANGED <<users, lastId, keys, env, setupDone>>

DeleteExpired(r) ==
    LET q == reqs[r] IN
    /\ q.phase = "sweep"
    /\ \/ /\ sessions' = Without(sessions, {s \in DOMAIN sessions : sessions[s].expires <= q.now})
          /\ UNCHANGED faults
       \/ Fault /\ UNCHANGED sessions
    /\ reqs' = [reqs EXCEPT ![r] = NoSession(q)]
    /\ UNCHANGED <<users, lastId, keys, env, setupDone, past>>

-----------------------------------------------------------------------------
(* The handlers.                                                           *)

\* login_submit: the user by name, the password, then a new session.
Verify(r, name) ==
    /\ reqs[r].phase = "login"
    /\ name \in DOMAIN users
    /\ SessionIds # DOMAIN past.begun
    /\ reqs' = [reqs EXCEPT ![r] = [@ EXCEPT !.phase = "insert", !.name = name, !.now = clock,
                                            !.user = users[name],
                                            !.expires = clock + IDLE_SECS]]
    /\ UNCHANGED <<store, env, setupDone, faults, past>>

\* begin_session: the foreign key refuses a user that is gone.
InsertSession(r, s) ==
    LET q == reqs[r] IN
    /\ q.phase = "insert"
    /\ s \notin DOMAIN past.begun
    /\ IF \E n \in DOMAIN users : users[n] = q.user
       THEN /\ sessions' = Put(sessions, s, SessionRow(q.user, clock, q.expires))
            /\ past' = [past EXCEPT !.begun = Put(@, s, Begun(q.name, q.now))]
       ELSE UNCHANGED <<sessions, past>>
    /\ Finish(r)
    /\ UNCHANGED <<users, lastId, keys, env, setupDone, faults>>

Logout(r) ==
    LET q == reqs[r] IN
    /\ q.phase = "handler" /\ q.kind = "logout"
    /\ sessions' = Without(sessions, {q.cred})
    /\ past' = [past EXCEPT !.begun = Ended({q.cred})]
    /\ Finish(r)
    /\ UNCHANGED <<users, lastId, keys, env, setupDone, faults>>

\* Mutation: ids are taken from the rows there are.
NextIdReused == 1 + Cardinality(DOMAIN users)

NextId == lastId + 1

\* Mutation: a plain INSERT.
CreateAnyway(name) ==
    IF name \notin DOMAIN users
    THEN /\ users' = Put(users, name, NextId)
         /\ lastId' = NextId
         /\ past' = [past EXCEPT !.wizard = @ \cup {name}]
    ELSE UNCHANGED <<users, lastId, past>>

\* INSERT ... WHERE NOT EXISTS.
CreateInitial(name) ==
    IF users = <<>>
    THEN /\ users' = Put(users, name, NextId)
         /\ lastId' = NextId
         /\ past' = [past EXCEPT !.wizard = @ \cup {name}]
    ELSE UNCHANGED <<users, lastId, past>>

SetupSubmit(r, name) ==
    /\ reqs[r].phase = "setup"
    /\ lastId < MaxUsers
    /\ CreateInitial(name)
    /\ setupDone' = (setupDone \/ users = <<>>)
    /\ Finish(r)
    /\ UNCHANGED <<sessions, keys, env, faults>>

\* The protected handlers: the pages, the API keys, and the edits of the configuration,
\* which are the other modules' subject.
ApikeyCreate(r, k) ==
    /\ reqs[r].phase = "handler" /\ reqs[r].kind = "post"
    /\ k \notin DOMAIN keys
    /\ keys' = Put(keys, k, FALSE)
    /\ Finish(r)
    /\ UNCHANGED <<users, lastId, sessions, env, setupDone, faults, past>>

ApikeyRevoke(r, k) ==
    /\ reqs[r].phase = "handler" /\ reqs[r].kind = "post"
    /\ k \in DOMAIN keys
    /\ keys' = [keys EXCEPT ![k] = TRUE]
    /\ Finish(r)
    /\ UNCHANGED <<users, lastId, sessions, env, setupDone, faults, past>>

Handle(r) ==
    /\ reqs[r].phase = "handler" /\ reqs[r].kind # "logout"
    /\ Finish(r)
    /\ UNCHANGED <<store, env, setupDone, faults, past>>

-----------------------------------------------------------------------------
(* The API for secondaries, outside the guards: authenticate_api_key.      *)

ArriveApi(r, k, genuine) ==
    /\ reqs[r] = Idle
    /\ reqs' = [reqs EXCEPT ![r] = Request("config", "key", k, genuine, FALSE, ~keys[k])]
    /\ UNCHANGED <<store, env, setupDone, faults, past>>

\* find_active, then touch_last_used, whose only effect is a time on the page of keys.
FindActive(r) ==
    LET q == reqs[r] IN
    /\ q.phase = "key"
    /\ reqs' = [reqs EXCEPT ![r] = IF keys[q.cred] \/ ~q.genuine THEN Idle
                                  ELSE [q EXCEPT !.phase = "handler", !.granted = TRUE]]
    /\ UNCHANGED <<store, env, setupDone, faults, past>>

-----------------------------------------------------------------------------
(* Around the requests.                                                    *)

\* The response is sent; or the browser goes away and the future is dropped where it
\* is; or a form or password is refused, or a handler's statement fails.
Leave(r) ==
    /\ reqs[r] # Idle
    /\ Finish(r)
    /\ UNCHANGED <<store, env, setupDone, faults, past>>

\* apply_admin_users, on a secondary; a row that is there keeps its id.
Upsert(name) ==
    /\ secondary /\ name \notin DOMAIN users
    /\ lastId < MaxUsers
    /\ users' = Put(users, name, NextId)
    /\ lastId' = Greatest(lastId, NextId)
    /\ UNCHANGED <<sessions, keys, env, setupDone, reqs, faults, past>>

\* DELETE, ON DELETE CASCADE.
DeleteByUsername(name) ==
    LET owned == {s \in DOMAIN sessions : sessions[s].user = users[name]} IN
    /\ secondary /\ name \in DOMAIN users
    /\ users' = Without(users, {name})
    /\ sessions' = Without(sessions, owned)
    /\ past' = [past EXCEPT !.begun = Ended(owned)]
    /\ UNCHANGED <<lastId, keys, env, setupDone, reqs, faults>>

\* A process that ends takes its requests, setup_done and the CSRF key with it.
Restart ==
    /\ setupDone' = FALSE
    /\ reqs' = [r \in Requests |-> Idle]
    /\ UNCHANGED <<store, env, faults, past>>

\* Statements take at most Lag.  Time is counted while there is a session or one is
\* being begun: nothing else looks at the clock.
Tick ==
    /\ clock < MaxTime
    /\ sessions # <<>> \/ \E r \in Requests : reqs[r].phase = "insert"
    /\ \A r \in Requests :
          reqs[r].phase \in {"touch", "delete", "sweep", "insert"} => clock - reqs[r].now < Lag
    /\ clock' = clock + 1
    /\ UNCHANGED <<store, secondary, setupDone, reqs, faults, past>>

\* What requests come with.  A page, which only a secondary gets here, does what the
\* second half of an edit does; an edit and a logout also come with a cookie that is not
\* genuine, or with no token; and there is a login only while there are ids for its session.
Cookies(kind) == IF kind \in PublicForms THEN {None} ELSE DOMAIN past.begun \cup {None}
Proofs(kind, cookie) ==
    CASE cookie = None -> {<<FALSE, FALSE>>}
      [] kind \in {"post", "logout"} -> {<<TRUE, TRUE>>, <<TRUE, FALSE>>, <<FALSE, FALSE>>}
      [] OTHER -> {<<TRUE, TRUE>>}
Offered == Kinds \ ((IF secondary THEN {} ELSE Safe)
                       \cup (IF SessionIds = DOMAIN past.begun THEN {"login"} ELSE {}))

Step(r) ==
    \/ \E kind \in Offered, origin \in Origins : \E cookie \in Cookies(kind) :
          \E proof \in Proofs(kind, cookie) :
             Arrive(r, kind, cookie, proof[1], origin, proof[2])
    \/ Find(r) \/ FindFails(r) \/ Touch(r) \/ Delete(r) \/ DeleteExpired(r)
    \/ \E name \in Names : Verify(r, name) \/ SetupSubmit(r, name)
    \/ \E s \in SessionIds : InsertSession(r, s)
    \/ Logout(r)
    \/ \E k \in KeyIds : ApikeyCreate(r, k) \/ ApikeyRevoke(r, k)
    \/ Handle(r)
    \/ \E k \in DOMAIN keys, genuine \in BOOLEAN : ArriveApi(r, k, genuine)
    \/ FindActive(r)
    \/ Leave(r)

Next ==
    \/ \E r \in Requests : Step(r)
    \/ \E name \in Names : Upsert(name) \/ DeleteByUsername(name)
    \/ Restart
    \/ Tick

Spec == Init /\ [][Next]_vars
-----------------------------------------------------------------------------
(* Properties.                                                             *)

\* The credentials as their promise sees them.
Promise == INSTANCE Credentials WITH
    Creds <- SessionIds \cup KeyIds,
    Clients <- Requests,
    status <- [x \in SessionIds \cup KeyIds |->
                  IF x \in DOMAIN sessions \/ (x \in DOMAIN keys /\ ~keys[x]) THEN "live"
                  ELSE IF x \in DOMAIN past.begun \cup DOMAIN keys THEN "over"
                  ELSE "unused"],
    asks <- [r \in Requests |->
                IF reqs[r] = Idle \/ reqs[r].cred = None THEN [phase |-> "none"]
                ELSE [phase |-> IF reqs[r].granted THEN "granted" ELSE "asking",
                      cred |-> reqs[r].cred, live |-> reqs[r].live]]

\* Sessions and API keys keep the promise of Credentials: one that is logged out, swept,
\* deleted with its user or revoked never comes back, by a renewal that was under way
\* least of all, and lets no later request through (auth.rs:367-436, sessions.rs:129-159).
KeepsPromise == Promise!Spec

\* Whoever races whom, before or after a restart, the wizard makes one account, the
\* first, and none on a secondary (wizard.rs:38-93, 136-167, admin_users.rs:240-264).
OneFirstAdmin ==
    /\ Cardinality(past.wizard) <= 1
    /\ secondary => past.wizard = {}

\* A session is never found good IDLE_SECS or more after it was last found good, nor
\* ABSOLUTE_SECS or more after login, whatever renewals were late, dropped or failed
\* (auth.rs:372-392).
InsideLimits ==
    [][\A s \in DOMAIN past.begun :
          past'.begun[s].used # past.begun[s].used =>
              past'.begun[s].used < Least(past.begun[s].used + IDLE_SECS,
                                          past.begun[s].born + ABSOLUTE_SECS)]_vars

\* An admin at work is not signed out: a session that a request used stays good for
\* IDLE_SECS, but not beyond ABSOLUTE_SECS after login, short of the renewal threshold,
\* when requests that overlap renew it in any order; unless it is logged out or its user
\* goes, the renewal is not yet made or fails, or a request that read it expired deletes
\* it (auth.rs:372-392).
ActiveSessionSurvives ==
    \A s \in DOMAIN past.begun :
        LET due == Least(past.begun[s].used + IDLE_SECS, past.begun[s].born + ABSOLUTE_SECS)
                       - RENEW_THRESHOLD_SECS
        IN clock < due /\ ~past.begun[s].owed => s \in DOMAIN sessions /\ sessions[s].expires >= due

\* A configuration edit gets to its handler only on a primary, for a genuine session that was
\* there when the request came, with that session's CSRF token; the token may be wanting
\* only if a statement of the guard's own lookup of the session failed (csrf.rs:98-182,
\* readonly.rs:21-44, auth.rs:269-293).
MutationsAreAuthorised ==
    \A r \in Requests :
        reqs[r].phase = "handler" /\ reqs[r].kind = "post" =>
            /\ ~secondary
            /\ reqs[r].live /\ reqs[r].genuine
            /\ reqs[r].token \/ reqs[r].faulted

\* A session is that of the user whose password began it, also when a sync removes and
\* adds users between the password check and the INSERT, and goes with its user
\* (auth.rs:438-524, schema.up.sql:53-72).
SessionIsItsOwners ==
    \A s \in DOMAIN sessions :
        /\ past.begun[s].name \in DOMAIN users
        /\ users[past.begun[s].name] = sessions[s].user
=============================================================================
