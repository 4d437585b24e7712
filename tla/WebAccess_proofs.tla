-------------------------- MODULE WebAccess_proofs --------------------------
(***************************************************************************)
(* Proofs about WebAccess, for any sessions, keys, users, requests under   *)
(* way and bounds, and any times that keep the order of the code's         *)
(* constants.                                                              *)
(*                                                                         *)
(* What the properties say of the tables depends on what each request      *)
(* under way has read of them and still means to write.  The inductive     *)
(* invariant therefore ties each request to the tables (Ties).             *)
(***************************************************************************)
EXTENDS WebAccess, FiniteSetTheorems, TLAPS

USE TimesAssumption, IdsAssumption

Phases ==
    {"login", "insert", "setup", "find", "touch", "delete", "sweep", "handler", "key"}

RequestRow ==
    [kind : Kinds \cup {"config"}, phase : Phases, cred : SessionIds \cup KeyIds \cup {None},
     genuine : BOOLEAN, token : BOOLEAN, guarded : BOOLEAN, granted : BOOLEAN,
     now : Nat, expires : Nat, name : Names \cup {None}, user : Nat,
     live : BOOLEAN, faulted : BOOLEAN]

SessionRows == [user : Nat, created : Nat, expires : Nat]

BegunRow == [name : Names, born : Nat, used : Nat, owed : BOOLEAN]

UsersOK == users \in [DOMAIN users -> Nat] /\ DOMAIN users \subseteq Names
SessionsOK == sessions \in [DOMAIN sessions -> SessionRows] /\ DOMAIN sessions \subseteq SessionIds
KeysOK == keys \in [DOMAIN keys -> BOOLEAN] /\ DOMAIN keys \subseteq KeyIds
RequestsOK == reqs \in [Requests -> RequestRow \cup {Idle}]
PastOK ==
    /\ past = [begun |-> past.begun, wizard |-> past.wizard]
    /\ past.begun \in [DOMAIN past.begun -> BegunRow] /\ DOMAIN past.begun \subseteq SessionIds
    /\ past.wizard \subseteq Names

TypeOK ==
    /\ secondary \in BOOLEAN /\ setupDone \in BOOLEAN
    /\ lastId \in Nat /\ clock \in Nat /\ faults \in Nat
    /\ UsersOK /\ SessionsOK /\ KeysOK /\ RequestsOK /\ PastOK

\* Ids are given out once, and no two users share one.
UserIds ==
    /\ \A n \in DOMAIN users : 1 <= users[n] /\ users[n] <= lastId
    /\ \A m, n \in DOMAIN users : users[m] = users[n] => m = n

\* How a session's row stands to what became of the session.
SessionRowsAreBegun ==
    /\ DOMAIN sessions \subseteq DOMAIN past.begun
    /\ \A s \in DOMAIN past.begun : past.begun[s].used <= clock
    /\ \A s \in DOMAIN sessions :
          /\ sessions[s].created = past.begun[s].born
          /\ sessions[s].expires <= past.begun[s].used + IDLE_SECS

\* The wizard's account is the only one, and stays.
WizardOnce ==
    /\ \A m, n \in past.wizard : m = n
    /\ past.wizard # {} => ~secondary /\ DOMAIN users # {}

\* Where a request of its kind can be, and what it presents.
Shape(q) ==
    \/ q.kind = "config" /\ q.phase \in {"key", "handler"} /\ q.cred \in DOMAIN keys
    \/ /\ q.kind \in PublicForms /\ q.cred = None
       /\ q.phase \in {"login", "insert", "setup"}
       /\ q.phase = "setup" => ~secondary
    \/ /\ q.kind \in {"post", "logout", "page"} /\ q.cred \in DOMAIN past.begun
       /\ q.phase \in {"find", "touch", "delete", "sweep", "handler"}

\* A credential that is good now was good when the request came.
Since(q) ==
    /\ q.cred \in DOMAIN sessions => q.live
    /\ q.cred \in DOMAIN keys => keys[q.cred] \/ q.live
    /\ q.phase = "touch" => q.live /\ q.genuine

\* An edit that the CSRF guard is done with has the token, or a lookup failed,
\* or will not get through.
Tokened(q) ==
    q.kind = "post" =>
        /\ ~secondary
        /\ q.guarded /\ q.genuine /\ q.cred \in DOMAIN sessions => q.token \/ q.faulted
        /\ q.phase = "sweep" => q.faulted \/ q.cred \notin DOMAIN sessions
        /\ q.phase = "touch" /\ q.guarded => q.token \/ q.faulted
        /\ q.phase = "handler" => q.live /\ q.genuine /\ (q.token \/ q.faulted)

\* The login's session will be that of the user whose password it verified.
Verified(q) ==
    q.phase = "insert" =>
        /\ q.name \in Names /\ q.user <= lastId
        /\ \A n \in DOMAIN users : users[n] = q.user => n = q.name
        /\ q.expires = q.now + IDLE_SECS

\* What a statement under way was given is at most Lag old.
Timely(q) ==
    /\ q.phase \in {"touch", "delete", "sweep", "insert"} =>
          q.now <= clock /\ clock - q.now <= Lag
    /\ q.phase = "touch" =>
          /\ q.expires = Least(q.now + IDLE_SECS, past.begun[q.cred].born + ABSOLUTE_SECS)
          /\ q.cred \in DOMAIN sessions => q.now <= past.begun[q.cred].used

Ties(q) == Shape(q) /\ Since(q) /\ Tokened(q) /\ Verified(q) /\ Timely(q)

RequestsTied == \A r \in Requests : reqs[r] # Idle => Ties(reqs[r])

\* The inductive invariant.
IInv ==
    /\ TypeOK
    /\ UserIds
    /\ SessionRowsAreBegun
    /\ WizardOnce
    /\ RequestsTied
    /\ SessionIsItsOwners
    /\ ActiveSessionSurvives

\* The part that is about the tables and their history alone.
Tables ==
    /\ UserIds
    /\ SessionRowsAreBegun
    /\ WizardOnce
    /\ SessionIsItsOwners
    /\ ActiveSessionSurvives

\* InsideLimits, of session s.
UsedInside(s) ==
    past'.begun[s].used # past.begun[s].used =>
        past'.begun[s].used < Least(past.begun[s].used + IDLE_SECS,
                                    past.begun[s].born + ABSOLUTE_SECS)

\* What no step but a tick of the clock does to what a request relies on.
Keeps ==
    /\ secondary' = secondary /\ clock' = clock /\ lastId <= lastId'
    /\ \A n \in DOMAIN users' :
          users'[n] > lastId \/ (n \in DOMAIN users /\ users'[n] = users[n])
    /\ DOMAIN keys \subseteq DOMAIN keys'
    /\ \A k \in DOMAIN keys : keys[k] => keys'[k]
    /\ \A k \in DOMAIN keys' : k \in DOMAIN keys \/ ~keys'[k]
    /\ DOMAIN past.begun \subseteq DOMAIN past'.begun
    /\ \A s \in DOMAIN past'.begun : s \in DOMAIN past.begun \/ s \in DOMAIN sessions'
    /\ \A s \in DOMAIN past.begun :
          /\ past'.begun[s].born = past.begun[s].born
          /\ s \in DOMAIN sessions' =>
                s \in DOMAIN sessions /\ past.begun[s].used <= past'.begun[s].used
          /\ UsedInside(s)

\* How a request may go on in a step, as far as its credential is concerned.
Advance(q, z) ==
    \/ z = Idle \/ z = q
    \/ q = Idle /\ z.cred = None
    \/ /\ q = Idle /\ z.cred \in SessionIds \cup KeyIds /\ ~z.granted
       /\ z.live <=> (z.cred \in DOMAIN sessions \/ (z.cred \in DOMAIN keys /\ ~keys[z.cred]))
    \/ /\ q # Idle /\ z.cred = q.cred /\ z.live = q.live
       /\ z.granted = q.granted \/ (z.granted /\ q.live)

\* What every step but a tick is shown to do.
StepOK == IInv' /\ Keeps /\ \A r \in Requests : Advance(reqs[r], reqs'[r])

-----------------------------------------------------------------------------
(* Helpers.                                                                *)

\* The empty function has no arguments.
LEMMA EmptyDomain == DOMAIN << >> = {}
OBVIOUS

\* Ending sessions keeps whose they were and when they were begun.
LEMMA EndedFacts ==
    ASSUME PastOK, NEW gone
    PROVE  /\ DOMAIN Ended(gone) = DOMAIN past.begun
           /\ Ended(gone) \in [DOMAIN Ended(gone) -> BegunRow]
           /\ \A s \in DOMAIN past.begun :
                 /\ Ended(gone)[s].name = past.begun[s].name
                 /\ Ended(gone)[s].born = past.begun[s].born
                 /\ s \in gone => Ended(gone)[s].used = 0 /\ Ended(gone)[s].owed
                 /\ s \notin gone => Ended(gone)[s] = past.begun[s]
<1>1. ASSUME NEW x \in BegunRow, NEW y, y = [x EXCEPT !.used = 0, !.owed = TRUE]
      PROVE  y \in BegunRow /\ y.name = x.name /\ y.born = x.born /\ y.used = 0 /\ y.owed
    BY <1>1 DEF BegunRow
<1>2. \A s \in DOMAIN past.begun : past.begun[s] \in BegunRow
    BY DEF PastOK
<1>3. DOMAIN Ended(gone) = DOMAIN past.begun
    BY DEF Ended
<1>4. ASSUME NEW s \in DOMAIN past.begun
      PROVE  Ended(gone)[s] = IF s \in gone THEN [past.begun[s] EXCEPT !.used = 0, !.owed = TRUE]
                              ELSE past.begun[s]
    BY DEF Ended
<1>5. ASSUME NEW s \in DOMAIN past.begun
      PROVE  /\ Ended(gone)[s] \in BegunRow
             /\ Ended(gone)[s].name = past.begun[s].name
             /\ Ended(gone)[s].born = past.begun[s].born
             /\ s \in gone => Ended(gone)[s].used = 0 /\ Ended(gone)[s].owed
             /\ s \notin gone => Ended(gone)[s] = past.begun[s]
    <2>1. CASE s \in gone
        <3>1. Ended(gone)[s] = [past.begun[s] EXCEPT !.used = 0, !.owed = TRUE]
            BY <1>4, <2>1
        <3> QED BY <1>1, <1>2, <2>1, <3>1
    <2>2. CASE s \notin gone
        BY <1>2, <1>4, <2>2
    <2> QED BY <2>1, <2>2
<1>6. Ended(gone) = [s \in DOMAIN past.begun |-> Ended(gone)[s]]
    BY <1>3 DEF Ended
<1> QED BY <1>3, <1>5, <1>6

\* An update of the history of the sessions leaves that of the wizard.
LEMMA PastUpdate ==
    ASSUME PastOK, NEW b, past' = [past EXCEPT !.begun = b]
    PROVE  /\ past' = [begun |-> past'.begun, wizard |-> past'.wizard]
           /\ past'.begun = b /\ past'.wizard = past.wizard
BY DEF PastOK

\* The lesser of two times.
LEMMA LeastFacts ==
    ASSUME NEW a \in Int, NEW b \in Int
    PROVE  /\ Least(a, b) \in Int /\ Least(a, b) <= a /\ Least(a, b) <= b
           /\ Least(a, b) = a \/ Least(a, b) = b
BY DEF Least

\* A request under way is a row tied to the tables.
LEMMA UnderWay ==
    ASSUME IInv, NEW r \in Requests, reqs[r].phase \in Phases
    PROVE  reqs[r] \in RequestRow /\ reqs[r] # Idle /\ Ties(reqs[r])
<1>1. reqs[r] \in RequestRow \cup {Idle}
    BY DEF IInv, TypeOK, RequestsOK
<1>2. Idle.phase \notin Phases
    BY DEF Idle, Phases
<1> QED BY <1>1, <1>2 DEF IInv, RequestsTied

\* A row is not the idle one.
LEMMA RowIsNotIdle == ASSUME NEW q \in RequestRow PROVE q # Idle
<1>1. q.phase # "idle"
    BY DEF RequestRow, Phases
<1> QED BY <1>1 DEF Idle

\* What a request relies on is kept.
LEMMA TiesKept ==
    ASSUME TypeOK, TypeOK', Keeps, NEW q \in RequestRow, Ties(q)
    PROVE  Ties(q)'
<1>1. q.cred \in DOMAIN sessions' => q.cred \in DOMAIN sessions
    BY DEF Ties, Shape, Keeps, TypeOK, SessionsOK, KeysOK
<1>2. q.cred \in DOMAIN keys' => q.cred \in DOMAIN keys
    BY DEF Ties, Shape, Keeps, TypeOK, PastOK, KeysOK
<1>3. Shape(q)'
    BY DEF Ties, Shape, Keeps
<1>4. Since(q)'
    BY <1>1, <1>2 DEF Ties, Since, Keeps
<1>5. Tokened(q)'
    BY <1>1 DEF Ties, Tokened, Keeps
<1>6. Verified(q)'
    <2> SUFFICES ASSUME q.phase = "insert"
                 PROVE  /\ q.name \in Names /\ q.user <= lastId'
                        /\ \A n \in DOMAIN users' : users'[n] = q.user => n = q.name
                        /\ q.expires = q.now + IDLE_SECS
        BY DEF Verified
    <2>1. q.user \in Nat /\ q.user <= lastId
        BY DEF RequestRow, Ties, Verified
    <2>2. ASSUME NEW n \in DOMAIN users', users'[n] = q.user PROVE n = q.name
        <3>1. users'[n] \in Nat /\ lastId \in Nat
            BY DEF TypeOK, UsersOK
        <3>2. ~(users'[n] > lastId)
            BY <2>1, <2>2, <3>1
        <3> QED BY <2>2, <3>2 DEF Keeps, Ties, Verified
    <2>3. q.user <= lastId'
        BY <2>1 DEF Keeps, TypeOK
    <2> QED BY <2>2, <2>3 DEF Ties, Verified
<1>7. Timely(q)'
    <2>1. q.phase \in {"touch", "delete", "sweep", "insert"} =>
              q.now <= clock' /\ clock' - q.now <= Lag
        BY DEF Ties, Timely, Keeps
    <2>2. ASSUME q.phase = "touch"
          PROVE  /\ q.expires = Least(q.now + IDLE_SECS, past'.begun[q.cred].born + ABSOLUTE_SECS)
                 /\ q.cred \in DOMAIN sessions' => q.now <= past'.begun[q.cred].used
        <3>1. q.cred \in DOMAIN past.begun
            BY <2>2 DEF Ties, Shape
        <3>2. past'.begun[q.cred].born = past.begun[q.cred].born
            BY <3>1 DEF Keeps
        <3>3. ASSUME q.cred \in DOMAIN sessions' PROVE q.now <= past'.begun[q.cred].used
            <4>1. past.begun[q.cred].used <= past'.begun[q.cred].used
                BY <3>1, <3>3 DEF Keeps
            <4>2. q.now <= past.begun[q.cred].used
                BY <1>1, <2>2, <3>3 DEF Ties, Timely
            <4>3. past.begun[q.cred] \in BegunRow /\ past'.begun[q.cred] \in BegunRow
                BY <3>1 DEF TypeOK, PastOK, Keeps
            <4>4. q.now \in Nat
                BY DEF RequestRow
            <4> QED BY <4>1, <4>2, <4>3, <4>4 DEF BegunRow
        <3> QED BY <2>2, <3>2, <3>3 DEF Ties, Timely
    <2> QED BY <2>1, <2>2 DEF Timely
<1> QED BY <1>3, <1>4, <1>5, <1>6, <1>7 DEF Ties

\* A step of one request, and of the tables.
LEMMA OneRequest ==
    ASSUME IInv, TypeOK', Tables', Keeps, NEW r \in Requests, NEW z,
           reqs' = [reqs EXCEPT ![r] = z], z # Idle => Ties(z)', Advance(reqs[r], z)
    PROVE  StepOK
<1>1. RequestsTied'
    <2> SUFFICES ASSUME NEW p \in Requests, reqs'[p] # Idle, NEW q, q = reqs'[p]
                 PROVE  Ties(q)'
        BY DEF RequestsTied
    <2>1. reqs'[r] = z
        BY DEF IInv, TypeOK, RequestsOK
    <2>2. CASE p = r
        BY <2>1, <2>2
    <2>3. CASE p # r
        <3>1. q = reqs[p] /\ q # Idle
            BY <2>3 DEF IInv, TypeOK, RequestsOK
        <3>2. q \in RequestRow /\ Ties(q)
            BY <3>1 DEF IInv, TypeOK, RequestsOK, RequestsTied
        <3> QED BY <3>2, TiesKept DEF IInv
    <2> QED BY <2>2, <2>3
<1>2. ASSUME NEW p \in Requests PROVE Advance(reqs[p], reqs'[p])
    <2>1. CASE p = r
        <3>1. reqs'[p] = z
            BY <2>1 DEF IInv, TypeOK, RequestsOK
        <3> QED BY <2>1, <3>1
    <2>2. CASE p # r
        <3>1. reqs'[p] = reqs[p]
            BY <2>2 DEF IInv, TypeOK, RequestsOK
        <3> QED BY <3>1 DEF Advance
    <2> QED BY <2>1, <2>2
<1> QED BY <1>1, <1>2 DEF StepOK, IInv, Tables

\* A step that leaves the tables and their history.
LEMMA SameTables ==
    ASSUME IInv, UNCHANGED <<users, lastId, sessions, keys, secondary, clock, past>>
    PROVE  /\ UsersOK' /\ SessionsOK' /\ KeysOK' /\ PastOK'
           /\ Tables' /\ Keeps
<1>1. UsersOK' /\ SessionsOK' /\ KeysOK' /\ PastOK'
    BY DEF IInv, TypeOK, UsersOK, SessionsOK, KeysOK, PastOK
<1>2. UserIds' /\ SessionRowsAreBegun' /\ WizardOnce'
    BY DEF IInv, UserIds, SessionRowsAreBegun, WizardOnce
<1>3. SessionIsItsOwners' /\ ActiveSessionSurvives'
    BY DEF IInv, SessionIsItsOwners, ActiveSessionSurvives
<1>4. Keeps
    <2>1. \A s \in DOMAIN past.begun : past.begun[s] \in BegunRow
        BY DEF IInv, TypeOK, PastOK
    <2>2. \A s \in DOMAIN past.begun : past.begun[s].used <= past.begun[s].used
        BY <2>1 DEF BegunRow
    <2> QED BY <2>2 DEF Keeps, UsedInside, IInv, TypeOK
<1> QED BY <1>1, <1>2, <1>3, <1>4 DEF Tables

\* A step of one request that leaves the tables and their history.
LEMMA RequestOnly ==
    ASSUME IInv, UNCHANGED <<users, lastId, sessions, keys, secondary, clock, past>>,
           setupDone' \in BOOLEAN, faults' \in Nat, NEW r \in Requests, NEW z,
           reqs' = [reqs EXCEPT ![r] = z], z = Idle \/ (z \in RequestRow /\ Ties(z)'),
           Advance(reqs[r], z)
    PROVE  StepOK
<1>1. /\ UsersOK' /\ SessionsOK' /\ KeysOK' /\ PastOK'
      /\ Tables' /\ Keeps
    BY SameTables
<1>2. RequestsOK'
    BY DEF IInv, TypeOK, RequestsOK
<1>3. TypeOK'
    BY <1>1, <1>2 DEF IInv, TypeOK
<1> QED BY <1>1, <1>3, OneRequest

-----------------------------------------------------------------------------
(* Requests on their way through the guards.                               *)

\* z is request q further on its way.
SameRequest(q, z) ==
    /\ z \in RequestRow
    /\ z.kind = q.kind /\ z.cred = q.cred /\ z.genuine = q.genuine /\ z.token = q.token
    /\ z.name = q.name /\ z.user = q.user /\ z.live = q.live /\ z.faulted = q.faulted

\* A request that has no session gets on only past the CSRF guard.
LEMMA NoSessionFacts ==
    ASSUME NEW q \in RequestRow, NEW z, z = NoSession(q)
    PROVE  \/ z = Idle
           \/ /\ SameRequest(q, z) /\ z.guarded /\ z.granted = q.granted
              /\ z.phase = IF q.kind = "logout" THEN "handler" ELSE "find"
<1>1. CASE q.guarded
    BY <1>1 DEF NoSession
<1>2. CASE ~q.guarded
    <2>1. PICK p \in Phases : p = IF q.kind = "logout" THEN "handler" ELSE "find"
        BY DEF Phases
    <2>2. z = [q EXCEPT !.phase = p, !.guarded = TRUE, !.now = 0]
        BY <1>2, <2>1 DEF NoSession
    <2>3. [q EXCEPT !.phase = p, !.guarded = TRUE, !.now = 0] \in RequestRow
        BY DEF RequestRow
    <2>4. /\ z.kind = q.kind /\ z.cred = q.cred /\ z.genuine = q.genuine /\ z.token = q.token
          /\ z.name = q.name /\ z.user = q.user /\ z.live = q.live /\ z.faulted = q.faulted
          /\ z.guarded /\ z.granted = q.granted /\ z.phase = p
        BY <2>2 DEF RequestRow
    <2> QED BY <2>1, <2>2, <2>3, <2>4 DEF SameRequest
<1> QED BY <1>1, <1>2

\* One that has a session gets on with the token, and from the extractor to the handler.
LEMMA SessionFacts ==
    ASSUME NEW q \in RequestRow, NEW z, z = Session(q)
    PROVE  \/ z = Idle
           \/ /\ q.guarded /\ SameRequest(q, z) /\ z.guarded /\ z.granted
              /\ z.phase = "handler"
           \/ /\ ~q.guarded /\ q.token /\ SameRequest(q, z) /\ z.guarded
              /\ z.granted = q.granted
              /\ z.phase = IF q.kind = "logout" THEN "handler" ELSE "find"
<1>1. CASE q.guarded
    <2>1. z = [q EXCEPT !.phase = "handler", !.granted = TRUE, !.now = 0, !.expires = 0]
        BY <1>1 DEF Session
    <2>4. "handler" \in Phases
        BY DEF Phases
    <2>2. [q EXCEPT !.phase = "handler", !.granted = TRUE, !.now = 0, !.expires = 0] \in RequestRow
        BY <2>4 DEF RequestRow
    <2>3. /\ z.kind = q.kind /\ z.cred = q.cred /\ z.genuine = q.genuine /\ z.token = q.token
          /\ z.name = q.name /\ z.user = q.user /\ z.live = q.live /\ z.faulted = q.faulted
          /\ z.guarded = q.guarded /\ z.granted /\ z.phase = "handler"
        BY <2>1 DEF RequestRow
    <2> QED BY <1>1, <2>1, <2>2, <2>3 DEF SameRequest
<1>2. CASE ~q.guarded /\ q.token
    <2>1. PICK p \in Phases : p = IF q.kind = "logout" THEN "handler" ELSE "find"
        BY DEF Phases
    <2>2. z = [q EXCEPT !.phase = p, !.guarded = TRUE, !.now = 0, !.expires = 0]
        BY <1>2, <2>1 DEF Session
    <2>3. [q EXCEPT !.phase = p, !.guarded = TRUE, !.now = 0, !.expires = 0] \in RequestRow
        BY DEF RequestRow
    <2>4. /\ z.kind = q.kind /\ z.cred = q.cred /\ z.genuine = q.genuine /\ z.token = q.token
          /\ z.name = q.name /\ z.user = q.user /\ z.live = q.live /\ z.faulted = q.faulted
          /\ z.guarded /\ z.granted = q.granted /\ z.phase = p
        BY <2>2 DEF RequestRow
    <2> QED BY <1>2, <2>1, <2>2, <2>3, <2>4 DEF SameRequest
<1>3. CASE ~q.guarded /\ ~q.token
    BY <1>3 DEF Session
<1> QED BY <1>1, <1>2, <1>3

\* A request without a session that gets on stays tied, if it is not an edit whose
\* session is there and good.
LEMMA NoSessionTied ==
    ASSUME NEW q \in RequestRow, Ties(q), q.phase \in {"find", "sweep"},
           q.kind = "post" /\ q.genuine /\ q.cred \in DOMAIN sessions => q.token \/ q.faulted,
           NEW z, z = NoSession(q), z # Idle
    PROVE  z \in RequestRow /\ Ties(z) /\ Advance(q, z)
<1>1. /\ SameRequest(q, z) /\ z.guarded /\ z.granted = q.granted
      /\ z.phase = IF q.kind = "logout" THEN "handler" ELSE "find"
    BY NoSessionFacts
<1>2. Shape(z)
    BY <1>1 DEF Ties, Shape, SameRequest, PublicForms
<1>3. Since(z)
    BY <1>1 DEF Ties, Since, SameRequest
<1>4. Tokened(z)
    BY <1>1 DEF Ties, Tokened, SameRequest
<1>5. Verified(z) /\ Timely(z)
    BY <1>1 DEF Verified, Timely
<1>6. Advance(q, z)
    BY <1>1, RowIsNotIdle DEF Advance, SameRequest
<1> QED BY <1>1, <1>2, <1>3, <1>4, <1>5, <1>6 DEF Ties, SameRequest

\* A request with a good session that gets on stays tied.
LEMMA SessionTied ==
    ASSUME NEW q \in RequestRow, Ties(q), q.phase \in {"find", "touch"},
           q.live, q.genuine, q.kind = "post" /\ q.guarded => q.token \/ q.faulted,
           NEW z, z = Session(q), z # Idle
    PROVE  z \in RequestRow /\ Ties(z) /\ Advance(q, z)
<1>1. /\ SameRequest(q, z) /\ z.guarded
      /\ z.granted = q.granted \/ z.granted
      /\ z.phase \in {"handler", "find"}
      /\ q.guarded \/ q.token
      /\ z.kind = "post" /\ ~q.guarded => z.phase = "find"
    <2>1. CASE q.guarded
        BY <2>1, SessionFacts
    <2>2. CASE ~q.guarded
        <3>1. /\ q.token /\ SameRequest(q, z) /\ z.guarded /\ z.granted = q.granted
              /\ z.phase = IF q.kind = "logout" THEN "handler" ELSE "find"
            BY <2>2, SessionFacts
        <3>2. z.kind = q.kind
            BY <3>1 DEF SameRequest
        <3> QED BY <2>2, <3>1, <3>2
    <2> QED BY <2>1, <2>2
<1>2. Shape(z)
    BY <1>1 DEF Ties, Shape, SameRequest, PublicForms
<1>3. Since(z)
    BY <1>1 DEF Ties, Since, SameRequest
<1>4. Tokened(z)
    BY <1>1 DEF Ties, Tokened, SameRequest
<1>5. Verified(z) /\ Timely(z)
    BY <1>1 DEF Verified, Timely
<1>6. Advance(q, z)
    BY <1>1, RowIsNotIdle DEF Advance, SameRequest
<1> QED BY <1>1, <1>2, <1>3, <1>4, <1>5, <1>6 DEF Ties, SameRequest

\* What requests come with is typed.
LEMMA ProofsType ==
    ASSUME NEW kind, NEW cookie, NEW proof \in Proofs(kind, cookie)
    PROVE  proof[1] \in BOOLEAN /\ proof[2] \in BOOLEAN
<1>1. proof \in {<<TRUE, TRUE>>, <<TRUE, FALSE>>, <<FALSE, FALSE>>}
    <2>1. CASE cookie = None
        BY <2>1, Zenon DEF Proofs
    <2>2. CASE cookie # None /\ kind \in {"post", "logout"}
        BY <2>2, Zenon DEF Proofs
    <2>3. CASE cookie # None /\ kind \notin {"post", "logout"}
        BY <2>3, Zenon DEF Proofs
    <2> QED BY <2>1, <2>2, <2>3
<1>2. CASE proof = <<TRUE, TRUE>>
    BY <1>2
<1>3. CASE proof = <<TRUE, FALSE>>
    BY <1>3
<1>4. CASE proof = <<FALSE, FALSE>>
    BY <1>4
<1> QED BY <1>1, <1>2, <1>3, <1>4

LEMMA ArriveInv ==
    ASSUME IInv, NEW r \in Requests, NEW kind \in Offered, NEW origin \in Origins,
           NEW cookie \in Cookies(kind), NEW genuine \in BOOLEAN, NEW token \in BOOLEAN,
           Arrive(r, kind, cookie, genuine, origin, token)
    PROVE  StepOK
<1>1. PICK counted \in BOOLEAN :
          /\ IF counted THEN UNCHANGED faults ELSE ~secondary /\ ~setupDone /\ Fault
          /\ setupDone' = (setupDone \/ (~secondary /\ counted /\ users # <<>>))
          /\ reqs' = [reqs EXCEPT ![r] =
                IF /\ PassesReadonly(kind)
                   /\ PassesWizard(kind, counted)
                   /\ OriginOk(kind, cookie, origin)
                   /\ Entry(kind, cookie) # "idle"
                THEN Request(kind, Entry(kind, cookie), cookie, genuine, token,
                             cookie \in DOMAIN sessions)
                ELSE Idle]
    BY DEF Arrive
<1>2. UNCHANGED <<users, lastId, sessions, keys, secondary, clock, past>>
    BY DEF Arrive, store, env
<1>3. setupDone' \in BOOLEAN /\ faults' \in Nat
    BY <1>1 DEF Fault, IInv, TypeOK
<1> DEFINE passes == /\ PassesReadonly(kind)
                     /\ PassesWizard(kind, counted)
                     /\ OriginOk(kind, cookie, origin)
                     /\ Entry(kind, cookie) # "idle"
<1>4. PICK z : z = IF passes
                   THEN Request(kind, Entry(kind, cookie), cookie, genuine, token,
                                cookie \in DOMAIN sessions)
                   ELSE Idle
    OBVIOUS
<1>5. reqs' = [reqs EXCEPT ![r] = z]
    BY <1>1, <1>4
<1>6. ASSUME passes PROVE z \in RequestRow /\ Ties(z) /\ Advance(reqs[r], z)
    <2>1. kind \in Kinds
        BY DEF Offered
    <2>2. cookie \in DOMAIN past.begun \cup {None} /\ (kind \in PublicForms => cookie = None)
        BY DEF Cookies
    <2>3. cookie \in SessionIds \cup KeyIds \cup {None}
        BY <2>2 DEF IInv, TypeOK, PastOK
    <2>4. /\ Entry(kind, cookie) \in Phases
          /\ kind \in PublicForms => Entry(kind, cookie) = kind
          /\ kind \notin PublicForms => Entry(kind, cookie) = "find" /\ cookie # None
        BY <1>6, <2>1, Zenon DEF Entry, Phases, PublicForms, Kinds, Safe
    <2>5. PICK phase \in Phases, live \in BOOLEAN :
              phase = Entry(kind, cookie) /\ live = (cookie \in DOMAIN sessions)
        <3>1. (cookie \in DOMAIN sessions) \in BOOLEAN
            OBVIOUS
        <3> QED BY <2>4, <3>1, Zenon
    <2>14. z = Request(kind, phase, cookie, genuine, token, live)
        BY <1>4, <1>6, <2>5
    <2>15. /\ z \in RequestRow /\ z.kind = kind /\ z.phase = phase
           /\ z.cred = cookie /\ z.live = live /\ z.granted = FALSE
           /\ z.guarded = (kind \notin {"post", "logout"})
        <3>1. kind \in Kinds \cup {"config"}
            BY <2>1
        <3> HIDE DEF passes
        <3> QED BY <2>3, <2>14, <3>1 DEF Request, RequestRow
    <2>6. /\ z \in RequestRow /\ z.kind = kind /\ z.phase = Entry(kind, cookie)
          /\ z.cred = cookie /\ z.live = (cookie \in DOMAIN sessions) /\ ~z.granted
          /\ z.guarded = (kind \notin {"post", "logout"})
        BY <2>5, <2>15
    <2>7. secondary => kind \in {"page", "login", "logout"}
        BY <1>6 DEF PassesReadonly, Safe
    <2>8. Shape(z)
        BY <2>1, <2>2, <2>4, <2>6, <2>7 DEF Shape, PublicForms, Kinds, Safe
    <2>9. cookie \notin DOMAIN keys
        BY <2>2 DEF IInv, TypeOK, PastOK, KeysOK
    <2>10. z.phase \in {"login", "setup", "find"}
        BY <2>4, <2>6 DEF PublicForms
    <2>11. Since(z)
        BY <2>6, <2>9, <2>10 DEF Since
    <2>12. Tokened(z)
        BY <2>6, <2>7, <2>10 DEF Tokened
    <2>13. Verified(z) /\ Timely(z)
        BY <2>10 DEF Verified, Timely
    <2>16. reqs[r] = Idle
        BY DEF Arrive
    <2>17. Advance(reqs[r], z)
        BY <2>3, <2>6, <2>9, <2>16 DEF Advance
    <2> QED BY <2>6, <2>8, <2>11, <2>12, <2>13, <2>17 DEF Ties
<1>7. z = Idle \/ (z \in RequestRow /\ Ties(z)')
    <2>1. ASSUME passes PROVE Ties(z)'
        <3>1. z \in RequestRow /\ Ties(z)
            BY <1>6, <2>1
        <3> QED BY <1>2, <3>1 DEF Ties, Shape, Since, Tokened, Verified, Timely
    <2> QED BY <1>4, <1>6, <2>1
<1>8. Advance(reqs[r], z)
    BY <1>4, <1>6 DEF Advance
<1> QED BY <1>2, <1>3, <1>5, <1>7, <1>8, RequestOnly

-----------------------------------------------------------------------------
(* The tables, session by session.                                         *)

Due(s) ==
    Least(past.begun[s].used + IDLE_SECS, past.begun[s].born + ABSOLUTE_SECS)
        - RENEW_THRESHOLD_SECS

\* ActiveSessionSurvives, of session s.
Survives(s) ==
    clock < Due(s) /\ ~past.begun[s].owed =>
        s \in DOMAIN sessions /\ sessions[s].expires >= Due(s)

\* SessionRowsAreBegun and SessionIsItsOwners, of session s.
RowOf(s) ==
    /\ past.begun[s].used <= clock
    /\ s \in DOMAIN sessions =>
          /\ sessions[s].created = past.begun[s].born
          /\ sessions[s].expires <= past.begun[s].used + IDLE_SECS
          /\ past.begun[s].name \in DOMAIN users
          /\ users[past.begun[s].name] = sessions[s].user

LEMMA SessionOf ==
    ASSUME IInv, NEW s \in DOMAIN past.begun
    PROVE  RowOf(s) /\ Survives(s) /\ past.begun[s] \in BegunRow
<1>1. past.begun[s] \in BegunRow
    BY DEF IInv, TypeOK, PastOK
<1>2. RowOf(s)
    BY DEF IInv, SessionRowsAreBegun, SessionIsItsOwners, RowOf
<1>3. Survives(s)
    BY DEF IInv, ActiveSessionSurvives, Survives, Due
<1> QED BY <1>1, <1>2, <1>3

LEMMA SessionsNext ==
    ASSUME UserIds', WizardOnce', DOMAIN sessions' \subseteq DOMAIN past'.begun,
           \A s \in DOMAIN past'.begun : RowOf(s)' /\ Survives(s)'
    PROVE  Tables'
<1>1. SessionRowsAreBegun' /\ SessionIsItsOwners'
    BY DEF SessionRowsAreBegun, SessionIsItsOwners, RowOf
<1>2. ActiveSessionSurvives'
    BY DEF ActiveSessionSurvives, Survives, Due
<1> QED BY <1>1, <1>2 DEF Tables

\* A session that a step leaves alone.
LEMMA SessionKept ==
    ASSUME IInv, NEW s \in DOMAIN past.begun, clock' = clock,
           past'.begun[s] = past.begun[s], s \in DOMAIN sessions' <=> s \in DOMAIN sessions,
           s \in DOMAIN sessions =>
               /\ sessions'[s] = sessions[s]
               /\ past.begun[s].name \in DOMAIN users'
               /\ users'[past.begun[s].name] = users[past.begun[s].name]
    PROVE  RowOf(s)' /\ Survives(s)'
<1>1. RowOf(s) /\ Survives(s)
    BY SessionOf
<1>2. RowOf(s)'
    BY <1>1 DEF RowOf
<1>3. Survives(s)'
    BY <1>1 DEF Survives, Due
<1> QED BY <1>2, <1>3

\* A session that is gone: ended, or past its time.
LEMMA SessionGone ==
    ASSUME IInv, NEW s \in DOMAIN past.begun, clock' = clock, s \notin DOMAIN sessions',
           past'.begun[s].used <= clock,
           \/ past'.begun[s].owed
           \/ /\ past'.begun[s] = past.begun[s]
              /\ s \in DOMAIN sessions => sessions[s].expires <= clock
    PROVE  RowOf(s)' /\ Survives(s)'
<1>1. RowOf(s)'
    BY DEF RowOf
<1>2. CASE past'.begun[s].owed
    BY <1>1, <1>2 DEF Survives
<1>3. CASE /\ past'.begun[s] = past.begun[s]
           /\ s \in DOMAIN sessions => sessions[s].expires <= clock
    <2> SUFFICES ASSUME clock < Due(s), ~past.begun[s].owed PROVE FALSE
        BY <1>1, <1>3 DEF Survives, Due
    <2>1. s \in DOMAIN sessions /\ sessions[s].expires >= Due(s)
        BY SessionOf DEF Survives
    <2>2. Due(s) \in Int
        <3>1. past.begun[s].used \in Int /\ past.begun[s].born \in Int
            BY SessionOf DEF BegunRow
        <3> QED BY <3>1 DEF Due, Least
    <2>3. sessions[s].expires \in Nat /\ clock \in Nat
        BY <2>1 DEF IInv, TypeOK, SessionsOK, SessionRows
    <2> QED BY <1>3, <2>1, <2>2, <2>3
<1> QED BY <1>2, <1>3

-----------------------------------------------------------------------------
(* current_user.                                                           *)

\* A lookup that finds a good session: its history says so.
Looked(s, c, due) == [past EXCEPT !.begun[s].used = c, !.begun[s].owed = due]

LEMMA LookedFacts ==
    ASSUME PastOK, NEW s \in DOMAIN past.begun, NEW c \in Nat, NEW due \in BOOLEAN,
           past' = Looked(s, c, due)
    PROVE  /\ PastOK' /\ past'.wizard = past.wizard
           /\ DOMAIN past'.begun = DOMAIN past.begun
           /\ past'.begun[s].used = c /\ past'.begun[s].owed = due
           /\ past'.begun[s].born = past.begun[s].born
           /\ past'.begun[s].name = past.begun[s].name
           /\ \A x \in DOMAIN past.begun : x # s => past'.begun[x] = past.begun[x]
<1> DEFINE row == [past.begun[s] EXCEPT !.used = c, !.owed = due]
<1>1. past' = [begun |-> [past.begun EXCEPT ![s] = row], wizard |-> past.wizard]
    BY DEF PastOK, Looked
<1>2. past.begun[s] \in BegunRow
    BY DEF PastOK
<1>3. row \in BegunRow
    BY <1>2 DEF BegunRow
<1>4. /\ row.used = c /\ row.owed = due /\ row.born = past.begun[s].born
      /\ row.name = past.begun[s].name
    BY <1>2 DEF BegunRow
<1>5. past'.begun = [past.begun EXCEPT ![s] = row] /\ past'.wizard = past.wizard
    BY DEF PastOK, Looked
<1> HIDE DEF row
<1>6. PastOK'
    BY <1>1, <1>3, <1>5 DEF PastOK
<1>7. /\ DOMAIN past'.begun = DOMAIN past.begun /\ past'.begun[s] = row
      /\ \A x \in DOMAIN past.begun : x # s => past'.begun[x] = past.begun[x]
    BY <1>5 DEF PastOK
<1> QED BY <1>4, <1>5, <1>6, <1>7

\* Users, sessions and keys as they were.
LEMMA RowsKept ==
    ASSUME IInv, UNCHANGED <<users, lastId>>
    PROVE  UsersOK' /\ lastId' \in Nat /\ UserIds'
BY DEF IInv, TypeOK, UsersOK, UserIds

\* A good session's expiry, against what a renewal now would make it.
LEMMA GoodSession ==
    ASSUME IInv, NEW s \in DOMAIN sessions, ~Expired(sessions[s])
    PROVE  /\ NewExpires(sessions[s]) =
                 Least(clock + IDLE_SECS, past.begun[s].born + ABSOLUTE_SECS)
           /\ NewExpires(sessions[s]) \in Nat
           /\ clock < past.begun[s].used + IDLE_SECS
           /\ clock < past.begun[s].born + ABSOLUTE_SECS
<1>1. s \in DOMAIN past.begun
    BY DEF IInv, SessionRowsAreBegun
<1>2. RowOf(s) /\ past.begun[s] \in BegunRow /\ sessions[s] \in SessionRows /\ clock \in Nat
    BY <1>1, SessionOf DEF IInv, TypeOK, SessionsOK
<1>3. /\ sessions[s].created = past.begun[s].born
      /\ sessions[s].expires <= past.begun[s].used + IDLE_SECS
      /\ past.begun[s].born \in Nat /\ past.begun[s].used \in Nat /\ sessions[s].expires \in Nat
    BY <1>2 DEF RowOf, BegunRow, SessionRows
<1>4. clock < sessions[s].expires /\ clock < past.begun[s].born + ABSOLUTE_SECS
    BY <1>2, <1>3 DEF Expired
<1>5. NewExpires(sessions[s]) = Least(clock + IDLE_SECS, past.begun[s].born + ABSOLUTE_SECS)
    BY <1>3 DEF NewExpires
<1>6. NewExpires(sessions[s]) \in Nat
    BY <1>2, <1>3, <1>5 DEF Least
<1> QED BY <1>2, <1>3, <1>4, <1>5, <1>6

\* The tables after a lookup that finds a good session.
LEMMA LookupKeeps ==
    ASSUME IInv, NEW s \in DOMAIN sessions, ~Expired(sessions[s]),
           UNCHANGED <<users, lastId, sessions, keys, secondary, clock>>,
           past' = Looked(s, clock, RenewalDue(sessions[s]))
    PROVE  UsersOK' /\ SessionsOK' /\ KeysOK' /\ PastOK' /\ Tables' /\ Keeps
<1>1. s \in DOMAIN past.begun /\ clock \in Nat /\ PastOK
    BY DEF IInv, SessionRowsAreBegun, TypeOK
<1>2. PICK due \in BOOLEAN : due = RenewalDue(sessions[s])
    <2>1. RenewalDue(sessions[s]) \in BOOLEAN
        BY DEF RenewalDue
    <2> QED BY <2>1, Zenon
<1>3. /\ PastOK' /\ past'.wizard = past.wizard
      /\ DOMAIN past'.begun = DOMAIN past.begun
      /\ past'.begun[s].used = clock /\ past'.begun[s].owed = due
      /\ past'.begun[s].born = past.begun[s].born
      /\ past'.begun[s].name = past.begun[s].name
      /\ \A x \in DOMAIN past.begun : x # s => past'.begun[x] = past.begun[x]
    BY <1>1, <1>2, LookedFacts
<1>4. /\ RowOf(s) /\ sessions[s] \in SessionRows /\ past.begun[s] \in BegunRow
    BY <1>1, SessionOf DEF IInv, TypeOK, SessionsOK
<1>5. past.begun[s].used <= clock /\ past.begun[s].used \in Nat /\ past.begun[s].born \in Nat
    BY <1>4 DEF RowOf, BegunRow
<1>6. ASSUME NEW x \in DOMAIN past.begun PROVE RowOf(x)' /\ Survives(x)'
    <2>1. CASE x # s
        <3>1. past'.begun[x] = past.begun[x]
            BY <1>3, <2>1
        <3>2. x \in DOMAIN sessions => past.begun[x].name \in DOMAIN users'
            BY SessionOf DEF RowOf
        <3> QED BY <3>1, <3>2, SessionKept
    <2>2. CASE x = s
        <3>1. RowOf(s)'
            BY <1>1, <1>3, <1>4, <1>5 DEF RowOf, SessionRows
        <3>2. Due(s)' = NewExpires(sessions[s]) - RENEW_THRESHOLD_SECS
            BY <1>3, GoodSession DEF Due
        <3>3. ASSUME ~due PROVE sessions[s].expires >= Due(s)'
            <4>1. ~(NewExpires(sessions[s]) - sessions[s].expires > RENEW_THRESHOLD_SECS)
                BY <1>2, <3>3 DEF RenewalDue
            <4>2. NewExpires(sessions[s]) \in Nat /\ sessions[s].expires \in Nat
                BY <1>4, GoodSession DEF SessionRows
            <4> QED BY <3>2, <4>1, <4>2
        <3>4. Survives(s)'
            BY <1>3, <3>3 DEF Survives
        <3> QED BY <2>2, <3>1, <3>4
    <2> QED BY <2>1, <2>2
<1>7. UsersOK' /\ SessionsOK' /\ KeysOK' /\ UserIds' /\ WizardOnce'
    BY <1>3 DEF IInv, TypeOK, UsersOK, SessionsOK, KeysOK, UserIds, WizardOnce
<1>8. Tables'
    BY <1>3, <1>6, <1>7, SessionsNext DEF IInv, SessionRowsAreBegun
<1>9. Keeps
    <2>1. ASSUME NEW x \in DOMAIN past.begun
          PROVE  /\ past'.begun[x].born = past.begun[x].born
                 /\ past.begun[x].used <= past'.begun[x].used
                 /\ UsedInside(x)
        <3>1. past.begun[x].used \in Nat
            BY SessionOf DEF BegunRow
        <3>2. clock < Least(past.begun[s].used + IDLE_SECS, past.begun[s].born + ABSOLUTE_SECS)
            BY <1>1, <1>5, GoodSession DEF Least
        <3> QED BY <1>3, <1>5, <3>1, <3>2 DEF UsedInside
    <2> QED BY <1>3, <2>1 DEF Keeps, IInv, TypeOK
<1> QED BY <1>3, <1>7, <1>8, <1>9

\* A tied request stays tied when its tables are the same.
LEMMA TiesSame ==
    ASSUME NEW q, Ties(q),
           UNCHANGED <<users, lastId, sessions, keys, secondary, clock, past>>
    PROVE  Ties(q)'
BY DEF Ties, Shape, Since, Tokened, Verified, Timely

\* The phases of current_user.
LEMMA LookupPhases ==
    {"find", "touch", "delete", "sweep", "login", "insert", "setup", "handler", "key"} \subseteq Phases
BY DEF Phases

\* The request that goes on to delete an expired session.
ToDelete(q, c) == [q EXCEPT !.phase = "delete", !.now = c]

LEMMA DeleteRow ==
    ASSUME NEW q \in RequestRow, NEW c \in Nat,
           NEW z, z = ToDelete(q, c)
    PROVE  /\ SameRequest(q, z) /\ z.phase = "delete" /\ z.now = c
           /\ z.guarded = q.guarded /\ z.granted = q.granted
<1>1. "delete" \in Phases
    BY DEF Phases
<1>2. [q EXCEPT !.phase = "delete", !.now = c] \in RequestRow
    BY <1>1 DEF RequestRow
<1>4. z = [q EXCEPT !.phase = "delete", !.now = c]
    BY DEF ToDelete
<1>3. /\ z.kind = q.kind /\ z.cred = q.cred /\ z.genuine = q.genuine /\ z.token = q.token
      /\ z.name = q.name /\ z.user = q.user /\ z.live = q.live /\ z.faulted = q.faulted
      /\ z.phase = "delete" /\ z.now = c /\ z.guarded = q.guarded /\ z.granted = q.granted
    BY <1>4 DEF RequestRow
<1> QED BY <1>2, <1>3, <1>4 DEF SameRequest

\* The request that goes on to renew its session.
ToTouch(q, c, e) == [q EXCEPT !.phase = "touch", !.now = c, !.expires = e]

LEMMA TouchRow ==
    ASSUME NEW q \in RequestRow, NEW c \in Nat, NEW e \in Nat,
           NEW z, z = ToTouch(q, c, e)
    PROVE  /\ SameRequest(q, z) /\ z.phase = "touch" /\ z.now = c /\ z.expires = e
           /\ z.guarded = q.guarded /\ z.granted = q.granted
<1>1. "touch" \in Phases
    BY DEF Phases
<1>2. [q EXCEPT !.phase = "touch", !.now = c, !.expires = e] \in RequestRow
    BY <1>1 DEF RequestRow
<1>4. z = [q EXCEPT !.phase = "touch", !.now = c, !.expires = e]
    BY DEF ToTouch
<1>3. /\ z.kind = q.kind /\ z.cred = q.cred /\ z.genuine = q.genuine /\ z.token = q.token
      /\ z.name = q.name /\ z.user = q.user /\ z.live = q.live /\ z.faulted = q.faulted
      /\ z.phase = "touch" /\ z.now = c /\ z.expires = e
      /\ z.guarded = q.guarded /\ z.granted = q.granted
    BY <1>4 DEF RequestRow
<1> QED BY <1>2, <1>3, <1>4 DEF SameRequest

\* find, of a session that is not there or whose token is wrong.
LEMMA FindNoneInv ==
    ASSUME IInv, NEW r \in Requests, NEW q, q = reqs[r], q.phase = "find",
           q.cred \in DOMAIN sessions => ~q.genuine,
           reqs' = [reqs EXCEPT ![r] = NoSession(q)],
           UNCHANGED <<users, lastId, sessions, keys, secondary, clock, past, setupDone, faults>>
    PROVE  StepOK
<1>1. q \in RequestRow /\ Ties(q)
    BY UnderWay, LookupPhases
<1>2. PICK z : z = NoSession(q)
    OBVIOUS
<1>3. z # Idle => z \in RequestRow /\ Ties(z) /\ Advance(q, z)
    BY <1>1, <1>2, NoSessionTied
<1>4. z # Idle => Ties(z)'
    BY <1>3, TiesSame
<1>5. setupDone' \in BOOLEAN /\ faults' \in Nat
    BY DEF IInv, TypeOK
<1>6. Advance(reqs[r], z)
    BY <1>3 DEF Advance
<1> QED BY <1>2, <1>3, <1>4, <1>5, <1>6, RequestOnly

\* find, of an expired session.
LEMMA FindExpiredInv ==
    ASSUME IInv, NEW r \in Requests, NEW q, q = reqs[r], q.phase = "find",
           reqs' = [reqs EXCEPT ![r].phase = "delete", ![r].now = clock],
           UNCHANGED <<users, lastId, sessions, keys, secondary, clock, past, setupDone, faults>>
    PROVE  StepOK
<1>1. q \in RequestRow /\ Ties(q) /\ clock \in Nat
    BY UnderWay, LookupPhases DEF IInv, TypeOK
<1>2. PICK z : z = ToDelete(q, clock)
    OBVIOUS
<1>3. reqs' = [reqs EXCEPT ![r] = z]
    BY <1>2 DEF ToDelete, IInv, TypeOK, RequestsOK
<1>4. /\ SameRequest(q, z) /\ z.phase = "delete" /\ z.now = clock
      /\ z.guarded = q.guarded /\ z.granted = q.granted
    BY <1>1, <1>2, DeleteRow
<1>5. Shape(z)
    BY <1>1, <1>4 DEF Ties, Shape, SameRequest, PublicForms
<1>6. Since(z) /\ Tokened(z) /\ Verified(z)
    BY <1>1, <1>4 DEF Ties, Since, Tokened, Verified, SameRequest
<1>7. Timely(z)
    BY <1>1, <1>4 DEF Timely
<1>8. Ties(z)'
    BY <1>5, <1>6, <1>7, TiesSame DEF Ties
<1>9. setupDone' \in BOOLEAN /\ faults' \in Nat
    BY DEF IInv, TypeOK
<1>10. Advance(q, z)
    BY <1>1, <1>4, RowIsNotIdle DEF Advance, SameRequest
<1> QED BY <1>3, <1>4, <1>8, <1>9, <1>10, RequestOnly DEF SameRequest

\* find, of a good session: it is renewed, or the request gets on.
LEMMA FindGoodInv ==
    ASSUME IInv, NEW r \in Requests, NEW q, q = reqs[r], q.phase = "find", NEW s, s = q.cred,
           s \in DOMAIN sessions, ~Expired(sessions[s]), q.genuine,
           IF RenewalDue(sessions[s])
           THEN reqs' = [reqs EXCEPT ![r].phase = "touch", ![r].now = clock,
                                     ![r].expires = NewExpires(sessions[s])]
           ELSE reqs' = [reqs EXCEPT ![r] = Session(q)],
           past' = Looked(s, clock, RenewalDue(sessions[s])),
           UNCHANGED <<users, lastId, sessions, keys, secondary, clock, setupDone, faults>>
    PROVE  StepOK
<1>1. q \in RequestRow /\ Ties(q) /\ clock \in Nat
    BY UnderWay, LookupPhases DEF IInv, TypeOK
<1>2. UsersOK' /\ SessionsOK' /\ KeysOK' /\ PastOK' /\ Tables' /\ Keeps
    BY LookupKeeps
<1>3. q.live /\ (q.kind = "post" /\ q.guarded => q.token \/ q.faulted)
    BY <1>1 DEF Ties, Since, Tokened
<1>4. CASE RenewalDue(sessions[s])
    <2>1. PICK z : z = ToTouch(q, clock, NewExpires(sessions[s]))
        OBVIOUS
    <2>2. reqs' = [reqs EXCEPT ![r] = z]
        BY <1>4, <2>1 DEF ToTouch, IInv, TypeOK, RequestsOK
    <2>3. /\ SameRequest(q, z) /\ z.phase = "touch" /\ z.now = clock
          /\ z.expires = NewExpires(sessions[s]) /\ z.guarded = q.guarded
          /\ z.granted = q.granted
        <3>1. NewExpires(sessions[s]) \in Nat
            BY GoodSession
        <3> QED BY <1>1, <2>1, <3>1, TouchRow
    <2>4. z \in RequestRow /\ z.cred = s
        BY <2>3 DEF SameRequest
    <2>5. RequestsOK'
        BY <2>2, <2>4 DEF IInv, TypeOK, RequestsOK
    <2>6. TypeOK'
        BY <1>2, <2>5 DEF IInv, TypeOK
    <2>7. Ties(q)'
        BY <1>1, <1>2, <2>6, TiesKept DEF IInv
    <2>8. Shape(z)'
        BY <2>3, <2>7 DEF Ties, Shape, SameRequest, PublicForms
    <2>9. Since(z)' /\ Tokened(z)' /\ Verified(z)'
        BY <1>3, <2>3, <2>7 DEF Ties, Since, Tokened, Verified, SameRequest
    <2>10. Timely(z)'
        <3>1. s \in DOMAIN past.begun /\ PastOK
            BY DEF IInv, TypeOK, SessionRowsAreBegun
        <3>2. RenewalDue(sessions[s]) \in BOOLEAN
            BY DEF RenewalDue
        <3>3. past'.begun[s].used = clock /\ past'.begun[s].born = past.begun[s].born
            BY <1>1, <3>1, <3>2, LookedFacts
        <3>4. z.expires = Least(clock + IDLE_SECS, past'.begun[s].born + ABSOLUTE_SECS)
            BY <2>3, <3>3, GoodSession
        <3> QED BY <1>1, <2>3, <2>4, <3>3, <3>4 DEF Timely
    <2>11. Advance(q, z)
        BY <1>1, <2>3, RowIsNotIdle DEF Advance, SameRequest
    <2> QED BY <1>2, <2>2, <2>6, <2>8, <2>9, <2>10, <2>11, OneRequest DEF Ties
<1>5. CASE ~RenewalDue(sessions[s])
    <2>1. PICK z : z = Session(q)
        OBVIOUS
    <2>2. reqs' = [reqs EXCEPT ![r] = z]
        BY <1>5, <2>1
    <2>3. z # Idle => z \in RequestRow /\ Ties(z) /\ Advance(q, z)
        BY <1>1, <1>3, <2>1, SessionTied
    <2>4. RequestsOK'
        BY <2>2, <2>3 DEF IInv, TypeOK, RequestsOK
    <2>5. TypeOK'
        BY <1>2, <2>4 DEF IInv, TypeOK
    <2>6. z # Idle => Ties(z)'
        BY <1>2, <2>3, <2>5, TiesKept DEF IInv
    <2>7. Advance(q, z)
        BY <2>3 DEF Advance
    <2> QED BY <1>2, <2>2, <2>5, <2>6, <2>7, OneRequest
<1> QED BY <1>4, <1>5

LEMMA FindInv == ASSUME IInv, NEW r \in Requests, Find(r) PROVE StepOK
<1>1. UNCHANGED <<users, lastId, sessions, keys, secondary, clock, setupDone, faults>>
    BY DEF Find, store, env
<1>2. PICK q : q = reqs[r]
    OBVIOUS
<1> DEFINE s == q.cred
<1>3. q.phase = "find"
    BY <1>2 DEF Find
<1>4. CASE /\ s \in DOMAIN sessions => ~Expired(sessions[s]) /\ ~q.genuine
           /\ reqs' = [reqs EXCEPT ![r] = NoSession(q)]
           /\ UNCHANGED past
    BY <1>1, <1>2, <1>3, <1>4, FindNoneInv
<1>5. CASE /\ reqs' = [reqs EXCEPT ![r].phase = "delete", ![r].now = clock]
           /\ UNCHANGED past
    BY <1>1, <1>2, <1>3, <1>5, FindExpiredInv
<1>6. CASE /\ s \in DOMAIN sessions /\ ~Expired(sessions[s]) /\ q.genuine
           /\ IF RenewalDue(sessions[s])
              THEN reqs' = [reqs EXCEPT ![r].phase = "touch", ![r].now = clock,
                                        ![r].expires = NewExpires(sessions[s])]
              ELSE reqs' = [reqs EXCEPT ![r] = Session(q)]
           /\ past' = Looked(s, clock, RenewalDue(sessions[s]))
    BY <1>1, <1>2, <1>3, <1>6, FindGoodInv
<1> QED BY <1>2, <1>4, <1>5, <1>6, Zenon DEF Find, Looked

LEMMA FindFailsInv == ASSUME IInv, NEW r \in Requests, FindFails(r) PROVE StepOK
<1>1. UNCHANGED <<users, lastId, sessions, keys, secondary, clock, setupDone, past>>
    BY DEF FindFails, store, env
<1>2. setupDone' \in BOOLEAN /\ faults' \in Nat
    BY <1>1 DEF FindFails, Fault, IInv, TypeOK
<1>3. reqs[r] \in RequestRow /\ Ties(reqs[r]) /\ reqs[r].phase = "find"
    BY UnderWay, LookupPhases DEF FindFails
<1>4. PICK q : q = [reqs[r] EXCEPT !.faulted = TRUE]
    OBVIOUS
<1>5. [reqs[r] EXCEPT !.faulted = TRUE] \in RequestRow
    BY <1>3 DEF RequestRow
<1>6. /\ q.kind = reqs[r].kind /\ q.cred = reqs[r].cred /\ q.genuine = reqs[r].genuine
      /\ q.token = reqs[r].token /\ q.live = reqs[r].live /\ q.faulted /\ q.phase = "find"
      /\ q.guarded = reqs[r].guarded /\ q.granted = reqs[r].granted
    BY <1>3, <1>4 DEF RequestRow
<1>7. Shape(q)
    BY <1>3, <1>6 DEF Ties, Shape
<1>8. Since(q) /\ Tokened(q) /\ Verified(q) /\ Timely(q)
    BY <1>3, <1>6 DEF Ties, Since, Tokened, Verified, Timely
<1>9. PICK z : z = NoSession(q)
    OBVIOUS
<1>10. z # Idle => z \in RequestRow /\ Ties(z)
    BY <1>4, <1>5, <1>6, <1>7, <1>8, <1>9, NoSessionTied DEF Ties
<1>13. Advance(reqs[r], z)
    <2>1. reqs[r] # Idle
        BY <1>3, RowIsNotIdle
    <2>2. z = Idle \/ (SameRequest(q, z) /\ z.granted = q.granted)
        BY <1>4, <1>5, <1>9, NoSessionFacts
    <2> QED BY <1>6, <2>1, <2>2 DEF Advance, SameRequest
<1>11. z # Idle => Ties(z)'
    BY <1>1, <1>10, TiesSame
<1>12. reqs' = [reqs EXCEPT ![r] = z]
    BY <1>4, <1>9 DEF FindFails
<1> QED BY <1>1, <1>2, <1>10, <1>11, <1>12, <1>13, RequestOnly

\* The renewal that was owed is made.
Paid(s) == [past EXCEPT !.begun[s].owed = FALSE]

LEMMA PaidFacts ==
    ASSUME PastOK, NEW s \in DOMAIN past.begun, past' = Paid(s)
    PROVE  /\ PastOK' /\ past'.wizard = past.wizard
           /\ DOMAIN past'.begun = DOMAIN past.begun
           /\ past'.begun[s].used = past.begun[s].used
           /\ past'.begun[s].born = past.begun[s].born
           /\ past'.begun[s].name = past.begun[s].name
           /\ \A x \in DOMAIN past.begun : x # s => past'.begun[x] = past.begun[x]
<1> DEFINE row == [past.begun[s] EXCEPT !.owed = FALSE]
<1>1. past' = [begun |-> [past.begun EXCEPT ![s] = row], wizard |-> past.wizard]
    BY DEF PastOK, Paid
<1>2. past.begun[s] \in BegunRow
    BY DEF PastOK
<1>3. row \in BegunRow
    BY <1>2 DEF BegunRow
<1>4. /\ row.used = past.begun[s].used /\ row.born = past.begun[s].born
      /\ row.name = past.begun[s].name
    BY <1>2 DEF BegunRow
<1>5. past'.begun = [past.begun EXCEPT ![s] = row] /\ past'.wizard = past.wizard
    BY DEF PastOK, Paid
<1> HIDE DEF row
<1>6. PastOK'
    BY <1>1, <1>3, <1>5 DEF PastOK
<1>7. /\ DOMAIN past'.begun = DOMAIN past.begun /\ past'.begun[s] = row
      /\ \A x \in DOMAIN past.begun : x # s => past'.begun[x] = past.begun[x]
    BY <1>5 DEF PastOK
<1> QED BY <1>4, <1>5, <1>6, <1>7

\* The renewal changes when a session expires, and nothing else.
LEMMA TouchedFacts ==
    ASSUME SessionsOK, NEW s, NEW e \in Nat, sessions' = Touched(s, e)
    PROVE  /\ SessionsOK' /\ DOMAIN sessions' = DOMAIN sessions
           /\ s \in DOMAIN sessions =>
                 /\ sessions'[s].expires = e
                 /\ sessions'[s].created = sessions[s].created
                 /\ sessions'[s].user = sessions[s].user
           /\ \A x \in DOMAIN sessions : x # s => sessions'[x] = sessions[x]
<1>1. CASE s \in DOMAIN sessions
    <2> DEFINE row == [sessions[s] EXCEPT !.expires = e]
    <2>1. sessions' = [sessions EXCEPT ![s] = row]
        BY <1>1 DEF Touched, SessionsOK
    <2>2. sessions[s] \in SessionRows
        BY <1>1 DEF SessionsOK
    <2>3. row \in SessionRows
        BY <2>2 DEF SessionRows
    <2>4. row.expires = e /\ row.created = sessions[s].created /\ row.user = sessions[s].user
        BY <2>2 DEF SessionRows
    <2> HIDE DEF row
    <2> QED BY <1>1, <2>1, <2>3, <2>4 DEF SessionsOK
<1>2. CASE s \notin DOMAIN sessions
    BY <1>2 DEF Touched, SessionsOK
<1> QED BY <1>1, <1>2

\* The tables after a renewal, late or early among those of the same session.
LEMMA TouchKeeps ==
    ASSUME IInv, NEW r \in Requests, NEW q, q = reqs[r], q.phase = "touch",
           UNCHANGED <<users, lastId, keys, secondary, clock>>,
           sessions' = Touched(q.cred, q.expires),
           past' = IF q.cred \in DOMAIN sessions /\ past.begun[q.cred].used = q.now
                   THEN Paid(q.cred) ELSE past
    PROVE  UsersOK' /\ SessionsOK' /\ KeysOK' /\ PastOK' /\ Tables' /\ Keeps
<1> DEFINE s == q.cred
<1>1. q \in RequestRow /\ Ties(q) /\ clock \in Nat /\ PastOK /\ SessionsOK
    BY UnderWay, LookupPhases DEF IInv, TypeOK
<1>2. s \in DOMAIN past.begun /\ q.now \in Nat /\ q.expires \in Nat
    BY <1>1 DEF Ties, Shape, RequestRow, PublicForms
<1>3. /\ SessionsOK' /\ DOMAIN sessions' = DOMAIN sessions
      /\ s \in DOMAIN sessions =>
            /\ sessions'[s].expires = q.expires
            /\ sessions'[s].created = sessions[s].created
            /\ sessions'[s].user = sessions[s].user
      /\ \A x \in DOMAIN sessions : x # s => sessions'[x] = sessions[x]
    BY <1>1, <1>2, TouchedFacts
<1>4. /\ PastOK' /\ past'.wizard = past.wizard
      /\ DOMAIN past'.begun = DOMAIN past.begun
      /\ past'.begun[s].used = past.begun[s].used
      /\ past'.begun[s].born = past.begun[s].born
      /\ past'.begun[s].name = past.begun[s].name
      /\ \A x \in DOMAIN past.begun : x # s => past'.begun[x] = past.begun[x]
    <2>1. CASE past' = Paid(s)
        BY <1>1, <1>2, <2>1, PaidFacts
    <2>2. CASE past' = past
        BY <1>1, <2>2 DEF PastOK
    <2> QED BY <2>1, <2>2
<1>5. s \notin DOMAIN sessions => past' = past
    OBVIOUS
<1>6. ASSUME NEW x \in DOMAIN past.begun PROVE RowOf(x)' /\ Survives(x)'
    <2>1. CASE x # s \/ s \notin DOMAIN sessions
        <3>1. past'.begun[x] = past.begun[x]
            BY <1>4, <1>5, <2>1
        <3>2. x \in DOMAIN sessions => sessions'[x] = sessions[x]
            BY <1>3, <2>1
        <3>3. x \in DOMAIN sessions => past.begun[x].name \in DOMAIN users'
            BY SessionOf DEF RowOf
        <3> QED BY <1>3, <3>1, <3>2, <3>3, SessionKept
    <2>2. CASE x = s /\ s \in DOMAIN sessions
        <3>1. RowOf(s) /\ past.begun[s] \in BegunRow
            BY <1>2, SessionOf
        <3>2. past.begun[s].used \in Nat /\ past.begun[s].born \in Nat
            BY <3>1 DEF BegunRow
        <3>3. /\ q.now <= clock /\ clock - q.now <= Lag
              /\ q.expires = Least(q.now + IDLE_SECS, past.begun[s].born + ABSOLUTE_SECS)
              /\ q.now <= past.begun[s].used /\ past.begun[s].used <= clock
            BY <1>1, <2>2, <3>1 DEF Ties, Timely, RowOf
        <3>4. q.expires <= past.begun[s].used + IDLE_SECS
            BY <1>2, <3>2, <3>3 DEF Least
        <3>5. RowOf(s)'
            BY <1>3, <1>4, <2>2, <3>1, <3>3, <3>4 DEF RowOf
        <3>6. q.expires >= Due(s)
            BY <1>1, <1>2, <3>2, <3>3 DEF Due, Least
        <3>7. Due(s)' = Due(s)
            BY <1>4 DEF Due
        <3>8. Survives(s)'
            BY <1>3, <2>2, <3>6, <3>7 DEF Survives
        <3> QED BY <2>2, <3>5, <3>8
    <2> QED BY <2>1, <2>2
<1>7. UsersOK' /\ KeysOK' /\ UserIds' /\ WizardOnce'
    BY <1>4 DEF IInv, TypeOK, UsersOK, KeysOK, UserIds, WizardOnce
<1>8. Tables'
    BY <1>3, <1>4, <1>6, <1>7, SessionsNext DEF IInv, SessionRowsAreBegun
<1>9. Keeps
    <2>1. ASSUME NEW x \in DOMAIN past.begun
          PROVE  /\ past'.begun[x].born = past.begun[x].born
                 /\ past.begun[x].used <= past'.begun[x].used
                 /\ UsedInside(x)
        <3>1. past.begun[x].used \in Nat
            BY SessionOf DEF BegunRow
        <3> QED BY <1>4, <3>1 DEF UsedInside
    <2>2. DOMAIN sessions' = DOMAIN sessions /\ DOMAIN past'.begun = DOMAIN past.begun
        BY <1>3, <1>4
    <2> QED BY <2>1, <2>2 DEF Keeps, IInv, TypeOK
<1> QED BY <1>3, <1>4, <1>7, <1>8, <1>9

LEMMA TouchInv == ASSUME IInv, NEW r \in Requests, Touch(r) PROVE StepOK
<1>1. PICK q : q = reqs[r]
    OBVIOUS
<1>2. /\ UNCHANGED <<users, lastId, keys, secondary, clock, setupDone>>
      /\ q.phase = "touch"
      /\ reqs' = [reqs EXCEPT ![r] = Session(q)]
    BY <1>1 DEF Touch, env
<1>3. q \in RequestRow /\ Ties(q)
    BY <1>1, <1>2, UnderWay, LookupPhases
<1>4. PICK z : z = Session(q)
    OBVIOUS
<1>5. z # Idle => z \in RequestRow /\ Ties(z) /\ Advance(q, z)
    BY <1>2, <1>3, <1>4, SessionTied DEF Ties, Since, Tokened
<1>8. Advance(reqs[r], z)
    BY <1>1, <1>5 DEF Advance
<1>6. CASE /\ sessions' = Touched(q.cred, q.expires)
           /\ past' = IF q.cred \in DOMAIN sessions /\ past.begun[q.cred].used = q.now
                      THEN Paid(q.cred) ELSE past
           /\ UNCHANGED faults
    <2>1. UsersOK' /\ SessionsOK' /\ KeysOK' /\ PastOK' /\ Tables' /\ Keeps
        BY <1>1, <1>2, <1>6, TouchKeeps
    <2>2. RequestsOK'
        BY <1>2, <1>4, <1>5 DEF IInv, TypeOK, RequestsOK
    <2>3. TypeOK'
        BY <1>2, <1>6, <2>1, <2>2 DEF IInv, TypeOK
    <2>4. z # Idle => Ties(z)'
        BY <1>5, <2>1, <2>3, TiesKept DEF IInv
    <2> QED BY <1>2, <1>4, <1>8, <2>1, <2>3, <2>4, OneRequest
<1>7. CASE Fault /\ UNCHANGED <<sessions, past>>
    <2>1. z # Idle => Ties(z)'
        BY <1>2, <1>5, <1>7, TiesSame
    <2>2. setupDone' \in BOOLEAN /\ faults' \in Nat
        BY <1>2, <1>7 DEF Fault, IInv, TypeOK
    <2> QED BY <1>2, <1>4, <1>5, <1>7, <1>8, <2>1, <2>2, RequestOnly
<1> QED BY <1>1, <1>6, <1>7 DEF Touch, Paid

\* The request that goes on to sweep.
ToSweep(q) == [q EXCEPT !.phase = "sweep"]
ToSweepFaulted(q) == [q EXCEPT !.phase = "sweep", !.faulted = TRUE]

LEMMA SweepRow ==
    ASSUME NEW q \in RequestRow, NEW z, z = ToSweep(q) \/ z = ToSweepFaulted(q)
    PROVE  /\ z \in RequestRow /\ z.phase = "sweep" /\ z.now = q.now
           /\ z.kind = q.kind /\ z.cred = q.cred /\ z.genuine = q.genuine /\ z.token = q.token
           /\ z.live = q.live /\ z.guarded = q.guarded /\ z.granted = q.granted
           /\ z = ToSweep(q) => z.faulted = q.faulted
           /\ z = ToSweepFaulted(q) => z.faulted = TRUE
<1>1. "sweep" \in Phases
    BY DEF Phases
<1>2. CASE z = ToSweep(q)
    <2>1. z = [q EXCEPT !.phase = "sweep"]
        BY <1>2 DEF ToSweep
    <2>2. [q EXCEPT !.phase = "sweep"] \in RequestRow
        BY <1>1 DEF RequestRow
    <2>3. /\ z.phase = "sweep" /\ z.now = q.now
          /\ z.kind = q.kind /\ z.cred = q.cred /\ z.genuine = q.genuine /\ z.token = q.token
          /\ z.live = q.live /\ z.guarded = q.guarded /\ z.granted = q.granted
          /\ z.faulted = q.faulted
        BY <2>1 DEF RequestRow
    <2>4. z = ToSweepFaulted(q) => z.faulted = TRUE
        BY DEF ToSweepFaulted, RequestRow
    <2> QED BY <2>1, <2>2, <2>3, <2>4
<1>3. CASE z = ToSweepFaulted(q)
    <2>1. z = [q EXCEPT !.phase = "sweep", !.faulted = TRUE]
        BY <1>3 DEF ToSweepFaulted
    <2>2. [q EXCEPT !.phase = "sweep", !.faulted = TRUE] \in RequestRow
        BY <1>1 DEF RequestRow
    <2>3. /\ z.phase = "sweep" /\ z.now = q.now
          /\ z.kind = q.kind /\ z.cred = q.cred /\ z.genuine = q.genuine /\ z.token = q.token
          /\ z.live = q.live /\ z.guarded = q.guarded /\ z.granted = q.granted
          /\ z.faulted = TRUE
        BY <2>1 DEF RequestRow
    <2>4. z = ToSweep(q) => z.faulted = q.faulted
        BY DEF ToSweep, RequestRow
    <2> QED BY <2>1, <2>2, <2>3, <2>4
<1> QED BY <1>2, <1>3

\* The tables after sessions are dropped that are past their time or are marked ended.
LEMMA DropSessions ==
    ASSUME IInv, NEW gone, sessions' = Without(sessions, gone),
           UNCHANGED <<lastId, keys, secondary, clock>>,
           \/ past' = [past EXCEPT !.begun = Ended(gone)]
           \/ past' = past /\ \A s \in DOMAIN sessions \cap gone : sessions[s].expires <= clock,
           UsersOK', users' = users \/ secondary,
           \A n \in DOMAIN users' : n \in DOMAIN users /\ users'[n] = users[n],
           \A s \in DOMAIN sessions \ gone : past.begun[s].name \in DOMAIN users'
    PROVE  SessionsOK' /\ KeysOK' /\ PastOK' /\ Tables' /\ Keeps
<1>1. PastOK /\ SessionsOK /\ clock \in Nat
    BY DEF IInv, TypeOK
<1>2. /\ DOMAIN sessions' = DOMAIN sessions \ gone
      /\ sessions' \in [DOMAIN sessions' -> SessionRows]
      /\ \A s \in DOMAIN sessions \ gone : sessions'[s] = sessions[s]
    BY <1>1 DEF SessionsOK, Without
<1>3. SessionsOK'
    BY <1>1, <1>2 DEF SessionsOK
<1>4. /\ PastOK' /\ past'.wizard = past.wizard /\ DOMAIN past'.begun = DOMAIN past.begun
      /\ \A s \in DOMAIN past.begun :
            /\ past'.begun[s].born = past.begun[s].born
            /\ \/ s \in gone /\ past'.begun[s].used = 0 /\ past'.begun[s].owed
               \/ s \in gone /\ past'.begun[s] = past.begun[s]
                    /\ (s \in DOMAIN sessions => sessions[s].expires <= clock)
               \/ s \notin gone /\ past'.begun[s] = past.begun[s]
    <2>1. CASE past' = [past EXCEPT !.begun = Ended(gone)]
        <3>1. PICK b : b = Ended(gone)
            OBVIOUS
        <3>2. /\ past' = [begun |-> past'.begun, wizard |-> past'.wizard]
              /\ past'.begun = b /\ past'.wizard = past.wizard
            BY <1>1, <2>1, <3>1, PastUpdate
        <3>3. /\ DOMAIN b = DOMAIN past.begun
              /\ b \in [DOMAIN b -> BegunRow]
              /\ \A s \in DOMAIN past.begun :
                    /\ b[s].born = past.begun[s].born
                    /\ s \in gone => b[s].used = 0 /\ b[s].owed
                    /\ s \notin gone => b[s] = past.begun[s]
            BY <1>1, <3>1, EndedFacts
        <3>4. PastOK'
            BY <1>1, <3>2, <3>3 DEF PastOK
        <3> QED BY <3>2, <3>3, <3>4
    <2>2. CASE past' = past /\ \A s \in DOMAIN sessions \cap gone : sessions[s].expires <= clock
        BY <1>1, <2>2 DEF PastOK
    <2> QED BY <2>1, <2>2
<1>5. ASSUME NEW s \in DOMAIN past.begun PROVE RowOf(s)' /\ Survives(s)'
    <2>0. past.begun[s].used <= clock
        BY SessionOf DEF RowOf
    <2>1. CASE s \in gone
        <3>1. s \notin DOMAIN sessions' /\ past'.begun[s].used <= clock
            BY <1>1, <1>2, <1>4, <2>0, <2>1
        <3> QED BY <1>4, <2>1, <3>1, SessionGone
    <2>2. CASE s \notin gone
        <3>1. s \in DOMAIN sessions =>
                  /\ past.begun[s].name \in DOMAIN users'
                  /\ users'[past.begun[s].name] = users[past.begun[s].name]
            BY <2>2
        <3>2. past'.begun[s] = past.begun[s]
            BY <1>4, <2>2
        <3>3. s \in DOMAIN sessions' <=> s \in DOMAIN sessions
            BY <1>2, <2>2
        <3>4. s \in DOMAIN sessions => sessions'[s] = sessions[s]
            BY <1>2, <2>2
        <3> QED BY <3>1, <3>2, <3>3, <3>4, SessionKept
    <2> QED BY <2>1, <2>2
<1>6. KeysOK' /\ UserIds' /\ WizardOnce'
    BY <1>4 DEF IInv, TypeOK, KeysOK, UserIds, WizardOnce
<1>7. Tables'
    BY <1>2, <1>4, <1>5, <1>6, SessionsNext DEF IInv, SessionRowsAreBegun
<1>8. Keeps
    <2>1. ASSUME NEW s \in DOMAIN past.begun, s \in DOMAIN sessions'
          PROVE  s \in DOMAIN sessions /\ past.begun[s].used <= past'.begun[s].used
        <3>1. past.begun[s].used \in Nat
            BY SessionOf DEF BegunRow
        <3> QED BY <1>2, <1>4, <2>1, <3>1
    <2>2. DOMAIN past'.begun = DOMAIN past.begun
          /\ \A s \in DOMAIN past.begun : past'.begun[s].born = past.begun[s].born
        BY <1>4
    <2>3. ASSUME NEW s \in DOMAIN past.begun PROVE UsedInside(s)
        <3>1. past.begun[s].used \in Nat /\ past.begun[s].born \in Nat
            BY SessionOf DEF BegunRow
        <3>2. past'.begun[s].used = 0 \/ past'.begun[s] = past.begun[s]
            BY <1>4
        <3>3. 0 < Least(past.begun[s].used + IDLE_SECS, past.begun[s].born + ABSOLUTE_SECS)
            BY <3>1 DEF Least
        <3> QED BY <3>2, <3>3 DEF UsedInside
    <2> QED BY <2>1, <2>2, <2>3 DEF Keeps, IInv, TypeOK
<1> QED BY <1>3, <1>4, <1>6, <1>7, <1>8

LEMMA DropKeeps ==
    ASSUME IInv, NEW gone, sessions' = Without(sessions, gone),
           UNCHANGED <<users, lastId, keys, secondary, clock>>,
           \/ past' = [past EXCEPT !.begun = Ended(gone)]
           \/ past' = past /\ \A s \in DOMAIN sessions \cap gone : sessions[s].expires <= clock
    PROVE  UsersOK' /\ SessionsOK' /\ KeysOK' /\ PastOK' /\ Tables' /\ Keeps
<1>1. UsersOK'
    BY DEF IInv, TypeOK, UsersOK
<1>2. \A s \in DOMAIN sessions \ gone : past.begun[s].name \in DOMAIN users'
    BY DEF IInv, SessionIsItsOwners
<1> QED BY <1>1, <1>2, DropSessions

LEMMA DeleteInv == ASSUME IInv, NEW r \in Requests, Delete(r) PROVE StepOK
<1>1. PICK q : q = reqs[r]
    OBVIOUS
<1>2. /\ UNCHANGED <<users, lastId, keys, secondary, clock, setupDone>>
      /\ q.phase = "delete"
    BY <1>1 DEF Delete, env
<1>3. q \in RequestRow /\ Ties(q)
    BY <1>1, <1>2, UnderWay, LookupPhases
<1>4. ASSUME NEW z, z = ToSweep(q) \/ z = ToSweepFaulted(q),
             z.faulted \/ q.cred \notin DOMAIN sessions',
             TypeOK', Keeps
      PROVE  Ties(z)' /\ Advance(reqs[r], z)
    <2>1. /\ z \in RequestRow /\ z.phase = "sweep" /\ z.now = q.now
          /\ z.kind = q.kind /\ z.cred = q.cred /\ z.genuine = q.genuine /\ z.token = q.token
          /\ z.live = q.live /\ z.guarded = q.guarded /\ (q.faulted => z.faulted)
          /\ z.granted = q.granted
        BY <1>3, <1>4, SweepRow
    <2>2. Ties(q)'
        BY <1>3, <1>4, TiesKept DEF IInv
    <2>3. Shape(z)'
        BY <1>2, <2>1, <2>2 DEF Ties, Shape, PublicForms
    <2>4. Since(z)' /\ Verified(z)'
        BY <2>1, <2>2 DEF Ties, Since, Verified
    <2>5. Tokened(z)'
        BY <1>4, <2>1, <2>2 DEF Ties, Tokened
    <2>6. Timely(z)'
        BY <1>2, <2>1, <2>2 DEF Ties, Timely
    <2>7. Advance(reqs[r], z)
        BY <1>1, <1>3, <2>1, RowIsNotIdle DEF Advance
    <2> QED BY <2>3, <2>4, <2>5, <2>6, <2>7 DEF Ties
<1>5. CASE /\ sessions' = Without(sessions, {q.cred})
           /\ past' = IF q.cred \in DOMAIN sessions /\ sessions[q.cred].expires > q.now
                      THEN [past EXCEPT !.begun = Ended({q.cred})] ELSE past
           /\ reqs' = [reqs EXCEPT ![r].phase = "sweep"]
           /\ UNCHANGED faults
    <2>1. \/ past' = [past EXCEPT !.begun = Ended({q.cred})]
          \/ /\ past' = past
             /\ \A s \in DOMAIN sessions \cap {q.cred} : sessions[s].expires <= clock
        <3>1. q.now \in Nat /\ q.now <= clock /\ clock \in Nat
            BY <1>2, <1>3 DEF RequestRow, Ties, Timely, IInv, TypeOK
        <3>2. \A s \in DOMAIN sessions : sessions[s].expires \in Nat
            BY DEF IInv, TypeOK, SessionsOK, SessionRows
        <3> QED BY <1>5, <3>1, <3>2
    <2>2. UsersOK' /\ SessionsOK' /\ KeysOK' /\ PastOK' /\ Tables' /\ Keeps
        BY <1>2, <1>5, <2>1, DropKeeps
    <2>3. PICK z : z = ToSweep(q)
        OBVIOUS
    <2>4. reqs' = [reqs EXCEPT ![r] = z]
        BY <1>1, <1>5, <2>3 DEF ToSweep, IInv, TypeOK, RequestsOK
    <2>5. z \in RequestRow
        BY <1>3, <2>3, SweepRow
    <2>6. RequestsOK'
        BY <2>4, <2>5 DEF IInv, TypeOK, RequestsOK
    <2>7. TypeOK'
        BY <1>2, <1>5, <2>2, <2>6 DEF IInv, TypeOK
    <2>8. q.cred \notin DOMAIN sessions'
        BY <1>5 DEF Without
    <2>9. Ties(z)' /\ Advance(reqs[r], z)
        BY <1>4, <2>2, <2>3, <2>7, <2>8
    <2> QED BY <2>2, <2>4, <2>7, <2>9, OneRequest
<1>6. CASE /\ Fault
           /\ reqs' = [reqs EXCEPT ![r].phase = "sweep", ![r].faulted = TRUE]
           /\ UNCHANGED <<sessions, past>>
    <2>1. /\ UsersOK' /\ SessionsOK' /\ KeysOK' /\ PastOK' /\ Tables' /\ Keeps
        BY <1>2, <1>6, SameTables
    <2>2. PICK z : z = ToSweepFaulted(q)
        OBVIOUS
    <2>3. reqs' = [reqs EXCEPT ![r] = z]
        BY <1>1, <1>6, <2>2 DEF ToSweepFaulted, IInv, TypeOK, RequestsOK
    <2>4. z \in RequestRow /\ z.faulted = TRUE
        BY <1>3, <2>2, SweepRow
    <2>5. RequestsOK'
        BY <2>3, <2>4 DEF IInv, TypeOK, RequestsOK
    <2>6. faults' \in Nat
        BY <1>6 DEF Fault, IInv, TypeOK
    <2>7. TypeOK'
        BY <1>2, <2>1, <2>5, <2>6 DEF IInv, TypeOK
    <2>8. Ties(z)' /\ Advance(reqs[r], z)
        BY <1>4, <2>1, <2>2, <2>4, <2>7
    <2> QED BY <2>1, <2>3, <2>7, <2>8, OneRequest
<1> QED BY <1>1, <1>5, <1>6 DEF Delete

LEMMA DeleteExpiredInv == ASSUME IInv, NEW r \in Requests, DeleteExpired(r) PROVE StepOK
<1>1. PICK q : q = reqs[r]
    OBVIOUS
<1>2. /\ UNCHANGED <<users, lastId, keys, secondary, clock, setupDone, past>>
      /\ q.phase = "sweep"
      /\ \/ /\ sessions' = Without(sessions, {s \in DOMAIN sessions : sessions[s].expires <= q.now})
            /\ UNCHANGED faults
         \/ Fault /\ UNCHANGED sessions
      /\ reqs' = [reqs EXCEPT ![r] = NoSession(q)]
    BY <1>1 DEF DeleteExpired, env
<1>3. q \in RequestRow /\ Ties(q)
    BY <1>1, <1>2, UnderWay, LookupPhases
<1>4. UsersOK' /\ SessionsOK' /\ KeysOK' /\ PastOK' /\ Tables' /\ Keeps
    <2>1. q.now \in Nat /\ q.now <= clock /\ clock \in Nat
        BY <1>2, <1>3 DEF RequestRow, Ties, Timely, IInv, TypeOK
    <2>2. \A s \in DOMAIN sessions : sessions[s].expires \in Nat
        BY DEF IInv, TypeOK, SessionsOK, SessionRows
    <2>3. PICK gone : gone = {s \in DOMAIN sessions : sessions[s].expires <= q.now}
        OBVIOUS
    <2>4. \A s \in DOMAIN sessions \cap gone : sessions[s].expires <= clock
        BY <2>1, <2>2, <2>3
    <2>5. CASE sessions' = Without(sessions, gone)
        BY <1>2, <2>4, <2>5, DropKeeps
    <2>6. CASE UNCHANGED sessions
        BY <1>2, <2>6, SameTables
    <2> QED BY <1>2, <2>3, <2>5, <2>6
<1>11. faults' \in Nat
    BY <1>2 DEF Fault, IInv, TypeOK
<1>5. PICK z : z = NoSession(q)
    OBVIOUS
<1>6. z # Idle => z \in RequestRow /\ Ties(z) /\ Advance(q, z)
    BY <1>2, <1>3, <1>5, NoSessionTied DEF Ties, Tokened
<1>10. Advance(reqs[r], z)
    BY <1>1, <1>6 DEF Advance
<1>7. RequestsOK'
    BY <1>2, <1>5, <1>6 DEF IInv, TypeOK, RequestsOK
<1>8. TypeOK'
    BY <1>2, <1>4, <1>7, <1>11 DEF IInv, TypeOK
<1>9. z # Idle => Ties(z)'
    BY <1>4, <1>6, <1>8, TiesKept DEF IInv
<1> QED BY <1>2, <1>4, <1>5, <1>8, <1>9, <1>10, OneRequest

-----------------------------------------------------------------------------
(* The handlers.                                                           *)

\* A request that ends and leaves the tables.
LEMMA FinishInv ==
    ASSUME IInv, NEW r \in Requests, Finish(r),
           UNCHANGED <<users, lastId, sessions, keys, secondary, clock, setupDone, faults, past>>
    PROVE  StepOK
<1>1. setupDone' \in BOOLEAN /\ faults' \in Nat
    BY DEF IInv, TypeOK
<1>2. reqs' = [reqs EXCEPT ![r] = Idle]
    BY DEF Finish
<1> QED BY <1>1, <1>2, RequestOnly DEF Advance

\* The request that goes on to begin its session.
ToInsert(q, name, c, id) ==
    [q EXCEPT !.phase = "insert", !.name = name, !.now = c, !.user = id,
              !.expires = c + IDLE_SECS]

LEMMA VerifyInv == ASSUME IInv, NEW r \in Requests, NEW name \in Names, Verify(r, name) PROVE StepOK
<1>1. PICK q : q = reqs[r]
    OBVIOUS
<1>2. /\ UNCHANGED <<users, lastId, sessions, keys, secondary, clock, setupDone, faults, past>>
      /\ q.phase = "login" /\ name \in DOMAIN users
    BY <1>1 DEF Verify, store, env
<1>3. q \in RequestRow /\ Ties(q) /\ clock \in Nat
    BY <1>1, <1>2, UnderWay, LookupPhases DEF IInv, TypeOK
<1>4. PICK id \in Nat : id = users[name]
    BY <1>2 DEF IInv, TypeOK, UsersOK
<1>5. PICK z : z = ToInsert(q, name, clock, id)
    OBVIOUS
<1>6. reqs' = [reqs EXCEPT ![r] = z]
    BY <1>1, <1>4, <1>5 DEF Verify, ToInsert
<1>7. z = [q EXCEPT !.phase = "insert", !.name = name, !.now = clock, !.user = id,
                    !.expires = clock + IDLE_SECS]
    BY <1>5 DEF ToInsert
<1>8. [q EXCEPT !.phase = "insert", !.name = name, !.now = clock, !.user = id,
                !.expires = clock + IDLE_SECS] \in RequestRow
    <2>1. "insert" \in Phases /\ clock + IDLE_SECS \in Nat /\ name \in Names \cup {None}
        BY <1>3 DEF Phases
    <2> QED BY <1>3, <2>1 DEF RequestRow
<1>9. /\ z.phase = "insert" /\ z.name = name /\ z.now = clock /\ z.user = id
      /\ z.expires = clock + IDLE_SECS /\ z.kind = q.kind /\ z.cred = q.cred
      /\ z.live = q.live /\ z.granted = q.granted
    BY <1>3, <1>7 DEF RequestRow
<1>10. z.kind \in PublicForms /\ z.cred = None
    BY <1>2, <1>3, <1>9 DEF Ties, Shape, PublicForms
<1>11. Shape(z)
    BY <1>9, <1>10 DEF Shape
<1>12. Since(z) /\ Tokened(z)
    BY <1>3, <1>9, <1>10 DEF Ties, Since, Tokened, PublicForms
<1>13. Verified(z)
    BY <1>2, <1>4, <1>9 DEF Verified, IInv, UserIds
<1>14. Timely(z)
    BY <1>3, <1>9 DEF Timely
<1>15. Ties(z)'
    BY <1>2, <1>11, <1>12, <1>13, <1>14, TiesSame DEF Ties
<1>16. setupDone' \in BOOLEAN /\ faults' \in Nat
    BY <1>2 DEF IInv, TypeOK
<1>17. Advance(reqs[r], z)
    BY <1>1, <1>3, <1>9, RowIsNotIdle DEF Advance
<1> QED BY <1>2, <1>6, <1>7, <1>8, <1>15, <1>16, <1>17, RequestOnly

\* The session that a login begins.
LEMMA NewSession ==
    ASSUME IInv, NEW q \in RequestRow, Ties(q), q.phase = "insert",
           NEW s \in SessionIds, s \notin DOMAIN past.begun,
           \E n \in DOMAIN users : users[n] = q.user,
           sessions' = Put(sessions, s, SessionRow(q.user, clock, q.expires)),
           past' = [past EXCEPT !.begun = Put(@, s, Begun(q.name, q.now))],
           UNCHANGED <<users, lastId, keys, secondary, clock>>
    PROVE  UsersOK' /\ SessionsOK' /\ KeysOK' /\ PastOK' /\ Tables' /\ Keeps
<1>1. PastOK /\ SessionsOK /\ clock \in Nat /\ q.now \in Nat /\ q.user \in Nat /\ q.expires \in Nat
    BY DEF IInv, TypeOK, RequestRow
<1>2. /\ q.name \in Names /\ q.now <= clock
      /\ \A n \in DOMAIN users : users[n] = q.user => n = q.name
      /\ q.expires = q.now + IDLE_SECS
    BY DEF Ties, Verified, Timely
<1>3. q.name \in DOMAIN users /\ users[q.name] = q.user
    BY <1>2
<1>4. PICK row : row = SessionRow(q.user, clock, q.expires)
    OBVIOUS
<1>5. /\ row \in SessionRows /\ row.user = q.user /\ row.created = clock
      /\ row.expires = q.expires
    BY <1>1, <1>4 DEF SessionRow, SessionRows
<1>6. PICK b : b = Begun(q.name, q.now)
    OBVIOUS
<1>7. b \in BegunRow /\ b.name = q.name /\ b.born = clock /\ b.used = q.now
    BY <1>1, <1>2, <1>6 DEF Begun, BegunRow
<1>8. /\ DOMAIN sessions' = DOMAIN sessions \cup {s}
      /\ sessions' \in [DOMAIN sessions' -> SessionRows]
      /\ sessions'[s] = row
      /\ \A x \in DOMAIN sessions : x # s => sessions'[x] = sessions[x]
    BY <1>1, <1>4, <1>5 DEF SessionsOK, Put
<1>9. past'.begun = Put(past.begun, s, b) /\ past'.wizard = past.wizard
      /\ past' = [begun |-> past'.begun, wizard |-> past'.wizard]
    <2>1. PICK c : c = Put(past.begun, s, b)
        OBVIOUS
    <2>2. past' = [past EXCEPT !.begun = c]
        BY <1>6, <2>1
    <2> QED BY <1>1, <2>1, <2>2, PastUpdate
<1>10. /\ DOMAIN past'.begun = DOMAIN past.begun \cup {s}
       /\ past'.begun \in [DOMAIN past'.begun -> BegunRow]
       /\ past'.begun[s] = b
       /\ \A x \in DOMAIN past.begun : x # s => past'.begun[x] = past.begun[x]
    BY <1>1, <1>7, <1>9 DEF PastOK, Put
<1>11. SessionsOK' /\ PastOK'
    BY <1>1, <1>8, <1>9, <1>10 DEF SessionsOK, PastOK
<1>12. ASSUME NEW x \in DOMAIN past'.begun PROVE RowOf(x)' /\ Survives(x)'
    <2>1. CASE x = s
        <3>1. RowOf(s)'
            BY <1>1, <1>2, <1>3, <1>5, <1>7, <1>8, <1>10 DEF RowOf
        <3>2. Survives(s)'
            <4>1. Due(s)' = Least(q.now + IDLE_SECS, clock + ABSOLUTE_SECS) - RENEW_THRESHOLD_SECS
                BY <1>7, <1>10 DEF Due
            <4>2. q.expires >= Due(s)'
                BY <1>1, <1>2, <4>1 DEF Least
            <4> QED BY <1>5, <1>8, <4>2 DEF Survives
        <3> QED BY <2>1, <3>1, <3>2
    <2>2. CASE x # s
        <3>1. x \in DOMAIN past.begun /\ past'.begun[x] = past.begun[x]
            BY <1>10, <2>2
        <3>2. x \in DOMAIN sessions' <=> x \in DOMAIN sessions
            BY <1>8, <2>2
        <3>3. x \in DOMAIN sessions =>
                  sessions'[x] = sessions[x] /\ past.begun[x].name \in DOMAIN users'
            BY <1>8, <2>2, <3>1, SessionOf DEF RowOf
        <3> QED BY <3>1, <3>2, <3>3, SessionKept
    <2> QED BY <2>1, <2>2
<1>13. UsersOK' /\ KeysOK' /\ UserIds' /\ WizardOnce'
    BY <1>9 DEF IInv, TypeOK, UsersOK, KeysOK, UserIds, WizardOnce
<1>14. DOMAIN sessions' \subseteq DOMAIN past'.begun
    BY <1>8, <1>10 DEF IInv, SessionRowsAreBegun
<1>15. Tables'
    BY <1>12, <1>13, <1>14, SessionsNext
<1>16. Keeps
    <2>1. ASSUME NEW x \in DOMAIN past.begun
          PROVE  /\ past'.begun[x].born = past.begun[x].born
                 /\ x \in DOMAIN sessions' => x \in DOMAIN sessions
                 /\ past.begun[x].used <= past'.begun[x].used
                 /\ UsedInside(x)
        <3>1. past.begun[x].used \in Nat /\ x # s
            BY SessionOf DEF BegunRow
        <3> QED BY <1>8, <1>10, <3>1 DEF UsedInside
    <2>2. /\ DOMAIN past.begun \subseteq DOMAIN past'.begun
          /\ \A x \in DOMAIN past'.begun : x \in DOMAIN past.begun \/ x \in DOMAIN sessions'
        BY <1>8, <1>10
    <2> QED BY <2>1, <2>2 DEF Keeps, IInv, TypeOK
<1> QED BY <1>11, <1>13, <1>15, <1>16

LEMMA InsertSessionInv ==
    ASSUME IInv, NEW r \in Requests, NEW s \in SessionIds, InsertSession(r, s)
    PROVE  StepOK
<1>1. PICK q : q = reqs[r]
    OBVIOUS
<1>2. /\ UNCHANGED <<users, lastId, keys, secondary, clock, setupDone, faults>>
      /\ q.phase = "insert" /\ s \notin DOMAIN past.begun /\ Finish(r)
    BY <1>1 DEF InsertSession, env
<1>3. q \in RequestRow /\ Ties(q)
    BY <1>1, <1>2, UnderWay, LookupPhases
<1>4. CASE \E n \in DOMAIN users : users[n] = q.user
    <2>1. /\ sessions' = Put(sessions, s, SessionRow(q.user, clock, q.expires))
          /\ past' = [past EXCEPT !.begun = Put(@, s, Begun(q.name, q.now))]
        BY <1>1, <1>4 DEF InsertSession
    <2>2. UsersOK' /\ SessionsOK' /\ KeysOK' /\ PastOK' /\ Tables' /\ Keeps
        BY <1>2, <1>3, <1>4, <2>1, NewSession
    <2>3. reqs' = [reqs EXCEPT ![r] = Idle] /\ RequestsOK'
        BY <1>2 DEF Finish, IInv, TypeOK, RequestsOK
    <2>4. TypeOK'
        BY <1>2, <2>2, <2>3 DEF IInv, TypeOK
    <2> QED BY <2>2, <2>3, <2>4, OneRequest DEF Advance
<1>5. CASE ~\E n \in DOMAIN users : users[n] = q.user
    <2>1. UNCHANGED <<sessions, past>>
        BY <1>1, <1>5 DEF InsertSession
    <2> QED BY <1>2, <2>1, FinishInv
<1> QED BY <1>4, <1>5

LEMMA LogoutInv == ASSUME IInv, NEW r \in Requests, Logout(r) PROVE StepOK
<1>1. PICK gone : gone = {reqs[r].cred}
    OBVIOUS
<1>2. /\ UNCHANGED <<users, lastId, keys, secondary, clock, setupDone, faults>>
      /\ sessions' = Without(sessions, gone)
      /\ past' = [past EXCEPT !.begun = Ended(gone)]
      /\ Finish(r)
    BY <1>1 DEF Logout, env
<1>3. UsersOK' /\ SessionsOK' /\ KeysOK' /\ PastOK' /\ Tables' /\ Keeps
    BY <1>2, DropKeeps
<1>4. reqs' = [reqs EXCEPT ![r] = Idle] /\ RequestsOK'
    BY <1>2 DEF Finish, IInv, TypeOK, RequestsOK
<1>5. TypeOK'
    BY <1>2, <1>3, <1>4 DEF IInv, TypeOK
<1> QED BY <1>3, <1>4, <1>5, OneRequest DEF Advance

\* A new user gets an id that none had.
LEMMA NewUser ==
    ASSUME IInv, NEW name \in Names, name \notin DOMAIN users,
           users' = Put(users, name, NextId), lastId' = lastId + 1,
           UNCHANGED <<sessions, keys, secondary, clock>>,
           PastOK', past'.begun = past.begun, WizardOnce'
    PROVE  UsersOK' /\ lastId' \in Nat /\ SessionsOK' /\ KeysOK' /\ Tables' /\ Keeps
<1>1. lastId \in Nat /\ UsersOK
    BY DEF IInv, TypeOK
<1>2. /\ DOMAIN users' = DOMAIN users \cup {name} /\ users'[name] = lastId + 1
      /\ \A n \in DOMAIN users : users'[n] = users[n]
      /\ users' \in [DOMAIN users' -> Nat]
    BY <1>1 DEF Put, NextId, UsersOK
<1>3. UsersOK' /\ lastId' \in Nat
    BY <1>1, <1>2 DEF UsersOK
<1>4. UserIds'
    <2>1. \A n \in DOMAIN users : users[n] \in Nat /\ 1 <= users[n] /\ users[n] <= lastId
        BY <1>1 DEF IInv, UserIds, UsersOK
    <2>2. \A m, n \in DOMAIN users : users[m] = users[n] => m = n
        BY DEF IInv, UserIds
    <2> QED BY <1>1, <1>2, <2>1, <2>2 DEF UserIds
<1>5. SessionsOK' /\ KeysOK'
    BY DEF IInv, TypeOK, SessionsOK, KeysOK
<1>6. ASSUME NEW s \in DOMAIN past'.begun PROVE RowOf(s)' /\ Survives(s)'
    <2>1. s \in DOMAIN sessions => past.begun[s].name \in DOMAIN users
        BY DEF IInv, SessionIsItsOwners
    <2> QED BY <1>2, <2>1, SessionKept
<1>7. Tables'
    BY <1>4, <1>6, SessionsNext DEF IInv, SessionRowsAreBegun
<1>8. Keeps
    <2>1. \A s \in DOMAIN past.begun : past.begun[s].used <= past.begun[s].used
        BY SessionOf DEF BegunRow
    <2> QED BY <1>1, <1>2, <2>1 DEF Keeps, UsedInside
<1> QED BY <1>3, <1>5, <1>7, <1>8

LEMMA SetupSubmitInv ==
    ASSUME IInv, NEW r \in Requests, NEW name \in Names, SetupSubmit(r, name)
    PROVE  StepOK
<1>1. /\ UNCHANGED <<sessions, keys, secondary, clock, faults>>
      /\ reqs[r].phase = "setup" /\ CreateInitial(name) /\ Finish(r)
      /\ setupDone' = (setupDone \/ users = <<>>)
    BY DEF SetupSubmit, env
<1>2. ~secondary
    BY <1>1, UnderWay, LookupPhases DEF Ties, Shape
<1>3. setupDone' \in BOOLEAN /\ faults' \in Nat
    BY <1>1 DEF IInv, TypeOK
<1>4. reqs' = [reqs EXCEPT ![r] = Idle] /\ RequestsOK'
    BY <1>1 DEF Finish, IInv, TypeOK, RequestsOK
<1>5. CASE users = <<>>
    <2>1. /\ users' = Put(users, name, NextId) /\ lastId' = lastId + 1
          /\ past' = [past EXCEPT !.wizard = @ \cup {name}]
        BY <1>1, <1>5 DEF CreateInitial, NextId
    <2>2. DOMAIN users = {}
        BY <1>5, EmptyDomain
    <2>3. past.wizard = {}
        BY <2>2 DEF IInv, WizardOnce
    <2>4. PastOK' /\ past'.begun = past.begun /\ past'.wizard = {name}
        <3>1. PastOK
            BY DEF IInv, TypeOK
        <3>2. past'.begun = past.begun /\ past'.wizard = past.wizard \cup {name}
              /\ past' = [begun |-> past'.begun, wizard |-> past'.wizard]
            BY <2>1, <3>1 DEF PastOK
        <3> QED BY <2>3, <3>1, <3>2 DEF PastOK
    <2>5. name \in DOMAIN users'
        BY <2>1 DEF Put
    <2>6. WizardOnce'
        BY <1>1, <1>2, <2>4, <2>5 DEF WizardOnce
    <2>7. UsersOK' /\ lastId' \in Nat /\ SessionsOK' /\ KeysOK' /\ Tables' /\ Keeps
        BY <1>1, <2>1, <2>2, <2>4, <2>6, NewUser
    <2>8. TypeOK'
        BY <1>1, <1>3, <1>4, <2>4, <2>7 DEF IInv, TypeOK
    <2> QED BY <1>4, <2>7, <2>8, OneRequest DEF Advance
<1>6. CASE users # <<>>
    <2>1. UNCHANGED <<users, lastId, past>>
        BY <1>1, <1>6 DEF CreateInitial
    <2> QED BY <1>1, <1>3, <1>4, <2>1, RequestOnly DEF Advance
<1> QED BY <1>5, <1>6

\* The tables after keys are made or revoked.
LEMMA KeysStep ==
    ASSUME IInv, NEW r \in Requests, Finish(r), KeysOK', DOMAIN keys \subseteq DOMAIN keys',
           \A k \in DOMAIN keys : keys[k] => keys'[k],
           \A k \in DOMAIN keys' : k \in DOMAIN keys \/ ~keys'[k],
           UNCHANGED <<users, lastId, sessions, secondary, clock, setupDone, faults, past>>
    PROVE  StepOK
<1>1. UsersOK' /\ SessionsOK' /\ PastOK'
    BY DEF IInv, TypeOK, UsersOK, SessionsOK, PastOK
<1>2. Tables'
    BY DEF IInv, Tables, UserIds, SessionRowsAreBegun, WizardOnce, SessionIsItsOwners,
           ActiveSessionSurvives
<1>3. Keeps
    <2>1. \A s \in DOMAIN past.begun : past.begun[s].used <= past.begun[s].used
        BY SessionOf DEF BegunRow
    <2> QED BY <2>1 DEF Keeps, UsedInside, IInv, TypeOK
<1>4. reqs' = [reqs EXCEPT ![r] = Idle] /\ RequestsOK'
    BY DEF Finish, IInv, TypeOK, RequestsOK
<1>5. TypeOK'
    BY <1>1, <1>4 DEF IInv, TypeOK
<1> QED BY <1>2, <1>3, <1>4, <1>5, OneRequest DEF Advance

LEMMA ApikeyInv ==
    ASSUME IInv, NEW r \in Requests, NEW k \in KeyIds, ApikeyCreate(r, k) \/ ApikeyRevoke(r, k)
    PROVE  StepOK
<1>1. KeysOK
    BY DEF IInv, TypeOK
<1>2. CASE ApikeyCreate(r, k)
    <2>1. /\ UNCHANGED <<users, lastId, sessions, secondary, clock, setupDone, faults, past>>
          /\ keys' = Put(keys, k, FALSE) /\ Finish(r) /\ k \notin DOMAIN keys
        BY <1>2 DEF ApikeyCreate, env
    <2>2. /\ DOMAIN keys' = DOMAIN keys \cup {k}
          /\ \A x \in DOMAIN keys : keys'[x] = keys[x]
          /\ ~keys'[k]
        BY <2>1 DEF Put
    <2>3. keys' \in [DOMAIN keys' -> BOOLEAN]
        BY <1>1, <2>1 DEF Put, KeysOK
    <2>4. KeysOK'
        BY <1>1, <2>2, <2>3 DEF KeysOK
    <2> QED BY <2>1, <2>2, <2>4, KeysStep
<1>3. CASE ApikeyRevoke(r, k)
    <2>1. /\ UNCHANGED <<users, lastId, sessions, secondary, clock, setupDone, faults, past>>
          /\ keys' = [keys EXCEPT ![k] = TRUE] /\ Finish(r)
        BY <1>3 DEF ApikeyRevoke, env
    <2>2. DOMAIN keys' = DOMAIN keys /\ KeysOK'
        BY <1>1, <2>1 DEF KeysOK
    <2>3. \A x \in DOMAIN keys : keys[x] => keys'[x]
        BY <1>1, <2>1 DEF KeysOK
    <2> QED BY <2>1, <2>2, <2>3, KeysStep
<1> QED BY <1>2, <1>3

-----------------------------------------------------------------------------
(* The API, and what goes on around the requests.                          *)

LEMMA ArriveApiInv ==
    ASSUME IInv, NEW r \in Requests, NEW k \in DOMAIN keys, NEW genuine \in BOOLEAN,
           ArriveApi(r, k, genuine)
    PROVE  StepOK
<1>1. UNCHANGED <<users, lastId, sessions, keys, secondary, clock, setupDone, faults, past>>
    BY DEF ArriveApi, store, env
<1>2. PICK live \in BOOLEAN : live = ~keys[k]
    BY DEF IInv, TypeOK, KeysOK
<1>3. PICK z : z = Request("config", "key", k, genuine, FALSE, live)
    OBVIOUS
<1>4. reqs' = [reqs EXCEPT ![r] = z]
    BY <1>2, <1>3 DEF ArriveApi
<1>5. k \in KeyIds /\ k \notin DOMAIN sessions /\ "key" \in Phases
    BY DEF IInv, TypeOK, KeysOK, SessionsOK, Phases
<1>6. /\ z \in RequestRow /\ z.kind = "config" /\ z.phase = "key" /\ z.cred = k /\ z.live = live
      /\ z.granted = FALSE
    BY <1>3, <1>5 DEF Request, RequestRow
<1>7. Ties(z)
    BY <1>2, <1>5, <1>6 DEF Ties, Shape, Since, Tokened, Verified, Timely
<1>8. setupDone' \in BOOLEAN /\ faults' \in Nat
    BY <1>1 DEF IInv, TypeOK
<1>9. Advance(reqs[r], z)
    BY <1>2, <1>5, <1>6 DEF ArriveApi, Advance
<1> QED BY <1>1, <1>4, <1>6, <1>7, <1>8, <1>9, TiesSame, RequestOnly

\* A key that is good lets its request through.
ToGrant(q) == [q EXCEPT !.phase = "handler", !.granted = TRUE]

LEMMA GrantRow ==
    ASSUME NEW q \in RequestRow, NEW z, z = ToGrant(q)
    PROVE  /\ z \in RequestRow /\ z.kind = q.kind /\ z.cred = q.cred /\ z.live = q.live
           /\ z.phase = "handler" /\ z.granted
<1>1. z = [q EXCEPT !.phase = "handler", !.granted = TRUE]
    BY DEF ToGrant
<1>2. "handler" \in Phases
    BY DEF Phases
<1>3. [q EXCEPT !.phase = "handler", !.granted = TRUE] \in RequestRow
    BY <1>2 DEF RequestRow
<1>4. /\ z.kind = q.kind /\ z.cred = q.cred /\ z.live = q.live
      /\ z.phase = "handler" /\ z.granted
    BY <1>1 DEF RequestRow
<1> QED BY <1>1, <1>3, <1>4

LEMMA FindActiveInv == ASSUME IInv, NEW r \in Requests, FindActive(r) PROVE StepOK
<1>1. PICK q : q = reqs[r]
    OBVIOUS
<1>2. /\ UNCHANGED <<users, lastId, sessions, keys, secondary, clock, setupDone, faults, past>>
      /\ q.phase = "key"
      /\ reqs' = [reqs EXCEPT ![r] = IF keys[q.cred] \/ ~q.genuine THEN Idle ELSE ToGrant(q)]
    BY <1>1 DEF FindActive, store, env, ToGrant
<1>3. q \in RequestRow /\ Ties(q)
    BY <1>1, <1>2, UnderWay, LookupPhases
<1>4. PICK z : z = IF keys[q.cred] \/ ~q.genuine THEN Idle ELSE ToGrant(q)
    OBVIOUS
<1>5. ASSUME z # Idle PROVE z \in RequestRow /\ Ties(z)
    <2>1. z = ToGrant(q)
        BY <1>4, <1>5
    <2>2. /\ z \in RequestRow /\ z.kind = q.kind /\ z.cred = q.cred /\ z.live = q.live
          /\ z.phase = "handler"
        BY <1>3, <2>1, GrantRow
    <2>3. q.kind = "config" /\ q.cred \in DOMAIN keys
        BY <1>2, <1>3 DEF Ties, Shape
    <2>4. Shape(z)
        BY <2>2, <2>3 DEF Shape
    <2>5. Since(z)
        BY <1>3, <2>2 DEF Ties, Since
    <2>6. Tokened(z) /\ Verified(z) /\ Timely(z)
        BY <2>2, <2>3 DEF Tokened, Verified, Timely
    <2> QED BY <2>2, <2>4, <2>5, <2>6 DEF Ties
<1>6. z # Idle => Ties(z)'
    BY <1>2, <1>5, TiesSame
<1>7. setupDone' \in BOOLEAN /\ faults' \in Nat
    BY <1>2 DEF IInv, TypeOK
<1>8. Advance(reqs[r], z)
    <2>1. CASE z = Idle
        BY <2>1 DEF Advance
    <2>2. CASE z # Idle
        <3>1. z = ToGrant(q) /\ ~keys[q.cred]
            BY <1>4, <2>2
        <3>2. z.cred = q.cred /\ z.live = q.live /\ z.granted
            BY <1>3, <3>1, GrantRow
        <3>3. q.live
            BY <1>2, <1>3, <3>1 DEF Ties, Shape, Since
        <3> QED BY <1>1, <1>3, <3>2, <3>3, RowIsNotIdle DEF Advance
    <2> QED BY <2>1, <2>2
<1> QED BY <1>2, <1>4, <1>5, <1>6, <1>7, <1>8, RequestOnly

\* A step of the tables alone.
LEMMA NoRequest ==
    ASSUME IInv, TypeOK', Tables', Keeps, UNCHANGED reqs
    PROVE  StepOK
<1>1. RequestsTied'
    <2> SUFFICES ASSUME NEW p \in Requests, reqs[p] # Idle, NEW q, q = reqs[p]
                 PROVE  Ties(q)'
        BY DEF RequestsTied
    <2>1. q \in RequestRow /\ Ties(q)
        BY DEF IInv, TypeOK, RequestsOK, RequestsTied
    <2> QED BY <2>1, TiesKept DEF IInv
<1> QED BY <1>1 DEF StepOK, Advance, IInv, Tables

LEMMA UpsertInv == ASSUME IInv, NEW name \in Names, Upsert(name) PROVE StepOK
<1>1. /\ UNCHANGED <<sessions, keys, secondary, clock, setupDone, reqs, faults, past>>
      /\ name \notin DOMAIN users /\ users' = Put(users, name, NextId)
      /\ secondary
    BY DEF Upsert, env
<1>2. lastId' = lastId + 1
    BY DEF Upsert, Greatest, NextId, IInv, TypeOK
<1>3. PastOK' /\ WizardOnce'
    BY <1>1 DEF IInv, TypeOK, PastOK, WizardOnce
<1>4. UsersOK' /\ lastId' \in Nat /\ SessionsOK' /\ KeysOK' /\ Tables' /\ Keeps
    BY <1>1, <1>2, <1>3, NewUser
<1>5. TypeOK'
    BY <1>1, <1>3, <1>4 DEF IInv, TypeOK, RequestsOK
<1> QED BY <1>1, <1>4, <1>5, NoRequest

LEMMA DeleteByUsernameInv ==
    ASSUME IInv, NEW name \in Names, DeleteByUsername(name)
    PROVE  StepOK
<1>1. PICK gone : gone = {s \in DOMAIN sessions : sessions[s].user = users[name]}
    OBVIOUS
<1>2. /\ UNCHANGED <<lastId, keys, secondary, clock, setupDone, reqs, faults>>
      /\ secondary /\ name \in DOMAIN users
      /\ users' = Without(users, {name})
      /\ sessions' = Without(sessions, gone)
      /\ past' = [past EXCEPT !.begun = Ended(gone)]
    BY <1>1 DEF DeleteByUsername, env
<1>3. /\ DOMAIN users' = DOMAIN users \ {name}
      /\ \A n \in DOMAIN users' : users'[n] = users[n]
    BY <1>2 DEF Without
<1>4. UsersOK'
    BY <1>2, <1>3 DEF Without, IInv, TypeOK, UsersOK
<1>5. \A s \in DOMAIN sessions \ gone : past.begun[s].name \in DOMAIN users'
    BY <1>1, <1>3 DEF IInv, SessionIsItsOwners
<1>6. SessionsOK' /\ KeysOK' /\ PastOK' /\ Tables' /\ Keeps
    BY <1>2, <1>3, <1>4, <1>5, DropSessions
<1>7. TypeOK'
    BY <1>2, <1>4, <1>6 DEF IInv, TypeOK, RequestsOK
<1> QED BY <1>2, <1>6, <1>7, NoRequest

LEMMA RestartInv == ASSUME IInv, Restart PROVE StepOK
<1>1. /\ UNCHANGED <<users, lastId, sessions, keys, secondary, clock, faults, past>>
      /\ reqs' = [r \in Requests |-> Idle]
    BY DEF Restart, store, env
<1>2. setupDone' \in BOOLEAN
    BY Zenon DEF Restart
<1>3. UsersOK' /\ SessionsOK' /\ KeysOK' /\ PastOK' /\ Tables' /\ Keeps
    BY <1>1, SameTables
<1>4. RequestsOK' /\ RequestsTied'
    BY <1>1 DEF RequestsOK, RequestsTied
<1>5. TypeOK'
    BY <1>1, <1>2, <1>3, <1>4 DEF IInv, TypeOK
<1>6. \A r \in Requests : Advance(reqs[r], reqs'[r])
    BY <1>1 DEF Advance
<1> QED BY <1>3, <1>4, <1>5, <1>6 DEF StepOK, IInv, Tables

LEMMA TickInv == ASSUME IInv, Tick PROVE IInv'
<1>1. /\ UNCHANGED <<users, lastId, sessions, keys, secondary, setupDone, reqs, faults, past>>
      /\ clock' = clock + 1 /\ clock \in Nat
    BY DEF Tick, store, IInv, TypeOK
<1>2. TypeOK'
    BY <1>1 DEF IInv, TypeOK, UsersOK, SessionsOK, KeysOK, RequestsOK, PastOK
<1>3. UserIds' /\ WizardOnce' /\ SessionIsItsOwners'
    BY <1>1 DEF IInv, UserIds, WizardOnce, SessionIsItsOwners
<1>4. ASSUME NEW s \in DOMAIN past.begun
      PROVE  past.begun[s].used <= clock' /\ (clock' < Due(s) => clock < Due(s))
    <2>1. /\ past.begun[s].used \in Nat /\ past.begun[s].born \in Nat
          /\ past.begun[s].used <= clock
        BY SessionOf DEF BegunRow, RowOf
    <2>2. Due(s) \in Int
        BY <2>1 DEF Due, Least
    <2> QED BY <1>1, <2>1, <2>2
<1>5. SessionRowsAreBegun'
    BY <1>1, <1>4 DEF IInv, SessionRowsAreBegun
<1>6. ActiveSessionSurvives'
    BY <1>1, <1>4 DEF IInv, ActiveSessionSurvives, Due
<1>7. RequestsTied'
    <2> SUFFICES ASSUME NEW p \in Requests, reqs[p] # Idle, NEW q, q = reqs[p]
                 PROVE  Ties(q)'
        BY <1>1 DEF RequestsTied
    <2>1. q \in RequestRow /\ Ties(q)
        BY DEF IInv, TypeOK, RequestsOK, RequestsTied
    <2>2. Shape(q)' /\ Since(q)' /\ Tokened(q)' /\ Verified(q)'
        BY <1>1, <2>1 DEF Ties, Shape, Since, Tokened, Verified
    <2>3. q.now \in Nat
        BY <2>1 DEF RequestRow
    <2>4. q.phase \in {"touch", "delete", "sweep", "insert"} =>
              q.now <= clock' /\ clock' - q.now <= Lag
        BY <1>1, <2>1, <2>3 DEF Ties, Timely, Tick
    <2>5. Timely(q)'
        BY <1>1, <2>1, <2>4 DEF Ties, Timely
    <2> QED BY <2>2, <2>5 DEF Ties
<1> QED BY <1>2, <1>3, <1>5, <1>6, <1>7 DEF IInv

-----------------------------------------------------------------------------
(* The invariant.                                                          *)

\* The empty function is one from nothing to anything.
LEMMA EmptyFunction == ASSUME NEW S PROVE << >> \in [DOMAIN << >> -> S]
OBVIOUS

LEMMA InitInv == Init => IInv
<1> SUFFICES ASSUME Init PROVE IInv
    OBVIOUS
<1>1. DOMAIN users = {} /\ DOMAIN sessions = {} /\ DOMAIN keys = {}
    BY EmptyDomain DEF Init
<1>2. past.begun = << >> /\ past.wizard = {} /\ past = [begun |-> past.begun, wizard |-> past.wizard]
    BY DEF Init
<1>3. DOMAIN past.begun = {}
    BY <1>2, EmptyDomain
<1>4. UsersOK /\ SessionsOK /\ KeysOK
    BY <1>1, EmptyFunction DEF Init, UsersOK, SessionsOK, KeysOK
<1>5. PastOK
    BY <1>2, <1>3, EmptyFunction DEF PastOK
<1>6. RequestsOK /\ RequestsTied
    BY DEF Init, RequestsOK, RequestsTied
<1>7. setupDone \in BOOLEAN
    BY Zenon DEF Init
<1>8. TypeOK
    BY <1>4, <1>5, <1>6, <1>7 DEF Init, TypeOK
<1>9. UserIds /\ SessionRowsAreBegun /\ WizardOnce
    BY <1>1, <1>2, <1>3 DEF UserIds, SessionRowsAreBegun, WizardOnce
<1>10. SessionIsItsOwners /\ ActiveSessionSurvives
    BY <1>1, <1>3 DEF SessionIsItsOwners, ActiveSessionSurvives
<1> QED BY <1>6, <1>8, <1>9, <1>10 DEF IInv

\* What every step of a request does.
LEMMA RequestStep == ASSUME IInv, NEW r \in Requests, Step(r) PROVE StepOK
<1>1. ASSUME NEW kind \in Offered, NEW origin \in Origins, NEW cookie \in Cookies(kind),
             NEW proof \in Proofs(kind, cookie),
             Arrive(r, kind, cookie, proof[1], origin, proof[2])
      PROVE  StepOK
    <2>1. PICK genuine \in BOOLEAN, token \in BOOLEAN : genuine = proof[1] /\ token = proof[2]
        BY ProofsType, Zenon
    <2> QED BY <1>1, <2>1, ArriveInv
<1>2. ASSUME Handle(r) \/ Leave(r) PROVE StepOK
    BY <1>2, FinishInv DEF Handle, Leave, store, env
<1> QED BY <1>1, <1>2, FindInv, FindFailsInv, TouchInv, DeleteInv, DeleteExpiredInv, VerifyInv,
           SetupSubmitInv, InsertSessionInv, LogoutInv, ApikeyInv, ArriveApiInv,
           FindActiveInv, Zenon DEF Step

LEMMA NextStep == IInv /\ Next => StepOK \/ Tick
BY RequestStep, UpsertInv, DeleteByUsernameInv, RestartInv, Zenon DEF Next

LEMMA NextInv == IInv /\ [Next]_vars => IInv'
<1> SUFFICES ASSUME IInv, [Next]_vars PROVE IInv'
    OBVIOUS
<1>1. CASE Next
    BY <1>1, NextStep, TickInv DEF StepOK
<1>2. CASE UNCHANGED vars
    <2>1. UNCHANGED <<users, lastId, sessions, keys, secondary, clock, past, setupDone, reqs, faults>>
        BY <1>2 DEF vars
    <2>2. /\ UsersOK' /\ SessionsOK' /\ KeysOK' /\ PastOK' /\ Tables' /\ Keeps
        BY <2>1, SameTables
    <2>3. TypeOK'
        BY <2>1, <2>2 DEF IInv, TypeOK, RequestsOK
    <2> QED BY <2>1, <2>2, <2>3, NoRequest DEF StepOK
<1> QED BY <1>1, <1>2

THEOREM Invariance == Spec => []IInv
BY InitInv, NextInv, PTL DEF Spec

-----------------------------------------------------------------------------
(* The theorems.                                                           *)

\* The tables, the requests and the history keep their types.
THEOREM Typing == Spec => []TypeOK
<1>1. IInv => TypeOK
    BY DEF IInv
<1> QED BY <1>1, Invariance, PTL

\* Whoever races whom, the wizard makes one account, and none on a secondary.
THEOREM FirstAdminOnce == Spec => []OneFirstAdmin
<1>1. IInv => OneFirstAdmin
    <2> SUFFICES ASSUME IInv PROVE OneFirstAdmin
        OBVIOUS
    <2>1. secondary => past.wizard = {}
        BY DEF IInv, WizardOnce
    <2>2. Cardinality(past.wizard) <= 1
        <3>1. CASE past.wizard = {}
            BY <3>1, FS_EmptySet
        <3>2. CASE past.wizard # {}
            <4>1. PICK n : past.wizard = {n}
                BY <3>2 DEF IInv, WizardOnce
            <4>2. Cardinality({n}) = 1
                BY FS_Singleton, Zenon
            <4> QED BY <4>1, <4>2
        <3> QED BY <3>1, <3>2
    <2> QED BY <2>1, <2>2 DEF OneFirstAdmin
<1> QED BY <1>1, Invariance, PTL

\* A session is that of the user whose password began it, whatever a sync does to the
\* users between the password check and the INSERT.
THEOREM SessionsHaveTheirOwners == Spec => []SessionIsItsOwners
<1>1. IInv => SessionIsItsOwners
    BY DEF IInv
<1> QED BY <1>1, Invariance, PTL

\* A session that was used stays good for IDLE_SECS short of the renewal threshold, in
\* whatever order requests that overlap renew it.
THEOREM ActiveSessionsSurvive == Spec => []ActiveSessionSurvives
<1>1. IInv => ActiveSessionSurvives
    BY DEF IInv
<1> QED BY <1>1, Invariance, PTL

\* A configuration edit gets to its handler only with a genuine session that was there
\* when it came and that session's token, or after a lookup of the CSRF guard failed.
THEOREM EditsAreAuthorised == Spec => []MutationsAreAuthorised
<1>1. IInv => MutationsAreAuthorised
    <2> SUFFICES ASSUME IInv, NEW r \in Requests,
                        reqs[r].phase = "handler", reqs[r].kind = "post"
                 PROVE  /\ ~secondary /\ reqs[r].live /\ reqs[r].genuine
                        /\ reqs[r].token \/ reqs[r].faulted
        BY DEF MutationsAreAuthorised
    <2> QED BY UnderWay, LookupPhases DEF Ties, Tokened
<1> QED BY <1>1, Invariance, PTL

\* A session is never found good IDLE_SECS or more after it was last found good, nor
\* ABSOLUTE_SECS or more after login.
THEOREM SessionsStayInside == Spec => InsideLimits
<1>1. IInv /\ [Next]_vars =>
          [\A s \in DOMAIN past.begun :
              past'.begun[s].used # past.begun[s].used =>
                  past'.begun[s].used < Least(past.begun[s].used + IDLE_SECS,
                                              past.begun[s].born + ABSOLUTE_SECS)]_vars
    <2> SUFFICES ASSUME IInv, Next, NEW s \in DOMAIN past.begun,
                        past'.begun[s].used # past.begun[s].used
                 PROVE  past'.begun[s].used < Least(past.begun[s].used + IDLE_SECS,
                                                    past.begun[s].born + ABSOLUTE_SECS)
        OBVIOUS
    <2>1. CASE StepOK
        BY <2>1 DEF StepOK, Keeps, UsedInside
    <2>2. CASE Tick
        BY <2>2 DEF Tick
    <2> QED BY <2>1, <2>2, NextStep
<1> QED BY <1>1, Invariance, PTL DEF Spec, InsideLimits

-----------------------------------------------------------------------------
(* The refinement of Credentials.                                          *)

\* The status of a credential, as the refinement mapping has it.
StatusOf(x) ==
    IF x \in DOMAIN sessions \/ (x \in DOMAIN keys /\ ~keys[x]) THEN "live"
    ELSE IF x \in DOMAIN past.begun \cup DOMAIN keys THEN "over"
    ELSE "unused"

Moved(old, new) ==
    \/ new = old
    \/ old = "unused" /\ new = "live"
    \/ old = "live" /\ new = "over"

\* Issued once, ended once: by what every step keeps.
LEMMA StatusMoves ==
    ASSUME IInv, StepOK, NEW x, NEW old, old = StatusOf(x), NEW new, new = StatusOf(x)'
    PROVE  Moved(old, new)
<1>1. /\ DOMAIN sessions \subseteq DOMAIN past.begun /\ DOMAIN past.begun \subseteq SessionIds
      /\ DOMAIN sessions' \subseteq DOMAIN past'.begun /\ DOMAIN past'.begun \subseteq SessionIds
      /\ DOMAIN keys \subseteq KeyIds /\ DOMAIN keys' \subseteq KeyIds
    BY DEF StepOK, IInv, TypeOK, PastOK, KeysOK, SessionRowsAreBegun
<1>2. /\ DOMAIN keys \subseteq DOMAIN keys'
      /\ x \in DOMAIN keys /\ keys[x] => keys'[x]
      /\ x \in DOMAIN keys' => x \in DOMAIN keys \/ ~keys'[x]
      /\ DOMAIN past.begun \subseteq DOMAIN past'.begun
      /\ x \in DOMAIN past'.begun => x \in DOMAIN past.begun \/ x \in DOMAIN sessions'
      /\ x \in DOMAIN past.begun /\ x \in DOMAIN sessions' => x \in DOMAIN sessions
    BY DEF StepOK, Keeps
<1>3. CASE x \in SessionIds
    <2>1. x \notin DOMAIN keys /\ x \notin DOMAIN keys'
        BY <1>1, <1>3
    <2> QED BY <1>1, <1>2, <2>1 DEF StatusOf, Moved
<1>4. CASE x \notin SessionIds
    <2>1. x \notin DOMAIN past.begun /\ x \notin DOMAIN past'.begun
        BY <1>1, <1>4
    <2>2. x \notin DOMAIN sessions /\ x \notin DOMAIN sessions'
        BY <1>1, <1>4
    <2> QED BY <1>2, <2>1, <2>2 DEF StatusOf, Moved
<1> QED BY <1>3, <1>4

\* A request's credential, as the refinement mapping has it.
AskOf(q) ==
    IF q = Idle \/ q.cred = None THEN [phase |-> "none"]
    ELSE [phase |-> IF q.granted THEN "granted" ELSE "asking", cred |-> q.cred, live |-> q.live]

NoAsk == [phase |-> "none"]

\* A request comes with a credential that is good or not, and is let through only if
\* it was good then.
LEMMA AskMoves ==
    ASSUME IInv, StepOK, NEW r \in Requests
    PROVE  \/ AskOf(reqs'[r]) \in {AskOf(reqs[r]), NoAsk}
           \/ /\ AskOf(reqs[r]) = NoAsk
              /\ \E x \in SessionIds \cup KeyIds :
                    AskOf(reqs'[r]) = [phase |-> "asking", cred |-> x,
                                       live |-> StatusOf(x) = "live"]
           \/ /\ AskOf(reqs[r]).phase = "asking" /\ AskOf(reqs[r]).live
              /\ AskOf(reqs'[r]) = [AskOf(reqs[r]) EXCEPT !.phase = "granted"]
<1>1. PICK q, z : q = reqs[r] /\ z = reqs'[r]
    OBVIOUS
<1>2. Advance(q, z) /\ q \in RequestRow \cup {Idle} /\ z \in RequestRow \cup {Idle}
    BY <1>1 DEF StepOK, IInv, TypeOK, RequestsOK
<1>3. CASE z = Idle \/ z = q \/ (q = Idle /\ z.cred = None)
    BY <1>1, <1>3 DEF AskOf, NoAsk
<1>4. CASE /\ q = Idle /\ z.cred \in SessionIds \cup KeyIds /\ ~z.granted /\ z # Idle
           /\ z.live <=> (z.cred \in DOMAIN sessions \/ (z.cred \in DOMAIN keys /\ ~keys[z.cred]))
    <2>1. PICK x \in SessionIds \cup KeyIds : x = z.cred
        BY <1>4
    <2>2. z.live \in BOOLEAN
        BY <1>2, <1>4 DEF RequestRow
    <2>3. z.live <=> (StatusOf(x) = "live")
        BY <1>4, <2>1 DEF StatusOf
    <2>4. z.live = (StatusOf(x) = "live")
        BY <2>2, <2>3
    <2>5. AskOf(z) = [phase |-> "asking", cred |-> x, live |-> z.live]
        BY <1>4, <2>1 DEF AskOf
    <2>6. AskOf(q) = NoAsk
        BY <1>4 DEF AskOf, NoAsk
    <2> QED BY <1>1, <2>4, <2>5, <2>6
<1>5. CASE /\ q # Idle /\ z # Idle /\ z.cred = q.cred /\ z.live = q.live
           /\ z.granted = q.granted \/ (z.granted /\ q.live)
    <2>1. q \in RequestRow /\ z \in RequestRow
        BY <1>2, <1>5
    <2>2. CASE q.cred = None
        BY <1>1, <1>5, <2>2 DEF AskOf, NoAsk
    <2>3. CASE q.cred # None /\ z.granted = q.granted
        BY <1>1, <1>5, <2>3 DEF AskOf
    <2>4. CASE q.cred # None /\ z.granted # q.granted /\ z.granted /\ q.live
        <3>1. ~q.granted
            BY <2>1, <2>4 DEF RequestRow
        <3>2. AskOf(q) = [phase |-> "asking", cred |-> q.cred, live |-> q.live]
            BY <1>5, <2>4, <3>1 DEF AskOf
        <3>3. AskOf(z) = [phase |-> "granted", cred |-> q.cred, live |-> q.live]
            BY <1>5, <2>4 DEF AskOf
        <3>4. PICK c, l, a, b : c = q.cred /\ l = q.live /\ a = AskOf(q) /\ b = AskOf(z)
            OBVIOUS
        <3>5. /\ a = [phase |-> "asking", cred |-> c, live |-> l]
              /\ b = [phase |-> "granted", cred |-> c, live |-> l]
            BY <3>2, <3>3, <3>4
        <3>6. a.phase = "asking" /\ a.live = l
            BY <3>5
        <3>7. [a EXCEPT !.phase = "granted"] = [phase |-> "granted", cred |-> c, live |-> l]
            BY <3>5
        <3>8. l
            BY <2>4, <3>4
        <3>9. a.live
            BY <3>6, <3>8
        <3>10. b = [a EXCEPT !.phase = "granted"]
            BY <3>5, <3>7
        <3> QED BY <1>1, <3>4, <3>6, <3>9, <3>10
    <2> QED BY <1>5, <2>2, <2>3, <2>4
<1> QED BY <1>2, <1>3, <1>4, <1>5 DEF Advance

\* The variables of Credentials, as the refinement mapping has them.
StatusBar == [x \in SessionIds \cup KeyIds |-> StatusOf(x)]
AsksBar == [r \in Requests |-> AskOf(reqs[r])]

\* A first start has issued nothing and lets nobody through.
LEMMA PromiseInit == Init => Promise!Init
<1> SUFFICES ASSUME Init
             PROVE  Promise!Init
    OBVIOUS
<1>1. /\ DOMAIN sessions = {} /\ DOMAIN keys = {} /\ DOMAIN past.begun = {}
      /\ \A r \in Requests : reqs[r] = Idle
    BY DEF Init
<1> QED BY <1>1 DEF Promise!Init, Promise!NoAsk

\* Every step of the interface is a step of Credentials, or leaves its variables alone.
LEMMA PromiseStep == IInv /\ [Next]_vars => [Promise!Next]_<<StatusBar, AsksBar>>
<1> SUFFICES ASSUME IInv, [Next]_vars
             PROVE  \/ Promise!Next
                    \/ StatusBar' = StatusBar /\ AsksBar' = AsksBar
    OBVIOUS
<1>1. CASE StepOK
    <2>1. PICK s, t : s = StatusBar /\ t = StatusBar'
        OBVIOUS
    <2>2. PICK a, b : a = AsksBar /\ b = AsksBar'
        OBVIOUS
    <2>3. \A x \in SessionIds \cup KeyIds : Moved(s[x], t[x])
        BY <1>1, <2>1, StatusMoves DEF StatusBar
    <2>4. ASSUME NEW r \in Requests
          PROVE  \/ b[r] \in {a[r], NoAsk}
                 \/ /\ a[r] = NoAsk
                    /\ \E x \in SessionIds \cup KeyIds :
                          b[r] = [phase |-> "asking", cred |-> x, live |-> s[x] = "live"]
                 \/ /\ a[r].phase = "asking" /\ a[r].live
                    /\ b[r] = [a[r] EXCEPT !.phase = "granted"]
        <3>1. a[r] = AskOf(reqs[r]) /\ b[r] = AskOf(reqs'[r])
            BY <2>2 DEF AsksBar, AskOf
        <3>2. \A x \in SessionIds \cup KeyIds : s[x] = StatusOf(x)
            BY <2>1 DEF StatusBar
        <3> QED BY <1>1, <3>1, <3>2, AskMoves
    <2> QED BY <2>1, <2>2, <2>3, <2>4
            DEF Promise!Next, Promise!Moves, Promise!Asks, Promise!Granted, Promise!NoAsk,
                StatusBar, AsksBar, StatusOf, AskOf, NoAsk, Moved
<1>2. CASE Tick
    <2>1. UNCHANGED <<sessions, keys, reqs, past>>
        BY <1>2 DEF Tick, store
    <2>2. StatusBar' = StatusBar /\ AsksBar' = AsksBar
        BY <2>1 DEF StatusBar, AsksBar, StatusOf, AskOf
    <2> QED BY <2>2
<1>3. CASE UNCHANGED vars
    BY <1>3 DEF vars, StatusBar, AsksBar, StatusOf, AskOf
<1> QED BY <1>1, <1>2, <1>3, NextStep

\* Sessions and API keys keep the promise of Credentials.
THEOREM Refinement == Spec => KeepsPromise
    BY Invariance, PromiseInit, PromiseStep, PTL
       DEF Spec, KeepsPromise, Promise!Spec, StatusBar, AsksBar, StatusOf, AskOf
=============================================================================
