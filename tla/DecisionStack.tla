---------------------------- MODULE DecisionStack ----------------------------
(***************************************************************************)
(* One query on its way through the decision stack                         *)
(* (src/src/resolver/pipeline/layers.rs) while the admin, the blocklist    *)
(* scheduler and the clock change the shared ResolverState under it.       *)
(*                                                                         *)
(* Every component of ResolverState is swapped on its own, and the stack   *)
(* reads each one when it gets to it: a query never sees one consistent    *)
(* ResolverState, only one consistent snapshot per component.  The stack   *)
(* writes nothing that is shared, so one query stands for any number.      *)
(*                                                                         *)
(* Each component is represented by what it says of the query's name; the  *)
(* name sets match exactly, so no other name matters.                      *)
(***************************************************************************)
EXTENDS Naturals

CONSTANTS
    Targets,   \* resolvers a forward zone can point at
    Modes,     \* block modes: what a blocked query is answered
    Pauses,    \* lengths of a pause, in ticks
    None,      \* no zone; no mode
    MaxSwaps,  \* bound: components replaced
    MaxNow     \* bound: ticks of the clock

ASSUME ConstantsAssumption ==
    /\ None \notin Targets /\ None \notin Modes
    /\ Pauses \subseteq Nat \ {0}
    /\ MaxSwaps \in Nat /\ MaxNow \in Nat

\* A reverse name is one Name::reverse_addr takes for an address.
Questions == [reverse : BOOLEAN, qtype : {"A", "AAAA", "PTR"}]

\* The three shapes of an answer.
Answer(kind) == [kind |-> kind, target |-> None, mode |-> None]
Block(kind, m) == [kind |-> kind, target |-> None, mode |-> m]
Inner(t) == [kind |-> "Inner", target |-> t, mode |-> None]

Outcomes ==
    {Answer(k) : k \in {"Local", "LocalNoData"}}
      \cup {Inner(t) : t \in Targets \cup {None}}
      \cup {Block(k, m) : k \in {"BlockedByAdmin", "BlockedByBlocklist"}, m \in Modes}

VARIABLES
    \* ResolverState, as far as the name is concerned.
    blockMode,     \* settings: the sinkhole
    local,         \* a forward name has an A record; the address of a reverse
                   \* name belongs to a record
    zone,          \* the target of the most specific enabled zone, or None
    pausedUntil,   \* the pause deadline, or 0
    blacklist, allowlist, blocklist,  \* whether each set holds the name
    \* The query.
    pc,            \* the stage it is about to enter
    question,
    mode,          \* the block mode it cloned at the start
    bypass,        \* the allow-bypass flag
    outcome,
    \* The clock, history and bounds.
    now,
    seen,          \* every answer the state has called for since the start
    overlaps,      \* changes of the state since the start
    swaps

state == <<blockMode, local, zone, pausedUntil, blacklist, allowlist, blocklist>>
queryVars == <<pc, question, mode, bypass, outcome>>
vars == <<state, queryVars, now, seen, overlaps, swaps>>

Stages ==
    {"idle", "reverse", "local", "zones", "pause", "blacklist", "allowlist",
     "blocklist", "done"}

TypeOK ==
    /\ blockMode \in Modes
    /\ local \in BOOLEAN
    /\ zone \in Targets \cup {None}
    /\ pausedUntil \in Nat
    /\ blacklist \in BOOLEAN /\ allowlist \in BOOLEAN /\ blocklist \in BOOLEAN
    /\ pc \in Stages
    /\ question \in Questions
    /\ mode \in Modes \cup {None}
    /\ bypass \in BOOLEAN
    /\ outcome \in Outcomes
    /\ now \in Nat
    /\ seen \in SUBSET Outcomes
    /\ overlaps \in Nat
    /\ swaps \in Nat

Init ==
    /\ blockMode \in Modes
    /\ local \in BOOLEAN
    /\ zone \in Targets \cup {None}
    /\ pausedUntil = 0
    /\ blacklist \in BOOLEAN /\ allowlist \in BOOLEAN /\ blocklist \in BOOLEAN
    /\ pc = "idle"
    /\ question \in Questions
    /\ mode = None
    /\ bypass = FALSE
    /\ outcome = Inner(None)
    /\ now = 0
    /\ seen = {}
    /\ overlaps = 0
    /\ swaps = 0

\* ResolverState::blocking_paused.
BlockingPaused == pausedUntil # 0 /\ now < pausedUntil

\* reverse_lookup, for a PTR query whose name is an address.
OwnsAddress == question.qtype = "PTR" /\ question.reverse /\ local

\* LocalMatcher::lookup finds the name.
HasRecords == ~question.reverse /\ local

\* SPEC 5, Precedence: what the state as it is now calls for.
Decision ==
    IF OwnsAddress THEN Answer("Local")
    ELSE IF HasRecords
         THEN Answer(IF question.qtype = "A" THEN "Local" ELSE "LocalNoData")
    ELSE IF zone # None THEN Inner(zone)
    ELSE IF BlockingPaused THEN Inner(None)
    ELSE IF blacklist THEN Block("BlockedByAdmin", blockMode)
    ELSE IF blocklist /\ ~allowlist THEN Block("BlockedByBlocklist", blockMode)
    ELSE Inner(None)

-----------------------------------------------------------------------------
(* The stages.  Between two of them any component may be swapped.          *)

\* call: the question is taken, the block mode is cloned.
Begin ==
    /\ pc = "idle"
    /\ pc' = "reverse"
    /\ mode' = blockMode
    /\ seen' = {Decision}
    /\ UNCHANGED <<state, question, bypass, outcome, now, overlaps, swaps>>

\* A stage that lets the query through, and one that answers it.
Continue(next) ==
    /\ pc' = next
    /\ UNCHANGED <<state, question, mode, outcome, now, seen, overlaps, swaps>>

Reply(o) ==
    /\ pc' = "done"
    /\ outcome' = o
    /\ UNCHANGED <<state, question, mode, bypass, now, seen, overlaps, swaps>>

\* Stage 1a.
ReverseStage ==
    /\ pc = "reverse"
    /\ \/ OwnsAddress /\ Reply(Answer("Local"))
       \/ ~OwnsAddress /\ Continue("local") /\ bypass' = bypass

\* Stage 1b.
LocalStage ==
    /\ pc = "local"
    /\ \/ /\ HasRecords
          /\ Reply(Answer(IF question.qtype = "A" THEN "Local" ELSE "LocalNoData"))
       \/ ~HasRecords /\ Continue("zones") /\ bypass' = bypass

\* Stage 1c: match_target, set_forward_target.
ZonesStage ==
    /\ pc = "zones"
    /\ \/ zone # None /\ Reply(Inner(zone))
       \/ zone = None /\ Continue("pause") /\ bypass' = bypass

\* Mutation: the pause gate comes after the admin blacklist.
PauseAfterBlacklist ==
    /\ pc = "pause"
    /\ \/ BlockingPaused /\ ~blacklist /\ Reply(Inner(None))
       \/ ~(BlockingPaused /\ ~blacklist)
            /\ Continue("blacklist") /\ bypass' = bypass

PauseGate ==
    /\ pc = "pause"
    /\ \/ BlockingPaused /\ Reply(Inner(None))
       \/ ~BlockingPaused /\ Continue("blacklist") /\ bypass' = bypass

\* Mutation: the allowlist overrides the admin blacklist as well.
BlacklistYields ==
    /\ pc = "blacklist"
    /\ \/ blacklist /\ ~allowlist /\ Reply(Block("BlockedByAdmin", mode))
       \/ (~blacklist \/ allowlist) /\ Continue("allowlist") /\ bypass' = bypass

BlacklistStage ==
    /\ pc = "blacklist"
    /\ \/ blacklist /\ Reply(Block("BlockedByAdmin", mode))
       \/ ~blacklist /\ Continue("allowlist") /\ bypass' = bypass

\* Stage 3 never answers: it sets the flag.
AllowlistStage ==
    /\ pc = "allowlist"
    /\ bypass' = (bypass \/ allowlist)
    /\ Continue("blocklist")

\* Stage 4, and stage 5: the inner service.
BlocklistStage ==
    /\ pc = "blocklist"
    /\ \/ ~bypass /\ blocklist /\ Reply(Block("BlockedByBlocklist", mode))
       \/ (bypass \/ ~blocklist) /\ Reply(Inner(None))

-----------------------------------------------------------------------------
(* The rest of the process.                                                *)

\* A component changed: history while the query is under way.
Witness ==
    IF pc \in {"idle", "done"}
    THEN UNCHANGED <<seen, overlaps>>
    ELSE seen' = seen \cup {Decision'} /\ overlaps' = overlaps + 1

\* HotSwap::store and the like: one component is replaced.
Swap ==
    /\ swaps < MaxSwaps
    /\ swaps' = swaps + 1
    /\ UNCHANGED <<queryVars, now>>
    /\ Witness

SetBlockMode(m) ==
    /\ blockMode' = m
    /\ UNCHANGED <<local, zone, pausedUntil, blacklist, allowlist, blocklist>>
    /\ Swap

StoreLocal(on) ==
    /\ local' = on
    /\ UNCHANGED <<blockMode, zone, pausedUntil, blacklist, allowlist, blocklist>>
    /\ Swap

StoreForwardZones(t) ==
    /\ zone' = t
    /\ UNCHANGED <<blockMode, local, pausedUntil, blacklist, allowlist, blocklist>>
    /\ Swap

StoreBlacklist(on) ==
    /\ blacklist' = on
    /\ UNCHANGED <<blockMode, local, zone, pausedUntil, allowlist, blocklist>>
    /\ Swap

StoreAllowlist(on) ==
    /\ allowlist' = on
    /\ UNCHANGED <<blockMode, local, zone, pausedUntil, blacklist, blocklist>>
    /\ Swap

InstallBlocklist(on) ==
    /\ blocklist' = on
    /\ UNCHANGED <<blockMode, local, zone, pausedUntil, blacklist, allowlist>>
    /\ Swap

\* blocking_pause: the deadline is stored, an earlier one is replaced.
PauseFor(secs) ==
    /\ pausedUntil' = now + secs
    /\ UNCHANGED <<blockMode, local, zone, blacklist, allowlist, blocklist>>
    /\ Swap

\* blocking_resume.
Resume ==
    /\ pausedUntil' = 0
    /\ UNCHANGED <<blockMode, local, zone, blacklist, allowlist, blocklist>>
    /\ Swap

\* Time passes; at the deadline of a pause, blocking resumes by itself.
Tick ==
    /\ now < MaxNow
    /\ now' = now + 1
    /\ UNCHANGED <<state, queryVars, swaps>>
    /\ Witness

Stage ==
    \/ Begin \/ ReverseStage \/ LocalStage \/ ZonesStage \/ PauseGate
    \/ BlacklistStage \/ AllowlistStage \/ BlocklistStage

Change ==
    \/ \E m \in Modes : SetBlockMode(m)
    \/ \E t \in Targets \cup {None} : StoreForwardZones(t)
    \/ \E on \in BOOLEAN : \/ StoreLocal(on) \/ StoreBlacklist(on)
                           \/ StoreAllowlist(on) \/ InstallBlocklist(on)
    \/ \E secs \in Pauses : PauseFor(secs)
    \/ Resume
    \/ Tick

Next == Stage \/ Change

Spec == Init /\ [][Next]_vars

-----------------------------------------------------------------------------
(* What the stack promises although it never sees one state.               *)

\* SPEC 5, Precedence, under one change: a query that at most one change of
\* the state overlaps is answered as the state before or after that change
\* calls for.  Two changes can produce an answer no state called for.
DecisionIsAtomic ==
    pc = "done" /\ overlaps <= 1 => outcome \in seen

\* "Local wins over all blocking", "you do not block your own reverse zones",
\* "The allowlist cannot override the admin blacklist": an answer other than
\* the upstream's that every state since the start called for is given,
\* whatever and however much changed meanwhile.
StandingDecisionHolds ==
    \A o \in Outcomes :
        pc = "done" /\ seen = {o} /\ o # Inner(None) => outcome = o

-----------------------------------------------------------------------------
(* The inductive invariant behind them.                                    *)

UnderWay == pc \notin {"idle", "done"}

\* The stages that are behind the query.
PastAllowlist == pc = "blocklist"
PastBlacklist == pc = "allowlist" \/ PastAllowlist
PastPause == pc = "blacklist" \/ PastBlacklist
PastZones == pc = "pause" \/ PastPause
PastLocal == pc = "zones" \/ PastZones
PastReverse == pc = "local" \/ PastLocal

\* What the query has read is still so.
ReadsHold ==
    /\ mode = blockMode
    /\ PastReverse => ~OwnsAddress
    /\ PastLocal => ~HasRecords
    /\ PastZones => zone = None
    /\ PastPause => ~BlockingPaused
    /\ PastBlacklist => ~blacklist
    /\ PastAllowlist => (bypass <=> allowlist)

\* The answer the query gets if nothing changes from here on.
Pending ==
    IF ~PastReverse /\ OwnsAddress THEN Answer("Local")
    ELSE IF ~PastLocal /\ HasRecords
         THEN Answer(IF question.qtype = "A" THEN "Local" ELSE "LocalNoData")
    ELSE IF ~PastZones /\ zone # None THEN Inner(zone)
    ELSE IF ~PastPause /\ BlockingPaused THEN Inner(None)
    ELSE IF ~PastBlacklist /\ blacklist THEN Block("BlockedByAdmin", mode)
    ELSE IF blocklist /\ ~bypass /\ (PastAllowlist \/ ~allowlist)
         THEN Block("BlockedByBlocklist", mode)
    ELSE Inner(None)

\* The flag is set by the allowlist stage only.
FlagIsLate == bypass => PastAllowlist \/ pc = "done"

\* Without a change the query has read the present; with one, the answer it is
\* heading for is that of the state before or after it.
OneChange ==
    UnderWay => /\ overlaps = 0 => ReadsHold
                /\ overlaps <= 1 => Pending \in seen

\* A stage let the query through because some state called for that.
LetThrough ==
    /\ UnderWay => Decision \in seen /\ mode \in Modes
    /\ UnderWay => \E o \in seen : o.mode \in {None, mode}
    /\ (PastReverse /\ question.reverse) \/ PastLocal
          => \E o \in seen : o.kind \notin {"Local", "LocalNoData"}
    /\ PastZones => \E o \in seen : o.target = None
    /\ PastBlacklist => \E o \in seen : o.kind # "BlockedByAdmin"
    /\ PastAllowlist /\ bypass => \E o \in seen : o.kind # "BlockedByBlocklist"

IInv ==
    /\ TypeOK
    /\ FlagIsLate
    /\ OneChange
    /\ LetThrough
    /\ DecisionIsAtomic
    /\ StandingDecisionHolds
=============================================================================
