-------------------------- MODULE Decisions_proofs --------------------------
(***************************************************************************)
(* Proofs about the decision stack (DecisionStack), for any targets and    *)
(* modes, any number of changes of the state and any passage of time; and  *)
(* about the admin lists it reads (AdminLists), for any domains, any       *)
(* number of handlers in flight and any bounds.                            *)
(***************************************************************************)
EXTENDS DecisionStack, AdminLists, TLAPS

USE ConstantsAssumption

\* The answers the stack gives are outcomes.
LEMMA OutcomeShapes ==
    /\ \A k \in {"Local", "LocalNoData"} : Answer(k) \in Outcomes
    /\ \A t \in Targets \cup {None} : Inner(t) \in Outcomes
    /\ \A k \in {"BlockedByAdmin", "BlockedByBlocklist"}, m \in Modes :
          Block(k, m) \in Outcomes
BY DEF Outcomes

\* The state calls for an outcome.
LEMMA DecisionType == TypeOK => Decision \in Outcomes
<1> SUFFICES ASSUME TypeOK PROVE Decision \in Outcomes
    OBVIOUS
<1>1. zone \in Targets \cup {None} /\ blockMode \in Modes
    BY DEF TypeOK
<1> QED BY <1>1, OutcomeShapes, Zenon DEF Decision

\* A stage changes only the query.
LEMMA StageKeeps ==
    ASSUME Stage
    PROVE  /\ UNCHANGED <<state, question, now, overlaps, swaps>>
           /\ pc # "idle" => seen' = seen /\ mode' = mode
BY DEF Stage, Begin, ReverseStage, LocalStage, ZonesStage, PauseGate,
       BlacklistStage, AllowlistStage, BlocklistStage, Continue, Reply

\* A change leaves the query where it is, and its history remembers.
LEMMA ChangeKeeps ==
    ASSUME Change
    PROVE  /\ UNCHANGED queryVars
           /\ Witness
BY DEF Change, SetBlockMode, StoreLocal, StoreForwardZones, StoreBlacklist,
       StoreAllowlist, InstallBlocklist, PauseFor, Resume, Tick, Swap

\* A change keeps the types of the state.
LEMMA ChangeType ==
    ASSUME TypeOK, Change
    PROVE  /\ blockMode' \in Modes
           /\ local' \in BOOLEAN
           /\ zone' \in Targets \cup {None}
           /\ pausedUntil' \in Nat
           /\ blacklist' \in BOOLEAN /\ allowlist' \in BOOLEAN
           /\ blocklist' \in BOOLEAN
           /\ now' \in Nat
           /\ swaps' \in Nat
<1> USE DEF TypeOK
<1> DEFINE P == /\ blockMode' \in Modes
                /\ local' \in BOOLEAN
                /\ zone' \in Targets \cup {None}
                /\ pausedUntil' \in Nat
                /\ blacklist' \in BOOLEAN /\ allowlist' \in BOOLEAN
                /\ blocklist' \in BOOLEAN
                /\ now' \in Nat
                /\ swaps' \in Nat
<1>1. Swap => now' \in Nat /\ swaps' \in Nat
    BY DEF Swap
<1>2. ASSUME NEW m \in Modes, SetBlockMode(m) PROVE P
    BY <1>1, <1>2, Zenon DEF SetBlockMode
<1>3. ASSUME NEW t \in Targets \cup {None}, StoreForwardZones(t) PROVE P
    BY <1>1, <1>3, Zenon DEF StoreForwardZones
<1>4. ASSUME NEW on \in BOOLEAN, StoreLocal(on) \/ StoreBlacklist(on) PROVE P
    BY <1>1, <1>4, Zenon DEF StoreLocal, StoreBlacklist
<1>5. ASSUME NEW on \in BOOLEAN, StoreAllowlist(on) \/ InstallBlocklist(on)
      PROVE  P
    BY <1>1, <1>5, Zenon DEF StoreAllowlist, InstallBlocklist
<1>6. ASSUME NEW secs \in Pauses, PauseFor(secs) PROVE P
    <2>1. pausedUntil' \in Nat
        BY <1>6 DEF PauseFor
    <2> QED BY <1>1, <1>6, <2>1, Zenon DEF PauseFor
<1>7. ASSUME Resume PROVE P
    BY <1>1, <1>7 DEF Resume
<1>8. ASSUME Tick PROVE P
    BY <1>8 DEF Tick, state
<1> QED BY <1>2, <1>3, <1>4, <1>5, <1>6, <1>7, <1>8, Zenon DEF Change

\* A stage keeps the types of the query.
LEMMA StageType ==
    ASSUME TypeOK, FlagIsLate, UnderWay => mode \in Modes, Stage
    PROVE  /\ pc' \in Stages
           /\ mode' \in Modes \cup {None}
           /\ bypass' \in BOOLEAN
           /\ outcome' \in Outcomes
           /\ seen' \in SUBSET Outcomes
<1> USE DEF TypeOK
<1>1. ASSUME NEW o \in Outcomes, pc # "idle", Reply(o)
      PROVE  /\ pc' \in Stages /\ mode' \in Modes \cup {None}
             /\ bypass' \in BOOLEAN /\ outcome' \in Outcomes
             /\ seen' \in SUBSET Outcomes
    BY <1>1, Zenon DEF Reply, Stages
<1>2. ASSUME NEW p \in Stages, pc # "idle", Continue(p), bypass' \in BOOLEAN
      PROVE  /\ pc' \in Stages /\ mode' \in Modes \cup {None}
             /\ bypass' \in BOOLEAN /\ outcome' \in Outcomes
             /\ seen' \in SUBSET Outcomes
    BY <1>2, Zenon DEF Continue
<1>3. CASE Begin
    BY <1>3, DecisionType DEF Begin, Stages
<1> DEFINE Named == {"local", "zones", "pause", "blacklist", "allowlist",
                     "blocklist"}
<1>4. Named \subseteq Stages /\ Stages \ {"idle"} = {"reverse", "done"} \cup Named
    BY DEF Stages
<1>5. CASE ReverseStage \/ LocalStage \/ ZonesStage \/ PauseGate
    <2>1. pc # "idle"
        BY <1>5 DEF ReverseStage, LocalStage, ZonesStage, PauseGate
    <2>2. (\E o \in Outcomes : Reply(o))
             \/ \E p \in Stages : Continue(p) /\ bypass' = bypass
        BY <1>4, <1>5, OutcomeShapes, Zenon
           DEF ReverseStage, LocalStage, ZonesStage, PauseGate
    <2> QED BY <1>1, <1>2, <2>1, <2>2
<1>6. CASE BlacklistStage \/ AllowlistStage \/ BlocklistStage
    <2>1. pc # "idle" /\ UnderWay
        BY <1>6 DEF BlacklistStage, AllowlistStage, BlocklistStage, UnderWay
    <2>2. bypass' = bypass \/ bypass' = (bypass \/ allowlist)
        BY <1>6, Zenon DEF BlacklistStage, AllowlistStage, BlocklistStage, Reply
    <2>3. (\E o \in Outcomes : Reply(o)) \/ \E p \in Stages : Continue(p)
        BY <1>4, <1>6, <2>1, OutcomeShapes, Zenon
           DEF BlacklistStage, AllowlistStage, BlocklistStage
    <2> QED BY <1>1, <1>2, <2>1, <2>2, <2>3
<1> QED BY <1>3, <1>5, <1>6 DEF Stage

\* Every step keeps the types.
LEMMA NextType == IInv /\ [Next]_vars => TypeOK'
<1> SUFFICES ASSUME IInv, [Next]_vars PROVE TypeOK'
    OBVIOUS
<1> USE DEF IInv
<1>1. CASE UNCHANGED vars
    BY <1>1 DEF vars, state, queryVars, TypeOK
<1>2. CASE Stage
    <2>1. UnderWay => mode \in Modes
        BY DEF LetThrough
    <2> QED BY <1>2, <2>1, StageType, StageKeeps DEF TypeOK, state
<1>3. CASE Change
    <2>1. UNCHANGED queryVars /\ Witness
        BY <1>3, ChangeKeeps
    <2>2. Decision' \in Outcomes
        <3>1. zone' \in Targets \cup {None} /\ blockMode' \in Modes
            BY <1>3, ChangeType
        <3> QED BY <3>1, OutcomeShapes, Zenon DEF Decision
    <2>3. seen' \in SUBSET Outcomes /\ overlaps' \in Nat
        BY <2>1, <2>2 DEF Witness, TypeOK
    <2> QED BY <1>3, <2>1, <2>3, ChangeType DEF TypeOK, queryVars
<1> QED BY <1>1, <1>2, <1>3 DEF Next
-----------------------------------------------------------------------------
(* One change.                                                             *)

\* As long as everything read still holds, the query is heading for what the
\* state calls for.
LEMMA PendingIsDecision ==
    UnderWay /\ FlagIsLate /\ ReadsHold => Pending = Decision
<1> SUFFICES ASSUME UnderWay, FlagIsLate, ReadsHold PROVE Pending = Decision
    OBVIOUS
<1>1. PastLocal => PastReverse
    BY DEF PastLocal, PastReverse
<1>2. PastZones => PastLocal
    BY DEF PastLocal
<1>3. PastPause => PastZones
    BY DEF PastZones
<1>4. PastBlacklist => PastPause
    BY DEF PastPause
<1>5. PastAllowlist => PastBlacklist
    BY DEF PastBlacklist
<1>6. bypass => PastAllowlist
    BY DEF FlagIsLate, UnderWay
<1>7. CASE OwnsAddress \/ HasRecords
    BY <1>1, <1>2, <1>3, <1>4, <1>5, <1>6, <1>7
       DEF Pending, Decision, ReadsHold, OwnsAddress, HasRecords
<1>8. CASE ~OwnsAddress /\ ~HasRecords
    BY <1>1, <1>2, <1>3, <1>4, <1>5, <1>6, <1>8 DEF Pending, Decision, ReadsHold
<1> QED BY <1>7, <1>8

\* A stage that lets the query through leaves it heading for the same answer;
\* one that answers gives that answer.
LEMMA StagePending ==
    ASSUME TypeOK, FlagIsLate, UnderWay, Stage
    PROVE  /\ UnderWay' => Pending' = Pending
           /\ ~UnderWay' => outcome' = Pending
<1>1. /\ zone' = zone /\ mode' = mode /\ question' = question
      /\ blacklist' = blacklist /\ allowlist' = allowlist
      /\ blocklist' = blocklist /\ local' = local
      /\ pausedUntil' = pausedUntil /\ now' = now
    BY StageKeeps DEF state, UnderWay
<1>2. /\ OwnsAddress' <=> OwnsAddress
      /\ HasRecords' <=> HasRecords
      /\ BlockingPaused' <=> BlockingPaused
    BY <1>1 DEF OwnsAddress, HasRecords, BlockingPaused
<1> USE DEF PastReverse, PastLocal, PastZones, PastPause, PastBlacklist,
            PastAllowlist, Continue, Reply, Pending, UnderWay
<1>3. CASE ReverseStage
    BY <1>1, <1>2, <1>3 DEF ReverseStage
<1>4. CASE LocalStage
    BY <1>1, <1>2, <1>4 DEF LocalStage
<1>5. CASE ZonesStage
    BY <1>1, <1>2, <1>5 DEF ZonesStage
<1>6. CASE PauseGate
    BY <1>1, <1>2, <1>6 DEF PauseGate
<1>7. CASE BlacklistStage
    BY <1>1, <1>2, <1>7 DEF BlacklistStage
<1>8. CASE AllowlistStage
    <2>1. pc = "allowlist" /\ pc' = "blocklist" /\ (bypass' <=> bypass \/ allowlist)
        BY <1>8 DEF AllowlistStage
    <2> QED BY <1>1, <1>2, <2>1
<1>9. CASE BlocklistStage
    BY <1>1, <1>2, <1>9 DEF BlocklistStage
<1> QED BY <1>3, <1>4, <1>5, <1>6, <1>7, <1>8, <1>9 DEF Stage, Begin

\* A stage that lets the query through has read the state as it is.
LEMMA StageReads ==
    ASSUME TypeOK, FlagIsLate, UnderWay, Stage, UnderWay', ReadsHold
    PROVE  ReadsHold'
<1>1. /\ zone' = zone /\ mode' = mode /\ question' = question
      /\ blacklist' = blacklist /\ allowlist' = allowlist
      /\ local' = local /\ blockMode' = blockMode
      /\ pausedUntil' = pausedUntil /\ now' = now
    BY StageKeeps DEF state, UnderWay
<1>2. /\ OwnsAddress' <=> OwnsAddress
      /\ HasRecords' <=> HasRecords
      /\ BlockingPaused' <=> BlockingPaused
    BY <1>1 DEF OwnsAddress, HasRecords, BlockingPaused
<1> USE DEF PastReverse, PastLocal, PastZones, PastPause, PastBlacklist,
            PastAllowlist, Continue, Reply, ReadsHold, UnderWay
<1>3. CASE ReverseStage
    BY <1>1, <1>2, <1>3 DEF ReverseStage
<1>4. CASE LocalStage
    BY <1>1, <1>2, <1>4 DEF LocalStage
<1>5. CASE ZonesStage
    BY <1>1, <1>2, <1>5 DEF ZonesStage
<1>6. CASE PauseGate
    BY <1>1, <1>2, <1>6 DEF PauseGate
<1>7. CASE BlacklistStage
    BY <1>1, <1>2, <1>7 DEF BlacklistStage
<1>8. CASE AllowlistStage
    <2>1. /\ pc = "allowlist" /\ pc' = "blocklist"
          /\ bypass' <=> bypass \/ allowlist
          /\ ~bypass
        BY <1>8 DEF AllowlistStage, FlagIsLate
    <2> QED BY <1>1, <1>2, <2>1
<1>9. CASE BlocklistStage
    BY <1>9 DEF BlocklistStage
<1> QED BY <1>3, <1>4, <1>5, <1>6, <1>7, <1>8, <1>9 DEF Stage, Begin

\* The first change finds the changed component ahead of the query, which then
\* has read the new state so far, or behind it, and the query goes on as before.
LEMMA ChangePending ==
    ASSUME TypeOK, FlagIsLate, UnderWay, Change, ReadsHold
    PROVE  ReadsHold' \/ Pending' = Pending
<1>1. pc' = pc /\ question' = question /\ mode' = mode /\ bypass' = bypass
    BY ChangeKeeps DEF queryVars
<1> USE <1>1 DEF PastReverse, PastLocal, PastZones, PastPause, PastBlacklist,
            PastAllowlist, UnderWay
<1>2. ASSUME NEW m \in Modes, SetBlockMode(m) PROVE Pending' = Pending
    BY <1>2 DEF SetBlockMode, Swap, Pending, OwnsAddress, HasRecords,
                BlockingPaused
<1>3. ASSUME NEW on \in BOOLEAN, StoreLocal(on)
      PROVE  ReadsHold' \/ Pending' = Pending
    <2>1. /\ BlockingPaused' <=> BlockingPaused
          /\ question.reverse => ~HasRecords /\ ~HasRecords'
          /\ ~question.reverse => ~OwnsAddress /\ ~OwnsAddress'
        BY <1>3 DEF StoreLocal, Swap, BlockingPaused, OwnsAddress, HasRecords
    <2>2. CASE PastLocal
        BY <1>3, <2>1, <2>2 DEF StoreLocal, Swap, Pending
    <2>3. CASE pc = "local"
        BY <1>3, <2>1, <2>3 DEF StoreLocal, Swap, Pending, ReadsHold
    <2>4. CASE pc = "reverse"
        BY <1>3, <2>1, <2>4 DEF StoreLocal, Swap, ReadsHold
    <2> QED BY <2>2, <2>3, <2>4 DEF TypeOK, Stages
<1>4. ASSUME NEW t \in Targets \cup {None}, StoreForwardZones(t)
      PROVE  ReadsHold' \/ Pending' = Pending
    BY <1>4 DEF StoreForwardZones, Swap, Pending, ReadsHold, OwnsAddress,
                HasRecords, BlockingPaused
<1>5. ASSUME NEW on \in BOOLEAN, StoreBlacklist(on)
      PROVE  ReadsHold' \/ Pending' = Pending
    BY <1>5 DEF StoreBlacklist, Swap, Pending, ReadsHold, OwnsAddress,
                HasRecords, BlockingPaused
<1>6. ASSUME NEW on \in BOOLEAN, StoreAllowlist(on)
      PROVE  ReadsHold' \/ Pending' = Pending
    BY <1>6 DEF StoreAllowlist, Swap, Pending, ReadsHold, OwnsAddress,
                HasRecords, BlockingPaused
<1>7. ASSUME NEW on \in BOOLEAN, InstallBlocklist(on) PROVE ReadsHold'
    BY <1>7 DEF InstallBlocklist, Swap, ReadsHold, OwnsAddress, HasRecords,
                BlockingPaused
<1>8. ASSUME Resume \/ Tick \/ \E secs \in Pauses : PauseFor(secs)
      PROVE  ReadsHold' \/ Pending' = Pending
    <2>1. /\ zone' = zone /\ blacklist' = blacklist /\ allowlist' = allowlist
          /\ blocklist' = blocklist /\ blockMode' = blockMode
          /\ local' = local
        BY <1>8 DEF Resume, Tick, PauseFor, state
    <2>2. (OwnsAddress' <=> OwnsAddress) /\ (HasRecords' <=> HasRecords)
        BY <2>1 DEF OwnsAddress, HasRecords
    <2>3. CASE PastPause
        BY <2>1, <2>2, <2>3 DEF Pending
    <2>4. CASE ~PastPause
        BY <2>1, <2>2, <2>4 DEF ReadsHold
    <2> QED BY <2>3, <2>4
<1> QED BY <1>2, <1>3, <1>4, <1>5, <1>6, <1>7, <1>8 DEF Change

\* At the start nothing has been read.
LEMMA BeginReads ==
    ASSUME FlagIsLate, Begin
    PROVE  ReadsHold' /\ UnderWay' /\ FlagIsLate' /\ Decision' = Decision
BY DEF Begin, ReadsHold, UnderWay, FlagIsLate, PastReverse, PastLocal, PastZones,
       PastPause, PastBlacklist, PastAllowlist, Decision, OwnsAddress,
       HasRecords, BlockingPaused, state

\* The part of the invariant about queries that meet at most one change.
LEMMA OneChangeStep ==
    ASSUME IInv, [Next]_vars
    PROVE  OneChange' /\ DecisionIsAtomic'
<1> USE DEF IInv
<1>1. CASE UNCHANGED vars
    BY <1>1 DEF vars, state, queryVars, OneChange, DecisionIsAtomic, UnderWay,
                ReadsHold, Pending, PastReverse, PastLocal, PastZones,
                PastPause, PastBlacklist, PastAllowlist, OwnsAddress,
                HasRecords, BlockingPaused
<1>2. CASE Begin
    <2>1. ReadsHold' /\ UnderWay' /\ FlagIsLate' /\ Decision' = Decision
        BY <1>2, BeginReads DEF Begin
    <2>2. Pending' = Decision'
        <3>1. (UnderWay /\ FlagIsLate /\ ReadsHold => Pending = Decision)'
            BY PendingIsDecision, PTL
        <3> QED BY <2>1, <3>1
    <2>3. seen' = {Decision}
        BY <1>2 DEF Begin
    <2> QED BY <2>1, <2>2, <2>3 DEF OneChange, DecisionIsAtomic, UnderWay
<1>3. CASE Stage /\ UnderWay
    <2>1. seen' = seen /\ overlaps' = overlaps
        BY <1>3, StageKeeps DEF UnderWay
    <2>2. CASE UnderWay'
        <3>1. Pending' = Pending
            BY <1>3, <2>2, StagePending
        <3>2. ReadsHold => ReadsHold'
            BY <1>3, <2>2, StageReads
        <3> QED BY <1>3, <2>1, <2>2, <3>1, <3>2
                DEF OneChange, DecisionIsAtomic, UnderWay
    <2>3. CASE ~UnderWay'
        <3>1. outcome' = Pending
            BY <1>3, <2>3, StagePending
        <3> QED BY <1>3, <2>1, <2>3, <3>1 DEF OneChange, DecisionIsAtomic
    <2> QED BY <2>2, <2>3
<1>4. CASE Change
    <2>1. UNCHANGED queryVars /\ Witness
        BY <1>4, ChangeKeeps
    <2>2. CASE ~UnderWay
        <3>1. pc' = pc /\ outcome' = outcome /\ seen' = seen
              /\ overlaps' = overlaps
            BY <2>1, <2>2 DEF Witness, UnderWay, queryVars
        <3> QED BY <2>2, <3>1 DEF OneChange, DecisionIsAtomic, UnderWay
    <2>3. CASE UnderWay
        <3>1. /\ seen' = seen \cup {Decision'} /\ overlaps' = overlaps + 1
              /\ UnderWay'
            BY <2>1, <2>3 DEF Witness, UnderWay, queryVars
        <3>2. FlagIsLate'
            BY <2>1 DEF FlagIsLate, queryVars, PastAllowlist
        <3>3. ASSUME overlaps' <= 1 PROVE Pending' \in seen'
            <4>1. overlaps = 0
                BY <3>1, <3>3 DEF TypeOK
            <4>2. ReadsHold /\ Pending \in seen
                BY <2>3, <4>1 DEF OneChange
            <4>3. CASE Pending' = Pending
                BY <3>1, <4>2, <4>3
            <4>4. CASE ReadsHold'
                <5>1. (UnderWay /\ FlagIsLate /\ ReadsHold => Pending = Decision)'
                    BY PendingIsDecision, PTL
                <5> QED BY <3>1, <3>2, <4>4, <5>1
            <4> QED BY <1>4, <2>3, <4>2, <4>3, <4>4, ChangePending
        <3>4. overlaps' # 0
            BY <3>1 DEF TypeOK
        <3> QED BY <3>1, <3>3, <3>4 DEF OneChange, DecisionIsAtomic, UnderWay
    <2> QED BY <2>2, <2>3
<1> QED BY <1>1, <1>2, <1>3, <1>4 DEF Next, Stage, Begin, ReverseStage,
           LocalStage, ZonesStage, PauseGate, BlacklistStage, AllowlistStage,
           BlocklistStage, UnderWay
-----------------------------------------------------------------------------
(* Any number of changes.                                                  *)

\* The flag is raised on the way to the blocklist stage and kept.
LEMMA FlagStep ==
    ASSUME FlagIsLate, [Next]_vars
    PROVE  FlagIsLate'
<1>1. CASE UNCHANGED vars
    BY <1>1 DEF vars, queryVars, FlagIsLate, PastAllowlist
<1>2. CASE Change
    BY <1>2, ChangeKeeps DEF queryVars, FlagIsLate, PastAllowlist
<1>3. CASE Stage
    BY <1>3 DEF Stage, Begin, ReverseStage, LocalStage, ZonesStage, PauseGate,
                BlacklistStage, AllowlistStage, BlocklistStage, Continue,
                Reply, FlagIsLate, PastAllowlist
<1> QED BY <1>1, <1>2, <1>3 DEF Next

\* What a decision says of the stage that did not take the query.
LEMMA DecisionSays ==
    ASSUME TypeOK
    PROVE  /\ ~OwnsAddress /\ ~HasRecords
                => Decision.kind \notin {"Local", "LocalNoData"}
           /\ zone = None => Decision.target = None
           /\ ~blacklist => Decision.kind # "BlockedByAdmin"
           /\ allowlist => Decision.kind # "BlockedByBlocklist"
           /\ Decision.mode \in {None, blockMode}
BY DEF Decision, Answer, Block, Inner, OwnsAddress, HasRecords

\* History only grows while a query is under way.
LEMMA SeenGrows ==
    ASSUME UnderWay, [Next]_vars
    PROVE  seen \subseteq seen' /\ mode' = mode /\ question' = question
<1>1. CASE UNCHANGED vars
    BY <1>1 DEF vars, queryVars
<1>2. CASE Stage
    BY <1>2, StageKeeps DEF UnderWay
<1>3. CASE Change
    BY <1>3, ChangeKeeps DEF Witness, UnderWay, queryVars
<1> QED BY <1>1, <1>2, <1>3 DEF Next

\* A stage that lets the query through leaves a witness in the history.
LEMMA LetThroughStep ==
    ASSUME IInv, [Next]_vars
    PROVE  LetThrough'
<1> USE DEF IInv
<1>1. CASE UNCHANGED vars
    BY <1>1 DEF vars, state, queryVars, LetThrough, UnderWay, Decision,
                PastReverse, PastLocal, PastZones, PastPause, PastBlacklist,
                PastAllowlist, OwnsAddress, HasRecords, BlockingPaused
<1>2. CASE Begin
    <2>1. UnderWay' /\ Decision' = Decision /\ seen' = {Decision}
          /\ mode' = blockMode /\ pc' = "reverse"
        BY <1>2, BeginReads DEF Begin
    <2> QED BY <2>1, DecisionSays DEF LetThrough, TypeOK, PastReverse,
               PastLocal, PastZones, PastPause, PastBlacklist, PastAllowlist
<1>3. CASE ~UnderWay /\ ~Begin /\ Next
    <2>1. ~UnderWay'
        BY <1>3, ChangeKeeps DEF Next, Stage, ReverseStage, LocalStage,
           ZonesStage, PauseGate, BlacklistStage, AllowlistStage,
           BlocklistStage, UnderWay, queryVars
    <2> QED BY <2>1 DEF LetThrough, UnderWay, PastReverse, PastLocal,
               PastZones, PastPause, PastBlacklist, PastAllowlist
<1>4. CASE UnderWay /\ Next
    <2>1. seen \subseteq seen' /\ mode' = mode /\ question' = question
        BY <1>4, SeenGrows
    <2>2. Decision \in seen /\ mode \in Modes
          /\ \E o \in seen : o.mode \in {None, mode}
        BY <1>4 DEF LetThrough
    <2>3. Decision' \in seen'
        <3>1. CASE Stage
            BY <2>1, <2>2, <3>1, StageKeeps DEF state, Decision, OwnsAddress,
               HasRecords, BlockingPaused
        <3>2. CASE Change
            BY <1>4, <3>2, ChangeKeeps DEF Witness, UnderWay
        <3> QED BY <1>4, <3>1, <3>2 DEF Next
    <2>4. CASE Change
        <3>1. pc' = pc /\ bypass' = bypass
            BY <2>4, ChangeKeeps DEF queryVars
        <3> QED BY <1>4, <2>1, <2>2, <2>3, <3>1 DEF LetThrough, UnderWay,
                PastReverse, PastLocal, PastZones, PastPause, PastBlacklist,
                PastAllowlist
    <2>5. CASE Stage /\ ~UnderWay'
        BY <2>5 DEF LetThrough, UnderWay, PastReverse, PastLocal,
               PastZones, PastPause, PastBlacklist, PastAllowlist
    <2> USE DEF LetThrough, UnderWay, PastReverse, PastLocal, PastZones,
                PastPause, PastBlacklist, PastAllowlist, Continue, Reply
    <2>6. CASE ReverseStage /\ UnderWay'
        <3>1. pc' = "local" /\ ~OwnsAddress
            BY <2>6 DEF ReverseStage
        <3>2. question.reverse => ~HasRecords
            BY DEF HasRecords
        <3> QED BY <2>1, <2>2, <2>3, <3>1, <3>2, DecisionSays
    <2>7. CASE LocalStage /\ UnderWay'
        <3>1. pc = "local" /\ pc' = "zones" /\ ~HasRecords
            BY <2>7 DEF LocalStage
        <3>2. ~question.reverse => ~OwnsAddress
            BY DEF OwnsAddress
        <3> QED BY <2>1, <2>2, <2>3, <3>1, <3>2, DecisionSays
    <2>8. CASE ZonesStage /\ UnderWay'
        <3>1. pc = "zones" /\ pc' = "pause" /\ zone = None
            BY <2>8 DEF ZonesStage
        <3> QED BY <2>1, <2>2, <2>3, <3>1, DecisionSays
    <2>9. CASE PauseGate /\ UnderWay'
        <3>1. pc = "pause" /\ pc' = "blacklist"
            BY <2>9 DEF PauseGate
        <3> QED BY <2>1, <2>2, <2>3, <3>1
    <2>10. CASE BlacklistStage /\ UnderWay'
        <3>1. pc = "blacklist" /\ pc' = "allowlist" /\ ~blacklist
            BY <2>10 DEF BlacklistStage
        <3> QED BY <2>1, <2>2, <2>3, <3>1, DecisionSays
    <2>11. CASE AllowlistStage /\ UnderWay'
        <3>1. pc = "allowlist" /\ pc' = "blocklist"
              /\ (bypass' => bypass \/ allowlist) /\ ~bypass
            BY <2>11 DEF AllowlistStage, FlagIsLate
        <3> QED BY <2>1, <2>2, <2>3, <3>1, DecisionSays
    <2> QED BY <1>4, <2>4, <2>5, <2>6, <2>7, <2>8, <2>9, <2>10, <2>11
            DEF Next, Stage, Begin, BlocklistStage
<1> QED BY <1>1, <1>2, <1>3, <1>4 DEF Next

\* A query is answered as every state called for, if they agree on more than
\* passing it on.
LEMMA StandingStep ==
    ASSUME IInv, [Next]_vars
    PROVE  StandingDecisionHolds'
<1> USE DEF IInv
<1> SUFFICES ASSUME NEW o \in Outcomes, pc' = "done", seen' = {o}, o # Inner(None)
             PROVE  outcome' = o
    BY DEF StandingDecisionHolds
<1>1. CASE ~UnderWay
    <2>1. pc # "idle"
        BY ChangeKeeps DEF Next, Stage, Begin, ReverseStage, LocalStage,
           ZonesStage, PauseGate, BlacklistStage, AllowlistStage,
           BlocklistStage, queryVars, vars
    <2>2. pc = "done" /\ ~Stage
        BY <1>1, <2>1 DEF UnderWay, Stage, Begin, ReverseStage, LocalStage,
           ZonesStage, PauseGate, BlacklistStage, AllowlistStage, BlocklistStage
    <2>3. outcome' = outcome /\ seen' = seen
        BY <2>2, ChangeKeeps DEF Next, Witness, queryVars, vars
    <2> QED BY <2>2, <2>3 DEF StandingDecisionHolds
<1>2. CASE UnderWay
    <2>1. Stage /\ seen = {o}
        <3>1. Stage
            BY <1>2, ChangeKeeps DEF Next, UnderWay, queryVars, vars
        <3> QED BY <1>2, <3>1, StageKeeps DEF UnderWay
    <2>2. Decision = o /\ o.mode \in {None, mode} /\ blockMode # None
        BY <1>2, <2>1 DEF LetThrough, TypeOK
    <2>3. PastLocal => o.kind \notin {"Local", "LocalNoData"}
        BY <2>1 DEF LetThrough
    <2>4. PastZones => o.target = None
        BY <2>1 DEF LetThrough
    <2>5. PastBlacklist => o.kind # "BlockedByAdmin"
        BY <2>1 DEF LetThrough
    <2>6. PastAllowlist /\ bypass => o.kind # "BlockedByBlocklist"
        BY <2>1 DEF LetThrough
    <2>7. /\ o.kind = "Inner" => o = Inner(o.target)
          /\ o.kind \in {"Inner", "Local", "LocalNoData", "BlockedByAdmin",
                         "BlockedByBlocklist"}
        BY DEF Outcomes, Inner, Answer, Block
    <2> USE DEF Reply, Continue, PastLocal, PastZones, PastPause,
                PastBlacklist, PastAllowlist
    <2>8. CASE ReverseStage
        BY <2>2, <2>8 DEF ReverseStage, Decision
    <2>9. CASE LocalStage
        <3>1. HasRecords /\ ~OwnsAddress
            BY <2>9 DEF LocalStage, HasRecords, OwnsAddress
        <3> QED BY <2>2, <2>9, <3>1 DEF LocalStage, Decision
    <2>10. CASE ZonesStage
        <3>1. zone # None /\ outcome' = Inner(zone) /\ pc = "zones"
            BY <2>10 DEF ZonesStage
        <3>2. ~OwnsAddress /\ ~HasRecords
            BY <2>2, <2>3, <3>1 DEF Decision, Answer
        <3> QED BY <2>2, <3>1, <3>2 DEF Decision
    <2>11. CASE PauseGate
        <3>1. BlockingPaused /\ pc = "pause"
            BY <2>11 DEF PauseGate
        <3> QED BY <2>2, <2>3, <2>4, <3>1 DEF Decision, Answer, Inner
    <2>12. CASE BlacklistStage
        <3>1. blacklist /\ pc = "blacklist"
              /\ outcome' = Block("BlockedByAdmin", mode)
            BY <2>12 DEF BlacklistStage
        <3> QED BY <2>2, <2>3, <2>4, <3>1 DEF Decision, Answer, Inner, Block
    <2>13. CASE BlocklistStage
        <3>1. pc = "blocklist"
            BY <2>13 DEF BlocklistStage
        <3>2. o.kind = "BlockedByBlocklist"
            BY <2>3, <2>4, <2>5, <2>7, <3>1
        <3>3. ~bypass /\ blocklist
            BY <2>2, <2>6, <3>1, <3>2 DEF Decision, Answer, Inner, Block
        <3>4. outcome' = Block("BlockedByBlocklist", mode)
            BY <2>13, <3>3 DEF BlocklistStage
        <3> QED BY <2>2, <3>2, <3>4 DEF Decision, Answer, Inner, Block
    <2> QED BY <1>2, <2>1, <2>8, <2>9, <2>10, <2>11, <2>12, <2>13
            DEF Stage, Begin, AllowlistStage, UnderWay
<1> QED BY <1>1, <1>2

-----------------------------------------------------------------------------
(* The theorems.                                                           *)

\* The inductive invariant holds in every reachable state.
THEOREM Invariance == Spec => []IInv
<1>1. Init => IInv
    <2> SUFFICES ASSUME Init PROVE IInv
        OBVIOUS
    <2>1. TypeOK
        BY OutcomeShapes DEF Init, TypeOK, Stages
    <2>2. pc = "idle" /\ ~bypass
        BY DEF Init
    <2> QED BY <2>1, <2>2 DEF IInv, FlagIsLate, OneChange, LetThrough,
               DecisionIsAtomic, StandingDecisionHolds, UnderWay, PastReverse,
               PastLocal, PastZones, PastPause, PastBlacklist, PastAllowlist
<1>2. IInv /\ [Next]_vars => IInv'
    <2> SUFFICES ASSUME IInv, [Next]_vars PROVE IInv'
        OBVIOUS
    <2>1. FlagIsLate'
        BY FlagStep DEF IInv
    <2> QED BY <2>1, NextType, OneChangeStep, LetThroughStep, StandingStep
            DEF IInv
<1> QED BY <1>1, <1>2, PTL DEF Spec

\* Every variable keeps its type.
THEOREM Typing == Spec => []TypeOK
<1>1. IInv => TypeOK
    BY DEF IInv
<1> QED BY <1>1, Invariance, PTL

\* A query that meets at most one change is decided by one state.
THEOREM AtomicDecision == Spec => []DecisionIsAtomic
<1>1. IInv => DecisionIsAtomic
    BY DEF IInv
<1> QED BY <1>1, Invariance, PTL

\* A query is answered as every state since its start called for.
THEOREM StandingDecision == Spec => []StandingDecisionHolds
<1>1. IInv => StandingDecisionHolds
    BY DEF IInv
<1> QED BY <1>1, Invariance, PTL

-----------------------------------------------------------------------------
(* The admin lists.                                                        *)

USE ListsAssumption DEF Kinds

\* What an idle slot holds is a request.
LEMMA NoRequestType == NoRequest \in Requests
<1>1. (CHOOSE d \in Domains : TRUE) \in Domains
    OBVIOUS
<1> QED BY <1>1 DEF NoRequest, Requests

\* Entering keeps the types.
LEMMA EnterType ==
    ASSUME ListsTypeOK, NEW h \in Handlers, NEW r \in Requests, Enter(h, r)
    PROVE  ListsTypeOK'
<1>1. alone' \in [Handlers -> BOOLEAN]
    <2>1. \A g \in Handlers : (alone[g] /\ g \notin Of(r.kind)) \in BOOLEAN
        OBVIOUS
    <2> QED BY <2>1, Zenon DEF Enter
<1> QED BY <1>1 DEF Enter, ListsTypeOK

\* Leaving keeps the types of the slot.
LEMMA LeaveType ==
    ASSUME ListsTypeOK, NEW h \in Handlers, Leave(h)
    PROVE  /\ step' \in [Handlers -> {"idle", "write", "load", "store"}]
           /\ req' \in [Handlers -> Requests]
           /\ loaded' \in [Handlers -> SUBSET Domains]
           /\ alone' \in [Handlers -> BOOLEAN]
BY NoRequestType DEF Leave, ListsTypeOK

\* Both ways into a handler are requests.
LEMMA Entries ==
    ASSUME NEW h \in Handlers, NEW d \in Domains
    PROVE  /\ Unblock(h, d) => \E r \in Requests : Enter(h, r)
           /\ \A k \in Kinds, o \in {"add", "remove"} :
                 Edit(h, k, o, d) => \E r \in Requests : Enter(h, r)
BY DEF Unblock, Edit, Requests

\* ListsNext, with the two ways into a handler taken together.
LEMMA ListsNextCases ==
    ASSUME ListsNext, NEW P, Restart => P,
           \A h \in Handlers, r \in Requests : Enter(h, r) => P,
           \A h \in Handlers : Write(h) => P,
           \A h \in Handlers : LoadAll(h) => P,
           \A h \in Handlers : Store(h) => P,
           \A h \in Handlers : Fail(h) => P
    PROVE  P
BY Entries, Zenon DEF ListsNext

\* Every step keeps the types.
LEMMA ListsNextType == ListsTypeOK /\ [ListsNext]_listVars => ListsTypeOK'
<1> SUFFICES ASSUME ListsTypeOK, [ListsNext]_listVars PROVE ListsTypeOK'
    OBVIOUS
<1>1. ASSUME UNCHANGED listVars PROVE ListsTypeOK'
    BY <1>1 DEF listVars, ListsTypeOK
<1>2. ASSUME Restart PROVE ListsTypeOK'
    BY <1>2, NoRequestType DEF Restart, ListsTypeOK, NoWriter
<1>3. ASSUME NEW h \in Handlers, NEW r \in Requests, Enter(h, r) PROVE ListsTypeOK'
    BY <1>3, EnterType
<1>4. ASSUME NEW h \in Handlers, Write(h) PROVE ListsTypeOK'
    <2>1. req[h] \in Requests
        BY DEF ListsTypeOK
    <2>2. db' \in [Kinds -> SUBSET Domains]
        BY <1>4, <2>1 DEF Write, Apply, ListsTypeOK, Requests
    <2>3. writer' \in [Kinds -> [Domains -> SUBSET Handlers]]
        BY <1>4, <2>1 DEF Write, ListsTypeOK, Requests
    <2> QED BY <1>4, <2>2, <2>3 DEF Write, ListsTypeOK
<1>5. ASSUME NEW h \in Handlers, LoadAll(h) PROVE ListsTypeOK'
    <2>1. db[req[h].kind] \in SUBSET Domains
        BY DEF ListsTypeOK, Requests
    <2> QED BY <1>5, <2>1 DEF LoadAll, ListsTypeOK
<1>6. ASSUME NEW h \in Handlers, Store(h) PROVE ListsTypeOK'
    <2>1. req[h].kind \in Kinds /\ loaded[h] \in SUBSET Domains
        BY DEF ListsTypeOK, Requests
    <2> QED BY <1>6, <2>1, LeaveType DEF Store, ListsTypeOK
<1>7. ASSUME NEW h \in Handlers, Fail(h) PROVE ListsTypeOK'
    <2>1. req[h].kind \in Kinds
        BY DEF ListsTypeOK, Requests
    <2>2. disturbed' = disturbed \/ disturbed' = disturbed \cup {req[h].kind}
        BY <1>7, Zenon DEF Fail
    <2>3. disturbed' \in SUBSET Kinds
        BY <2>1, <2>2 DEF ListsTypeOK
    <2>4. Leave(h) /\ faults' = faults + 1
          /\ UNCHANGED <<db, mem, writer, edits, restarts>>
        BY <1>7 DEF Fail
    <2>5. /\ step' \in [Handlers -> {"idle", "write", "load", "store"}]
          /\ req' \in [Handlers -> Requests]
          /\ loaded' \in [Handlers -> SUBSET Domains]
          /\ alone' \in [Handlers -> BOOLEAN]
        BY <2>4, LeaveType
    <2> QED BY <2>3, <2>4, <2>5 DEF ListsTypeOK
<1>8. ASSUME ListsNext PROVE ListsTypeOK'
    BY ONLY <1>8, ListsNextCases, <1>2, <1>3, <1>4, <1>5, <1>6, <1>7
<1> QED BY <1>1, <1>8

\* Every variable keeps its type.
THEOREM ListsTyping == ListsSpec => []ListsTypeOK
<1>1. ListsInit => ListsTypeOK
    BY NoRequestType DEF ListsInit, AllIdle, NoWriter, ListsTypeOK
<1> QED BY <1>1, ListsNextType, PTL DEF ListsSpec
-----------------------------------------------------------------------------
(* The parts of the inductive invariant, one step lemma each.              *)

\* A slot that leaves is not one of any list, and the others stay.
LEMMA LeaveOf ==
    ASSUME ListsTypeOK, NEW h \in Handlers, Leave(h), NEW k \in Kinds
    PROVE  Of(k)' = Of(k) \ {h}
BY DEF Of, Leave, ListsTypeOK

\* A handler that entered before another of its list is no longer alone.
LEMMA AloneStep ==
    ASSUME ListsTypeOK, AloneIsAlone, [ListsNext]_listVars
    PROVE  AloneIsAlone'
<1>1. ASSUME UNCHANGED listVars PROVE AloneIsAlone'
    BY <1>1 DEF listVars, AloneIsAlone, Of
<1>2. ASSUME Restart PROVE AloneIsAlone'
    BY <1>2 DEF Restart, AloneIsAlone
<1>3. ASSUME NEW h \in Handlers, NEW r \in Requests, Enter(h, r)
      PROVE  AloneIsAlone'
    <2> SUFFICES ASSUME NEW g \in Handlers, step'[g] # "idle", alone'[g]
                 PROVE  Of(req[g].kind)' = {g}
        BY DEF AloneIsAlone
    <2>1. /\ step[h] = "idle" /\ step'[h] # "idle" /\ req'[h] = r
          /\ \A f \in Handlers \ {h} : step'[f] = step[f] /\ req'[f] = req[f]
        BY <1>3 DEF Enter, ListsTypeOK
    <2>2. CASE g = h
        <3>1. Of(r.kind) = {}
            BY <1>3, <2>2, Zenon DEF Enter
        <3> QED BY <2>1, <2>2, <3>1 DEF Of
    <2>3. CASE g # h
        <3>1. alone[g] /\ g \notin Of(r.kind)
            BY <1>3, <2>3, Zenon DEF Enter
        <3>2. Of(req[g].kind) = {g}
            BY <2>1, <2>3, <3>1 DEF AloneIsAlone
        <3> QED BY <2>1, <2>3, <3>1, <3>2 DEF Of
    <2> QED BY <2>2, <2>3
<1>4. ASSUME NEW h \in Handlers, Write(h) \/ LoadAll(h) PROVE AloneIsAlone'
    <2>1. /\ step[h] # "idle" /\ step'[h] # "idle"
          /\ \A f \in Handlers \ {h} : step'[f] = step[f]
          /\ req' = req /\ alone' = alone
        BY <1>4 DEF Write, LoadAll, ListsTypeOK
    <2> QED BY <2>1 DEF AloneIsAlone, Of
<1>5. ASSUME NEW h \in Handlers, Leave(h) PROVE AloneIsAlone'
    <2>1. /\ step'[h] = "idle"
          /\ \A f \in Handlers \ {h} :
                step'[f] = step[f] /\ req'[f] = req[f] /\ alone'[f] = alone[f]
        BY <1>5 DEF Leave, ListsTypeOK
    <2> QED BY <2>1 DEF AloneIsAlone, Of
<1>6. ASSUME ListsNext PROVE AloneIsAlone'
    <2>1. \A h \in Handlers : Store(h) \/ Fail(h) => Leave(h)
        BY DEF Store, Fail
    <2> QED BY ONLY <1>6, <2>1, ListsNextCases, <1>2, <1>3, <1>4, <1>5
<1> QED BY <1>1, <1>6

\* Only a handler of the same list could write behind a load.
LEMMA FreshStep ==
    ASSUME ListsTypeOK, AloneIsAlone, LoneLoadIsFresh, [ListsNext]_listVars
    PROVE  LoneLoadIsFresh'
<1>1. ASSUME UNCHANGED listVars PROVE LoneLoadIsFresh'
    BY <1>1 DEF listVars, LoneLoadIsFresh
<1>2. ASSUME Restart PROVE LoneLoadIsFresh'
    BY <1>2 DEF Restart, LoneLoadIsFresh
<1>3. ASSUME NEW h \in Handlers, NEW r \in Requests, Enter(h, r)
      PROVE  LoneLoadIsFresh'
    <2>1. /\ step'[h] = "write" /\ db' = db /\ loaded' = loaded
          /\ \A f \in Handlers \ {h} : step'[f] = step[f] /\ req'[f] = req[f]
        BY <1>3 DEF Enter, ListsTypeOK
    <2>2. \A f \in Handlers \ {h} : alone'[f] => alone[f]
        BY <1>3, Zenon DEF Enter
    <2> QED BY <2>1, <2>2 DEF LoneLoadIsFresh
<1>4. ASSUME NEW h \in Handlers, Write(h) PROVE LoneLoadIsFresh'
    <2> SUFFICES ASSUME NEW g \in Handlers, step'[g] = "store", alone'[g]
                 PROVE  loaded'[g] = db'[req'[g].kind]
        BY DEF LoneLoadIsFresh
    <2>1. g # h /\ step[g] = "store" /\ step[h] = "write"
        BY <1>4 DEF Write, ListsTypeOK
    <2>2. alone[g] /\ req' = req /\ loaded' = loaded
        BY <1>4 DEF Write
    <2>3. req[h].kind # req[g].kind
        <3>1. Of(req[g].kind) = {g}
            BY <2>1, <2>2 DEF AloneIsAlone
        <3> QED BY <2>1, <3>1 DEF Of
    <2>4. req[g].kind \in Kinds
        BY DEF ListsTypeOK, Requests
    <2>5. db'[req[g].kind] = db[req[g].kind]
        BY <1>4, <2>3, <2>4 DEF Write, ListsTypeOK
    <2> QED BY <2>1, <2>2, <2>5 DEF LoneLoadIsFresh
<1>5. ASSUME NEW h \in Handlers, LoadAll(h) PROVE LoneLoadIsFresh'
    <2>1. /\ loaded'[h] = db[req[h].kind]
          /\ db' = db /\ req' = req /\ alone' = alone
          /\ \A f \in Handlers \ {h} : step'[f] = step[f] /\ loaded'[f] = loaded[f]
        BY <1>5 DEF LoadAll, ListsTypeOK
    <2> QED BY <2>1 DEF LoneLoadIsFresh
<1>6. ASSUME NEW h \in Handlers, Leave(h), db' = db PROVE LoneLoadIsFresh'
    <2>1. /\ step'[h] = "idle"
          /\ \A f \in Handlers \ {h} : /\ step'[f] = step[f] /\ req'[f] = req[f]
                                       /\ alone'[f] = alone[f]
                                       /\ loaded'[f] = loaded[f]
        BY <1>6 DEF Leave, ListsTypeOK
    <2> QED BY <1>6, <2>1 DEF LoneLoadIsFresh
<1>7. ASSUME ListsNext PROVE LoneLoadIsFresh'
    <2>1. \A h \in Handlers : Store(h) \/ Fail(h) => Leave(h) /\ db' = db
        BY DEF Store, Fail
    <2> QED BY ONLY <1>7, <2>1, ListsNextCases, <1>2, <1>3, <1>4, <1>5, <1>6
<1> QED BY <1>1, <1>7

\* A list drifts from its table only behind a statement, and is marked
\* disturbed unless the same handler brings it back.
LEMMA MirrorStep ==
    ASSUME ListsTypeOK, AloneIsAlone, LoneLoadIsFresh, MirrorsUntilWritten,
           [ListsNext]_listVars
    PROVE  MirrorsUntilWritten'
<1>1. ASSUME UNCHANGED listVars PROVE MirrorsUntilWritten'
    BY <1>1 DEF listVars, MirrorsUntilWritten, Of
<1>2. ASSUME Restart PROVE MirrorsUntilWritten'
    BY <1>2 DEF Restart, MirrorsUntilWritten
<1>3. ASSUME NEW h \in Handlers, NEW r \in Requests, Enter(h, r)
      PROVE  MirrorsUntilWritten'
    <2>1. /\ step[h] = "idle" /\ db' = db /\ mem' = mem /\ disturbed' = disturbed
          /\ \A f \in Handlers \ {h} : step'[f] = step[f] /\ req'[f] = req[f]
        BY <1>3 DEF Enter, ListsTypeOK
    <2>2. \A k \in Kinds : (\A f \in Of(k)' : step'[f] = "write")
                            => (\A f \in Of(k) : step[f] = "write")
        BY <2>1 DEF Of
    <2> QED BY <2>1, <2>2 DEF MirrorsUntilWritten
<1>4. ASSUME NEW h \in Handlers, Write(h) \/ LoadAll(h)
      PROVE  MirrorsUntilWritten'
    <2> SUFFICES ASSUME NEW k \in Kinds \ disturbed,
                        \A f \in Of(k)' : step'[f] = "write"
                 PROVE  mem'[k] = db'[k]
        BY <1>4 DEF MirrorsUntilWritten, Write, LoadAll
    <2>1. /\ step'[h] \in {"load", "store"}
          /\ req' = req /\ mem' = mem
          /\ \A f \in Handlers \ {h} : step'[f] = step[f]
        BY <1>4 DEF Write, LoadAll, ListsTypeOK
    <2>2. req[h].kind # k
        BY <2>1 DEF Of
    <2>3. db'[k] = db[k]
        BY <1>4, <2>2 DEF Write, LoadAll, ListsTypeOK
    <2>4. \A f \in Of(k) : step[f] = "write"
        BY <2>1, <2>2 DEF Of
    <2> QED BY <2>1, <2>3, <2>4 DEF MirrorsUntilWritten
<1>5. ASSUME NEW h \in Handlers, Store(h) PROVE MirrorsUntilWritten'
    <2> SUFFICES ASSUME NEW k \in Kinds \ disturbed',
                        \A f \in Of(k)' : step'[f] = "write"
                 PROVE  mem'[k] = db'[k]
        BY DEF MirrorsUntilWritten
    <2>1. CASE k = req[h].kind
        <3>1. alone[h]
            BY <1>5, <2>1, Zenon DEF Store
        <3>2. loaded[h] = db[k]
            BY <1>5, <2>1, <3>1 DEF Store, LoneLoadIsFresh
        <3> QED BY <1>5, <2>1, <3>2 DEF Store, ListsTypeOK
    <2>2. CASE k # req[h].kind
        <3>1. k \notin disturbed
            BY <1>5, <2>2, Zenon DEF Store
        <3>2. Of(k)' = Of(k)
            BY <1>5, <2>2, LeaveOf DEF Store, Of
        <3>3. \A f \in Of(k) : step[f] = "write"
            BY <1>5, <2>2, <3>2 DEF Store, Leave, ListsTypeOK, Of
        <3> QED BY <1>5, <2>2, <3>1, <3>3 DEF Store, ListsTypeOK, MirrorsUntilWritten
    <2> QED BY <2>1, <2>2
<1>6. ASSUME NEW h \in Handlers, Fail(h) PROVE MirrorsUntilWritten'
    <2> SUFFICES ASSUME NEW k \in Kinds \ disturbed',
                        \A f \in Of(k)' : step'[f] = "write"
                 PROVE  mem[k] = db[k]
        BY <1>6 DEF MirrorsUntilWritten, Fail
    <2>1. k \notin disturbed
        BY <1>6, Zenon DEF Fail
    <2>2. Of(k)' = Of(k) \ {h}
        BY <1>6, LeaveOf DEF Fail
    <2>3. \A f \in Of(k) \ {h} : step[f] = "write"
        BY <1>6, <2>2 DEF Fail, Leave, ListsTypeOK, Of
    <2>4. k = req[h].kind => step[h] = "write"
        BY <1>6, Zenon DEF Fail
    <2>5. \A f \in Of(k) : step[f] = "write"
        BY <2>3, <2>4 DEF Of
    <2> QED BY <2>1, <2>5 DEF MirrorsUntilWritten
<1>7. ASSUME ListsNext PROVE MirrorsUntilWritten'
    BY ONLY <1>7, ListsNextCases, <1>2, <1>3, <1>4, <1>5, <1>6
<1> QED BY <1>1, <1>7

\* An edit disappears from the table only when its domain is written again.
LEMMA OwnEditStep ==
    ASSUME ListsTypeOK, OwnEditSeen, [ListsNext]_listVars
    PROVE  OwnEditSeen'
<1>1. ASSUME UNCHANGED listVars PROVE OwnEditSeen'
    BY <1>1 DEF listVars, OwnEditSeen
<1>2. ASSUME Restart PROVE OwnEditSeen'
    BY <1>2 DEF Restart, OwnEditSeen
<1>3. ASSUME NEW h \in Handlers, NEW r \in Requests, Enter(h, r)
      PROVE  OwnEditSeen'
    <2>1. /\ step'[h] = "write" /\ db' = db /\ loaded' = loaded /\ writer' = writer
          /\ \A f \in Handlers \ {h} : step'[f] = step[f] /\ req'[f] = req[f]
        BY <1>3 DEF Enter, ListsTypeOK
    <2> QED BY <2>1 DEF OwnEditSeen
<1>4. ASSUME NEW h \in Handlers, Write(h) PROVE OwnEditSeen'
    <2>1. req[h].kind \in Kinds /\ req[h].domain \in Domains
        BY DEF ListsTypeOK, Requests
    <2>2. /\ step'[h] = "load" /\ req' = req /\ loaded' = loaded
          /\ \A f \in Handlers \ {h} : step'[f] = step[f]
          /\ db'[req[h].kind] = Apply(req[h], db[req[h].kind])
          /\ \A k \in Kinds \ {req[h].kind} : db'[k] = db[k]
        BY <1>4, <2>1 DEF Write, ListsTypeOK
    <2>3. /\ writer'[req[h].kind][req[h].domain] = {h}
          /\ \A k \in Kinds, d \in Domains :
                k # req[h].kind \/ d # req[h].domain
                    => writer'[k][d] = writer[k][d]
        BY <1>4, <2>1 DEF Write, ListsTypeOK
    <2> SUFFICES ASSUME NEW g \in Handlers, step'[g] \in {"load", "store"},
                        writer'[req[g].kind][req[g].domain] = {g}
                 PROVE  req[g].domain \in (IF step'[g] = "load"
                                           THEN db'[req[g].kind] ELSE loaded[g])
                          <=> req[g].op = "add"
        BY <2>2 DEF OwnEditSeen
    <2>4. req[g].kind \in Kinds /\ req[g].domain \in Domains
          /\ req[g].op \in {"add", "remove"}
        BY DEF ListsTypeOK, Requests
    <2>5. CASE g = h
        BY <2>2, <2>4, <2>5 DEF Apply
    <2>6. CASE g # h
        <3>1. req[g].kind # req[h].kind \/ req[g].domain # req[h].domain
            BY <2>3, <2>6
        <3>2. step'[g] = step[g] /\ writer[req[g].kind][req[g].domain] = {g}
            BY <2>2, <2>3, <2>4, <2>6, <3>1
        <3>3. req[g].domain \in db'[req[g].kind]
                <=> req[g].domain \in db[req[g].kind]
            BY <2>2, <2>4, <3>1 DEF Apply
        <3> QED BY <3>2, <3>3 DEF OwnEditSeen
    <2> QED BY <2>5, <2>6
<1>5. ASSUME NEW h \in Handlers, LoadAll(h) PROVE OwnEditSeen'
    <2>1. /\ step[h] = "load" /\ step'[h] = "store" /\ loaded'[h] = db[req[h].kind]
          /\ db' = db /\ req' = req /\ writer' = writer
          /\ \A f \in Handlers \ {h} : step'[f] = step[f] /\ loaded'[f] = loaded[f]
        BY <1>5 DEF LoadAll, ListsTypeOK
    <2> QED BY <2>1 DEF OwnEditSeen
<1>6. ASSUME NEW h \in Handlers, Leave(h), db' = db, writer' = writer
      PROVE  OwnEditSeen'
    <2>1. /\ step'[h] = "idle"
          /\ \A f \in Handlers \ {h} :
                step'[f] = step[f] /\ req'[f] = req[f] /\ loaded'[f] = loaded[f]
        BY <1>6 DEF Leave, ListsTypeOK
    <2> QED BY <1>6, <2>1 DEF OwnEditSeen
<1>7. ASSUME ListsNext PROVE OwnEditSeen'
    <2>1. \A h \in Handlers :
             Store(h) \/ Fail(h) => Leave(h) /\ db' = db /\ writer' = writer
        BY DEF Store, Fail
    <2> QED BY ONLY <1>7, <2>1, ListsNextCases, <1>2, <1>3, <1>4, <1>5, <1>6
<1> QED BY <1>1, <1>7

-----------------------------------------------------------------------------
(* The theorems.                                                           *)

\* The inductive invariant holds in every reachable state.
THEOREM ListsInvariance == ListsSpec => []ListsInv
<1>1. ListsInit => ListsInv
    <2> SUFFICES ASSUME ListsInit PROVE ListsInv
        OBVIOUS
    <2>1. ListsTypeOK
        BY NoRequestType DEF ListsInit, AllIdle, NoWriter, ListsTypeOK
    <2>2. \A h \in Handlers : step[h] = "idle"
        BY DEF ListsInit, AllIdle
    <2>3. AloneIsAlone /\ LoneLoadIsFresh /\ OwnEditSeen
        BY <2>2 DEF AloneIsAlone, LoneLoadIsFresh, OwnEditSeen
    <2>4. MirrorsUntilWritten
        BY DEF ListsInit, MirrorsUntilWritten
    <2> QED BY <2>1, <2>3, <2>4 DEF ListsInv
<1>2. ListsInv /\ [ListsNext]_listVars => ListsInv'
    BY ListsNextType, AloneStep, FreshStep, MirrorStep, OwnEditStep DEF ListsInv
<1> QED BY <1>1, <1>2, PTL DEF ListsSpec

\* Memory mirrors the table unless requests overlapped or one failed.
THEOREM Mirrors == ListsSpec => []MirrorsUnlessDisturbed
<1>1. ListsInv => MirrorsUnlessDisturbed
    BY DEF ListsInv, MirrorsUntilWritten, MirrorsUnlessDisturbed
<1> QED BY <1>1, ListsInvariance, PTL

\* A handler installs its own edit, whatever else is in flight.
THEOREM OwnEditTakesEffect == ListsSpec => StoresOwnEdit
<1>1. ListsInv /\ [ListsNext]_listVars =>
        [\A h \in Handlers :
           LET r == req[h] IN
           Store(h) /\ writer[r.kind][r.domain] = {h} =>
               (r.domain \in mem'[r.kind] <=> r.op = "add")]_listVars
    <2> SUFFICES ASSUME ListsInv, NEW h \in Handlers, Store(h),
                        writer[req[h].kind][req[h].domain] = {h}
                 PROVE  req[h].domain \in mem'[req[h].kind] <=> req[h].op = "add"
        OBVIOUS
    <2>1. mem'[req[h].kind] = loaded[h]
        BY DEF Store, ListsInv, ListsTypeOK, Requests
    <2>2. req[h].domain \in loaded[h] <=> req[h].op = "add"
        BY DEF Store, ListsInv, OwnEditSeen
    <2> QED BY <2>1, <2>2
<1> QED BY <1>1, ListsInvariance, PTL DEF StoresOwnEdit, ListsSpec
=============================================================================
