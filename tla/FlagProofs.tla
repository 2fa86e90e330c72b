----------------------------- MODULE FlagProofs -----------------------------
(***************************************************************************)
(* Theorems about Flag, for every number of players and flags and every    *)
(* key value.                                                              *)
(***************************************************************************)
EXTENDS Flag, TLAPS

USE ConstantsAssumption

LEMMA KeyValueTypes ==
  ASSUME NEW f \in Flags
  PROVE  /\ KeyValues[f].captureTime \in Nat
         /\ KeyValues[f].teamBonusInterval \in Nat
         /\ KeyValues[f].startingTeam \in Playing \cup {Unassigned}
         /\ KeyValues[f].forTeam \in 0 .. 2
         /\ KeyValues[f].startDisabled \in BOOLEAN
         /\ KeyValues[f].notUncappable \in BOOLEAN
         /\ KeyValues[f].hasTrigger \in BOOLEAN
  BY DEF KeyValueRecord

\* The values the methods store are of the type of the member they go to.
LEMMA Stored ==
  ASSUME NEW f \in Flags
  PROVE  /\ KeyValues[f].teamBonusInterval \in
              -KeyValues[f].teamBonusInterval .. KeyValues[f].teamBonusInterval
         /\ KeyValues[f].teamBonusInterval \in 0 .. KeyValues[f].teamBonusInterval
         /\ 0 \in 0 .. KeyValues[f].teamBonusInterval
         /\ 0 \in -KeyValues[f].teamBonusInterval .. KeyValues[f].teamBonusInterval
         /\ 0 \in 0 .. KeyValues[f].captureTime
         /\ KeyValues[f].captureTime \in 0 .. KeyValues[f].captureTime
         /\ {0, 1, IdlePeriod} \subseteq 0 .. IdlePeriod
         /\ {} \in SUBSET Players
  BY KeyValueTypes

LEMMA SoleType ==
  ASSUME NEW f, NEW s
  PROVE  Sole(f, s) \in Playing \cup {Unassigned}
  BY DEF Sole

-----------------------------------------------------------------------------
(* The methods keep the type of a flag's record.                           *)

LEMMA CapturersType ==
  ASSUME TypeOK, NEW f \in Flags, NEW s, NEW t
  PROVE  Capturers(f, s, t) \in SUBSET Players
  BY DEF TypeOK, Capturers, IndexedPlayers, Connected, InRadius

LEMMA FriendsType ==
  ASSUME TypeOK, NEW f \in Flags, NEW s
  PROVE  Friends(f, s) \in SUBSET Players
  BY DEF TypeOK, Friends, IndexedPlayers, Connected, InRadius

LEMMA PayType ==
  ASSUME NEW f \in Flags, NEW s \in FlagRecord(f), NEW t \in Playing, s.paid[t] <= 1
  PROVE  Pay(s, t) \in FlagRecord(f)
<1> DEFINE paid == [s.paid EXCEPT ![t] = @ + 1]
<1>1. s.paid \in [Playing -> 0 .. 2]
  BY DEF FlagRecord
<1>2. paid \in [Playing -> 0 .. 2]
  BY <1>1
<1>3. Pay(s, t) = [s EXCEPT !.paid = paid, !.age = 0]
  BY DEF Pay
<1> HIDE DEF paid
<1>4. [s EXCEPT !.paid = paid, !.age = 0] \in FlagRecord(f)
  BY <1>2, Stored DEF FlagRecord
<1> QED
  BY <1>3, <1>4

LEMMA CaptureType ==
  ASSUME TypeOK, NEW f \in Flags, NEW s \in FlagRecord(f), NEW t \in Playing,
         s.paid[t] <= 1
  PROVE  Capture(f, s, t) \in FlagRecord(f)
<1> DEFINE c == [s EXCEPT !.owner = t, !.lastTeam = Unassigned,
                          !.nextBonus = KeyValues[f].teamBonusInterval,
                          !.age = 0, !.overload = Capturers(f, s, t)]
<1>1. c \in FlagRecord(f) /\ c.paid = s.paid
  BY Stored, CapturersType DEF FlagRecord
<1>2. Pay(c, t) \in FlagRecord(f)
  BY <1>1, PayType
<1> QED
  BY <1>1, <1>2 DEF Capture

LEMMA ThinkCappedType ==
  ASSUME TypeOK, NEW f \in Flags, NEW s \in FlagRecord(f)
  PROVE  /\ MaybeThinkCapped(f, s) \in FlagRecord(f)
         /\ MaybeThinkCapped(f, s).paid = s.paid
<1>1. [s EXCEPT !.owner = Unassigned, !.overload = {}] \in FlagRecord(f)
  BY DEF FlagRecord
<1>2. [s EXCEPT !.overload = @ \cup Friends(f, s)] \in FlagRecord(f)
  BY FriendsType DEF FlagRecord
<1> QED
  BY <1>1, <1>2 DEF MaybeThinkCapped, ThinkCapped, FlagRecord

LEMMA ThinkUncappedType ==
  ASSUME TypeOK, NEW f \in Flags, NEW s \in FlagRecord(f),
         \A t \in Playing : s.paid[t] <= 1
  PROVE  ThinkUncapped(f, s) \in FlagRecord(f)
<1> DEFINE t == Sole(f, s)
<1>1. NoContender(s) \in FlagRecord(f)
  BY Stored DEF FlagRecord, NoContender
<1>2. CASE t = Unassigned
  BY <1>1, <1>2 DEF ThinkUncapped
<1>3. CASE t \in Playing
  <2>1. [s EXCEPT !.lastTeam = t, !.nextCapture = KeyValues[f].captureTime]
          \in FlagRecord(f)
    BY <1>3, Stored DEF FlagRecord
  <2>2. Capture(f, s, t) \in FlagRecord(f)
    BY <1>3, CaptureType
  <2>3. t # Unassigned
    BY <1>3 DEF Playing, Americans, British, Unassigned
  <2> QED
    BY <1>1, <2>1, <2>2, <2>3 DEF ThinkUncapped
<1> QED
  BY <1>2, <1>3, SoleType

LEMMA BonusTeamType ==
  ASSUME NEW f \in Flags, NEW s \in FlagRecord(f)
  PROVE  BonusTeam(f, s) \in Playing \cup {Unassigned}
  BY KeyValueTypes DEF BonusTeam, FlagRecord, Opponent, Playing

LEMMA TimeBonusType ==
  ASSUME NEW f \in Flags, NEW s \in FlagRecord(f), s.paid = Unpaid
  PROVE  /\ TimeBonus(f, s) \in FlagRecord(f)
         /\ \A t \in Playing : TimeBonus(f, s).paid[t] <= 1
<1> DEFINE t == BonusTeam(f, s)
           c == Pay(s, t)
<1>1. CASE ~BonusDue(f, s)
  BY <1>1 DEF TimeBonus, Unpaid
<1>2. CASE BonusDue(f, s)
  <2>1. t \in Playing /\ s.nextBonus <= 0
    BY <1>2, BonusTeamType DEF BonusDue
  <2>2. c \in FlagRecord(f)
    BY <2>1, PayType DEF Unpaid
  <2>3. c.nextBonus = s.nextBonus /\ c.paid = [s.paid EXCEPT ![t] = @ + 1]
    BY SMT DEF Pay, FlagRecord
  <2>4. \A u \in Playing : c.paid[u] <= 1
    BY <2>1, <2>3 DEF Unpaid
  <2>5. c.nextBonus + KeyValues[f].teamBonusInterval \in
          -KeyValues[f].teamBonusInterval .. KeyValues[f].teamBonusInterval
    <3>1. s.nextBonus \in
            -KeyValues[f].teamBonusInterval .. KeyValues[f].teamBonusInterval
      BY DEF FlagRecord
    <3> QED
      BY <2>1, <2>3, <3>1, KeyValueTypes
  <2>6. [c EXCEPT !.nextBonus = @ + KeyValues[f].teamBonusInterval] \in FlagRecord(f)
    BY <2>2, <2>5 DEF FlagRecord
  <2> QED
    BY <1>2, <2>2, <2>4, <2>6 DEF TimeBonus, FlagRecord
<1> QED
  BY <1>1, <1>2

LEMMA SafeguardType ==
  ASSUME NEW f \in Flags, NEW s \in FlagRecord(f)
  PROVE  /\ Safeguard(f, s) \in FlagRecord(f)
         /\ Safeguard(f, s).paid = s.paid
  BY Stored DEF Safeguard, FlagRecord

LEMMA ObserveType ==
  ASSUME NEW f \in Flags, NEW s \in FlagRecord(f)
  PROVE  /\ Observe(f, s) \in FlagRecord(f)
         /\ Observe(f, s).paid = Unpaid
<1> DEFINE stood == [t \in Playing |->
                       IF ~Idle(s) /\ Sole(f, s) = t /\ InForce(f, s, t)
                       THEN IF s.stood[t] < 0 THEN 0 ELSE s.stood[t]
                       ELSE -1]
<1>1. s.stood \in [Playing -> -1 .. KeyValues[f].captureTime]
  BY DEF FlagRecord
<1>2. stood \in [Playing -> -1 .. KeyValues[f].captureTime]
  BY <1>1, KeyValueTypes
<1>3. Unpaid \in [Playing -> 0 .. 2]
  BY DEF Unpaid
<1> QED
  BY <1>2, <1>3 DEF Observe, FlagRecord

LEMMA ThinkType ==
  ASSUME TypeOK, NEW f \in Flags, NEW s \in FlagRecord(f)
  PROVE  Think(f, s) \in FlagRecord(f)
<1> DEFINE s0 == Observe(f, s)
           s1 == [s0 EXCEPT !.nextThink = 1]
           s2 == TimeBonus(f, s1)
           s3 == Safeguard(f, s2)
           s4 == MaybeThinkCapped(f, s3)
<1>1. s0 \in FlagRecord(f) /\ s0.paid = Unpaid
  BY ObserveType
<1>2. s1 \in FlagRecord(f) /\ s1.paid = Unpaid
  BY <1>1, Stored DEF FlagRecord
<1>3. s2 \in FlagRecord(f) /\ \A t \in Playing : s2.paid[t] <= 1
  BY <1>2, TimeBonusType
<1>4. s3 \in FlagRecord(f) /\ s3.paid = s2.paid
  BY <1>3, SafeguardType
<1>5. s4 \in FlagRecord(f) /\ s4.paid = s3.paid
  BY <1>4, ThinkCappedType
<1>6. ThinkUncapped(f, s4) \in FlagRecord(f)
  BY <1>3, <1>4, <1>5, ThinkUncappedType
<1>7. [s0 EXCEPT !.owner = Unassigned, !.lastTeam = Unassigned,
                 !.nextThink = IdlePeriod] \in FlagRecord(f)
  BY <1>1, Stored DEF FlagRecord
<1> QED
  BY <1>6, <1>7 DEF Think

LEMMA ResetFlagType ==
  ASSUME NEW f \in Flags, NEW s \in FlagRecord(f)
  PROVE  ResetFlag(f, s) \in FlagRecord(f)
<1>1. [t \in Playing |-> [p \in Players |-> 0]] \in [Playing -> [Players -> Nat]]
  OBVIOUS
<1>2. (~KeyValues[f].startDisabled) \in BOOLEAN
  BY KeyValueTypes
<1>3. StartingTeam(f) \in Playing \cup {Unassigned}
  BY KeyValueTypes DEF StartingTeam
<1> QED
  BY <1>1, <1>2, <1>3, Stored DEF ResetFlag, FlagRecord

LEMMA InputTypes ==
  ASSUME TypeOK, NEW f \in Flags, NEW s \in FlagRecord(f)
  PROVE  /\ InputEnable(f, s) \in FlagRecord(f)
         /\ InputDisable(f, s) \in FlagRecord(f)
         /\ InputToggle(f, s) \in FlagRecord(f)
         /\ \A t \in Playing : ForceCap(f, s, t) \in FlagRecord(f)
<1>1. [s EXCEPT !.active = TRUE, !.owner = Unassigned, !.lastTeam = Unassigned]
        \in FlagRecord(f)
  BY DEF FlagRecord
<1>2. InputEnable(f, s) \in FlagRecord(f)
  BY <1>1, ThinkType DEF InputEnable
<1>3. InputDisable(f, s) \in FlagRecord(f)
  BY DEF InputDisable, FlagRecord
<1>4. [s EXCEPT !.paid = Unpaid] \in FlagRecord(f)
  <2>1. Unpaid \in [Playing -> 0 .. 2]
    BY DEF Unpaid
  <2> QED
    BY <2>1 DEF FlagRecord
<1>5. [s EXCEPT !.paid = Unpaid].paid = Unpaid
  BY DEF FlagRecord
<1>6. ASSUME NEW t \in Playing
      PROVE  ForceCap(f, s, t) \in FlagRecord(f)
  <2>1. Unpaid[t] <= 1
    BY DEF Unpaid
  <2> QED
    BY <1>4, <1>5, <2>1, CaptureType DEF ForceCap
<1> QED
  BY <1>2, <1>3, <1>6 DEF InputToggle

LEMMA WithoutType ==
  ASSUME NEW list \in [Players -> Nat], NEW p \in Players
  PROVE  Without(list, p) \in [Players -> Nat]
  BY DEF Without

LEMMA RemoveSelfType ==
  ASSUME NEW f \in Flags, NEW s \in FlagRecord(f), NEW p \in Players
  PROVE  RemoveSelf(f, s, p) \in FlagRecord(f)
<1>1. s.touching \in [Playing -> [Players -> Nat]] /\ s.overload \ {p} \in SUBSET Players
  BY DEF FlagRecord
<1>2. [t \in Playing |-> Without(s.touching[t], p)] \in [Playing -> [Players -> Nat]]
  BY <1>1, WithoutType
<1> QED
  BY <1>1, <1>2 DEF RemoveSelf, FlagRecord

LEMMA TouchTypes ==
  ASSUME NEW f \in Flags, NEW s \in FlagRecord(f), NEW p \in Players
  PROVE  /\ StartTouch(f, s, p) \in FlagRecord(f)
         /\ EndTouch(f, s, p) \in FlagRecord(f)
<1> DEFINE more == [s.touching EXCEPT ![team[p]][p] = @ + 1]
           fewer == [s.touching EXCEPT ![team[p]] = Without(@, p)]
<1>1. s.touching \in [Playing -> [Players -> Nat]]
  BY DEF FlagRecord
<1>2. TriggerHears(f, s, p) => more \in [Playing -> [Players -> Nat]]
  <2> SUFFICES ASSUME team[p] \in Playing
               PROVE  more \in [Playing -> [Players -> Nat]]
    BY DEF TriggerHears
  <2>1. [s.touching[team[p]] EXCEPT ![p] = @ + 1] \in [Players -> Nat]
    BY <1>1
  <2> QED
    BY <1>1, <2>1
<1>3. TriggerHears(f, s, p) => fewer \in [Playing -> [Players -> Nat]]
  BY <1>1, WithoutType DEF TriggerHears
<1>4. TriggerHears(f, s, p) => [s EXCEPT !.touching = more] \in FlagRecord(f)
  BY <1>2 DEF FlagRecord
<1>5. TriggerHears(f, s, p) => [s EXCEPT !.touching = fewer] \in FlagRecord(f)
  BY <1>3 DEF FlagRecord
<1> QED
  BY <1>4, <1>5 DEF StartTouch, EndTouch

LEMMA ElapseType ==
  ASSUME NEW f \in Flags, NEW s \in FlagRecord(f)
  PROVE  Elapse(f, s) \in FlagRecord(f)
<1> DEFINE stood == [t \in Playing |-> IF s.stood[t] < 0 THEN -1
                                      ELSE Up(s.stood[t], KeyValues[f].captureTime)]
<1>1. /\ s.nextThink \in 0 .. IdlePeriod
      /\ s.nextCapture \in 0 .. KeyValues[f].captureTime
      /\ s.nextBonus \in
           -KeyValues[f].teamBonusInterval .. KeyValues[f].teamBonusInterval
      /\ s.age \in 0 .. KeyValues[f].teamBonusInterval
      /\ s.stood \in [Playing -> -1 .. KeyValues[f].captureTime]
  BY DEF FlagRecord
<1>2. /\ Down(s.nextThink, 0) \in 0 .. IdlePeriod
      /\ Down(s.nextCapture, 0) \in 0 .. KeyValues[f].captureTime
      /\ Down(s.nextBonus, -KeyValues[f].teamBonusInterval) \in
           -KeyValues[f].teamBonusInterval .. KeyValues[f].teamBonusInterval
      /\ Up(s.age, KeyValues[f].teamBonusInterval) \in
           0 .. KeyValues[f].teamBonusInterval
  BY <1>1, KeyValueTypes DEF Down, Up
<1>3. stood \in [Playing -> -1 .. KeyValues[f].captureTime]
  BY <1>1, KeyValueTypes DEF Up
<1> HIDE DEF stood
<1>4. [s EXCEPT !.nextThink = Down(s.nextThink, 0),
                !.nextCapture = Down(s.nextCapture, 0),
                !.nextBonus = Down(s.nextBonus, -KeyValues[f].teamBonusInterval),
                !.age = Up(s.age, KeyValues[f].teamBonusInterval),
                !.stood = stood] \in FlagRecord(f)
  BY <1>2, <1>3 DEF FlagRecord
<1> QED
  BY <1>4 DEF Elapse, stood

LEMMA SpawnedType ==
  ASSUME NEW f \in Flags
  PROVE  Spawned(f) \in FlagRecord(f)
<1>1. /\ [t \in Playing |-> [p \in Players |-> 0]] \in [Playing -> [Players -> Nat]]
      /\ [t \in Playing |-> -1] \in [Playing -> -1 .. KeyValues[f].captureTime]
      /\ Unpaid \in [Playing -> 0 .. 2]
      /\ 0 \in 0 .. IdlePeriod
  BY KeyValueTypes DEF Unpaid
<1>2. (IF KeyValues[f].startDisabled THEN Unassigned ELSE StartingTeam(f))
        \in Playing \cup {Unassigned}
  BY KeyValueTypes DEF StartingTeam
<1> QED
  BY <1>1, <1>2, Stored DEF Spawned, FlagRecord

-----------------------------------------------------------------------------
(* Type correctness.                                                       *)

Typed(flags) == DOMAIN flags = Flags /\ \A f \in Flags : flags[f] \in FlagRecord(f)

LEMMA TypedExcept ==
  ASSUME Typed(flag), NEW f \in Flags, NEW s \in FlagRecord(f)
  PROVE  Typed([flag EXCEPT ![f] = s])
  BY DEF Typed

LEMMA OpponentType == \A t \in Playing : Opponent(t) \in Playing
  BY DEF Opponent, Playing

\* The handlers move between the states that the types describe: no deadline
\* leaves its range and no list gets a stranger.
THEOREM TypeCorrect == Spec => []TypeOK
<1>1. Init => TypeOK
  BY SpawnedType DEF Init, TypeOK
<1>2. ASSUME TypeOK, [Next]_vars
      PROVE  TypeOK'
  <2> USE <1>2
  <2>0. Typed(flag) /\ \A f \in Flags : flag[f] \in FlagRecord(f)
    BY DEF TypeOK, Typed
  <2> DEFINE Goal == /\ team' \in [Players -> Playing \cup {Unassigned, Gone}]
                     /\ alive' \in [Players -> BOOLEAN]
                     /\ at' \in [Flags -> SUBSET Players]
                     /\ Typed(flag')
                     /\ respawnstyle' \in Styles
                     /\ gameOver' \in BOOLEAN
  <2> SUFFICES Goal
    BY DEF TypeOK, Typed, FlagRecord
  <2> USE DEF TypeOK, playerVars, ruleVars
  <2>1. CASE Tick
    BY <2>0, <2>1, ElapseType DEF Tick, Typed
  <2>2. ASSUME NEW f \in Flags, FlagThink(f) PROVE Goal
    BY <2>0, <2>2, ThinkType, TypedExcept DEF FlagThink
  <2>3. ASSUME NEW f \in Flags, FlagInput(f) PROVE Goal
    BY <2>0, <2>3, InputTypes, TypedExcept DEF FlagInput
  <2>4. ASSUME NEW p \in Players, PlayerStep(p) PROVE Goal
    <3>1. ASSUME NEW f \in Flags, Enter(p, f) PROVE Goal
      BY <2>0, <3>1, TouchTypes, TypedExcept DEF Enter
    <3>2. ASSUME NEW f \in Flags, Leave(p, f) PROVE Goal
      BY <2>0, <3>2, TouchTypes, TypedExcept DEF Leave
    <3>3. CASE ClientConnect(p)
      BY <2>0, <3>3 DEF ClientConnect
    <3>4. ASSUME NEW t \in Playing \cup {Unassigned}, ChangeTeam(p, t) PROVE Goal
      BY <2>0, <3>4, RemoveSelfType DEF ChangeTeam, Typed
    <3>5. CASE EventKilled(p)
      BY <2>0, <3>5, RemoveSelfType DEF EventKilled, Typed
    <3>6. CASE Respawn(p)
      BY <2>0, <3>6 DEF Respawn
    <3>7. CASE ClientDisconnect(p)
      BY <2>0, <3>7, RemoveSelfType, TouchTypes DEF ClientDisconnect, Typed
    <3> QED
      BY <2>4, <3>1, <3>2, <3>3, <3>4, <3>5, <3>6, <3>7 DEF PlayerStep
  <2>5. ASSUME NEW swapTeams \in BOOLEAN, RestartRound(swapTeams) PROVE Goal
    BY <2>0, <2>5, ResetFlagType, OpponentType DEF RestartRound, Typed
  <2>6. CASE GoToIntermission
    BY <2>0, <2>6 DEF GoToIntermission
  <2>7. CASE SetRespawnStyle
    BY <2>0, <2>7 DEF SetRespawnStyle
  <2>8. CASE UNCHANGED vars
    BY <2>0, <2>8 DEF vars
  <2> QED
    BY <2>1, <2>2, <2>3, <2>4, <2>5, <2>6, <2>7, <2>8 DEF Next
<1> QED
  BY <1>1, <1>2, PTL DEF Spec

-----------------------------------------------------------------------------
(* The overload lists.                                                     *)

LEMMA TeamsDiffer ==
  /\ Americans \in Playing /\ British \in Playing
  /\ Unassigned \notin Playing /\ Gone \notin Playing /\ Unassigned # Gone
  BY DEF Playing, Americans, British, Unassigned, Gone

\* What the bonus does to a flag leaves its owner and its list alone.
LEMMA BonusKeepsHolders ==
  ASSUME NEW f \in Flags, NEW s \in FlagRecord(f)
  PROVE  /\ Safeguard(f, TimeBonus(f, s)).owner = s.owner
         /\ Safeguard(f, TimeBonus(f, s)).overload = s.overload
<1>1. TimeBonus(f, s).owner = s.owner /\ TimeBonus(f, s).overload = s.overload
  BY DEF TimeBonus, Pay, FlagRecord
<1>2. \A r : Safeguard(f, r).owner = r.owner /\ Safeguard(f, r).overload = r.overload
  BY DEF Safeguard
<1> QED
  BY <1>1, <1>2

LEMMA CaptureGuarded ==
  ASSUME NEW f \in Flags, NEW s \in FlagRecord(f), NEW t \in Playing,
         ~KeyValues[f].hasTrigger
  PROVE  Guarded(Capture(f, s, t))
<1>1. /\ Capture(f, s, t).owner = t
      /\ Capture(f, s, t).overload = InRadius(f, t)
  BY DEF Capture, Capturers, Pay, FlagRecord
<1>2. \A p \in InRadius(f, t) : alive[p] /\ team[p] = t
  BY DEF InRadius
<1> QED
  BY <1>1, <1>2 DEF Guarded

LEMMA ThinkCappedGuarded ==
  ASSUME NEW f \in Flags, NEW s \in FlagRecord(f), Guarded(s),
         ~KeyValues[f].hasTrigger
  PROVE  Guarded(MaybeThinkCapped(f, s))
<1>1. CASE s.owner = Unassigned
  BY <1>1 DEF MaybeThinkCapped
<1>2. CASE s.owner # Unassigned /\ Uncaps(f, s)
  <2>1. /\ MaybeThinkCapped(f, s).owner = Unassigned
        /\ MaybeThinkCapped(f, s).overload = {}
    BY <1>2 DEF MaybeThinkCapped, ThinkCapped, FlagRecord
  <2> QED
    BY <2>1, TeamsDiffer DEF Guarded
<1>3. CASE s.owner # Unassigned /\ ~Uncaps(f, s)
  <2>1. /\ MaybeThinkCapped(f, s).owner = s.owner
        /\ MaybeThinkCapped(f, s).overload = s.overload \cup InRadius(f, s.owner)
    BY <1>3 DEF MaybeThinkCapped, ThinkCapped, Friends, FlagRecord
  <2>2. s.owner \in Playing /\ \A p \in s.overload : alive[p] /\ team[p] = s.owner
    BY <1>3 DEF Guarded
  <2>3. \A p \in InRadius(f, s.owner) : alive[p] /\ team[p] = s.owner
    BY DEF InRadius
  <2> QED
    BY <2>1, <2>2, <2>3 DEF Guarded
<1> QED
  BY <1>1, <1>2, <1>3

LEMMA ThinkUncappedGuarded ==
  ASSUME NEW f \in Flags, NEW s \in FlagRecord(f), Guarded(s),
         ~KeyValues[f].hasTrigger
  PROVE  Guarded(ThinkUncapped(f, s))
<1> DEFINE t == Sole(f, s)
           r == [s EXCEPT !.lastTeam = t, !.nextCapture = KeyValues[f].captureTime]
<1>1. Guarded(NoContender(s))
  BY DEF NoContender, Guarded, FlagRecord
<1>2. Guarded(r)
  BY DEF Guarded, FlagRecord
<1>3. CASE t = Unassigned
  BY <1>1, <1>3 DEF ThinkUncapped
<1>4. CASE t \in Playing
  <2>1. Guarded(Capture(f, s, t))
    BY <1>4, CaptureGuarded
  <2>2. t # Unassigned
    BY <1>4, TeamsDiffer
  <2> QED
    BY <1>1, <1>2, <2>1, <2>2 DEF ThinkUncapped
<1> QED
  BY <1>3, <1>4, SoleType

LEMMA ThinkGuarded ==
  ASSUME TypeOK, NEW f \in Flags, NEW s \in FlagRecord(f), Guarded(s),
         ~KeyValues[f].hasTrigger
  PROVE  Guarded(Think(f, s))
<1> DEFINE s0 == Observe(f, s)
           s1 == [s0 EXCEPT !.nextThink = 1]
           s2 == TimeBonus(f, s1)
           s3 == Safeguard(f, s2)
           s4 == MaybeThinkCapped(f, s3)
           idle == [s0 EXCEPT !.owner = Unassigned, !.lastTeam = Unassigned,
                              !.nextThink = IdlePeriod]
<1>1. s0 \in FlagRecord(f) /\ s0.paid = Unpaid
  BY ObserveType
<1>2. s0.owner = s.owner /\ s0.overload = s.overload
  BY DEF Observe, FlagRecord
<1>3. s1 \in FlagRecord(f) /\ s1.paid = Unpaid
  BY <1>1, Stored DEF FlagRecord
<1>4. s1.owner = s.owner /\ s1.overload = s.overload
  BY <1>1, <1>2 DEF FlagRecord
<1>5. s2 \in FlagRecord(f)
  BY <1>3, TimeBonusType
<1>6. s3 \in FlagRecord(f)
  BY <1>5, SafeguardType
<1>7. Guarded(s3)
  <2>1. s3.owner = s.owner /\ s3.overload = s.overload
    BY <1>3, <1>4, BonusKeepsHolders
  <2> HIDE DEF s3
  <2> QED
    BY <2>1 DEF Guarded
<1>8. s4 \in FlagRecord(f) /\ Guarded(s4)
  BY <1>6, <1>7, ThinkCappedType, ThinkCappedGuarded
<1>9. Guarded(ThinkUncapped(f, s4))
  BY <1>8, ThinkUncappedGuarded
<1>10. Guarded(idle)
  <2>1. idle.owner = Unassigned /\ idle.overload = s.overload
    BY <1>1, <1>2 DEF FlagRecord
  <2> QED
    BY <2>1 DEF Guarded
<1> QED
  BY <1>9, <1>10 DEF Think

LEMMA InputsGuarded ==
  ASSUME TypeOK, NEW f \in Flags, NEW s \in FlagRecord(f), Guarded(s),
         ~KeyValues[f].hasTrigger
  PROVE  /\ Guarded(InputEnable(f, s))
         /\ Guarded(InputDisable(f, s))
         /\ Guarded(InputToggle(f, s))
         /\ \A t \in Playing : Guarded(ForceCap(f, s, t))
<1> DEFINE r == [s EXCEPT !.active = TRUE, !.owner = Unassigned, !.lastTeam = Unassigned]
<1>1. r \in FlagRecord(f)
  BY DEF FlagRecord
<1>2. Guarded(r)
  <2>1. r.owner = Unassigned /\ r.overload = s.overload
    BY DEF FlagRecord
  <2> QED
    BY <2>1 DEF Guarded
<1>3. Guarded(InputEnable(f, s))
  BY <1>1, <1>2, ThinkGuarded DEF InputEnable
<1>4. Guarded(InputDisable(f, s))
  BY DEF InputDisable, Guarded, FlagRecord
<1>5. [s EXCEPT !.paid = Unpaid] \in FlagRecord(f)
  <2>1. Unpaid \in [Playing -> 0 .. 2]
    BY DEF Unpaid
  <2> QED
    BY <2>1 DEF FlagRecord
<1>6. \A t \in Playing : Guarded(ForceCap(f, s, t))
  BY <1>5, CaptureGuarded DEF ForceCap
<1> QED
  BY <1>3, <1>4, <1>6 DEF InputToggle

\* The touch handlers, the passing of time and RemoveSelfFromFlags.
LEMMA HoldersKept ==
  ASSUME NEW f \in Flags, NEW s \in FlagRecord(f), NEW p \in Players
  PROVE  /\ StartTouch(f, s, p).owner = s.owner
         /\ StartTouch(f, s, p).overload = s.overload
         /\ EndTouch(f, s, p).owner = s.owner
         /\ EndTouch(f, s, p).overload = s.overload
         /\ RemoveSelf(f, s, p).owner = s.owner
         /\ RemoveSelf(f, s, p).overload = s.overload \ {p}
<1>1. /\ StartTouch(f, s, p).owner = s.owner
      /\ StartTouch(f, s, p).overload = s.overload
  BY DEF StartTouch, FlagRecord
<1>2. /\ EndTouch(f, s, p).owner = s.owner
      /\ EndTouch(f, s, p).overload = s.overload
  BY DEF EndTouch, FlagRecord
<1>3. /\ RemoveSelf(f, s, p).owner = s.owner
      /\ RemoveSelf(f, s, p).overload = s.overload \ {p}
  BY DEF RemoveSelf, FlagRecord
<1> QED
  BY <1>1, <1>2, <1>3

LEMMA ElapseKeepsHolders ==
  ASSUME NEW f \in Flags, NEW s \in FlagRecord(f)
  PROVE  Elapse(f, s).owner = s.owner /\ Elapse(f, s).overload = s.overload
  BY DEF Elapse, FlagRecord

LEMMA ResetGuarded ==
  ASSUME NEW f \in Flags, NEW s \in FlagRecord(f)
  PROVE  /\ ResetFlag(f, s).owner \in Playing \cup {Unassigned}
         /\ ResetFlag(f, s).overload = {}
  BY KeyValueTypes DEF ResetFlag, StartingTeam, FlagRecord

\* A flag keeps its guard in a step that only takes names off its list, if it
\* keeps its owner and those who stay on the list keep their side.
LEMMA GuardCarries ==
  ASSUME NEW f \in Flags, Guarded(flag[f]),
         flag'[f].owner = flag[f].owner,
         flag'[f].overload \subseteq flag[f].overload,
         \A p \in flag'[f].overload :
           alive[p] /\ team[p] \in Playing => alive'[p] /\ team'[p] = team[p]
  PROVE  Guarded(flag[f])'
<1>1. PICK t \in Playing :
        /\ flag[f].owner \in {t, Unassigned}
        /\ \A p \in flag[f].overload : alive[p] /\ team[p] = t
  BY DEF Guarded
<1>2. \A p \in flag'[f].overload : alive'[p] /\ team'[p] = t
  BY <1>1
<1> QED
  BY <1>1, <1>2 DEF Guarded

\* Whoever is on the overload list of a radius flag is alive and on the side of
\* its owner until the game is over: death, a change of team, a disconnect, a
\* swap of the sides and a restart of the round all keep the list in step.
THEOREM OverloadersGuarded == Spec => []OverloadersGuard
<1>1. Init => OverloadersGuard
  <2> SUFFICES ASSUME Init, NEW f \in Flags PROVE Guarded(flag[f])
    BY DEF OverloadersGuard
  <2>1. flag[f].overload = {} /\ flag[f].owner \in Playing \cup {Unassigned}
    BY KeyValueTypes DEF Init, Spawned, StartingTeam
  <2> QED
    BY <2>1, TeamsDiffer DEF Guarded
<1>2. ASSUME TypeOK, OverloadersGuard, [Next]_vars PROVE OverloadersGuard'
  <2> SUFFICES ASSUME ~gameOver', NEW f \in Flags, ~KeyValues[f].hasTrigger
               PROVE  Guarded(flag[f])'
    BY DEF OverloadersGuard
  <2> USE <1>2
  <2> DEFINE s == flag[f]
  <2>0. ~gameOver /\ s \in FlagRecord(f) /\ Guarded(s)
    <3>1. gameOver \in BOOLEAN /\ s \in FlagRecord(f)
      BY DEF TypeOK
    <3>2. gameOver' \/ gameOver' = gameOver
      BY DEF Next, vars, Tick, FlagThink, FlagInput, PlayerStep, Enter, Leave,
             ClientConnect, ChangeTeam, EventKilled, Respawn, ClientDisconnect,
             RestartRound, GoToIntermission, SetRespawnStyle, ruleVars
    <3> QED
      BY <3>1, <3>2 DEF OverloadersGuard
  <2>1. CASE Tick
    <3>1. flag'[f] = Elapse(f, s) /\ alive' = alive /\ team' = team
      BY <2>1 DEF Tick, playerVars
    <3> QED
      BY <2>0, <3>1, ElapseKeepsHolders, GuardCarries
  <2>2. ASSUME NEW g \in Flags, FlagThink(g) PROVE Guarded(flag[f])'
    <3>1. flag'[f] \in {s, Think(f, s)} /\ alive' = alive /\ team' = team
      BY <2>2 DEF FlagThink, playerVars, TypeOK
    <3>2. Guarded(flag'[f])
      BY <2>0, <3>1, ThinkGuarded
    <3> QED
      BY <3>1, <3>2 DEF Guarded
  <2>3. ASSUME NEW g \in Flags, FlagInput(g) PROVE Guarded(flag[f])'
    <3>1. /\ alive' = alive /\ team' = team
          /\ \/ flag'[f] \in {s, InputEnable(f, s), InputDisable(f, s), InputToggle(f, s)}
             \/ \E t \in Playing : flag'[f] = ForceCap(f, s, t)
      BY <2>3 DEF FlagInput, playerVars, TypeOK
    <3>2. Guarded(flag'[f])
      BY <2>0, <3>1, InputsGuarded
    <3> QED
      BY <3>1, <3>2 DEF Guarded
  <2>4. ASSUME NEW p \in Players, PlayerStep(p) PROVE Guarded(flag[f])'
    <3>0. /\ team \in [Players -> Playing \cup {Unassigned, Gone}]
          /\ alive \in [Players -> BOOLEAN]
          /\ s.overload \subseteq Players
      BY <2>0 DEF TypeOK, FlagRecord
    <3>1. ASSUME NEW g \in Flags, Enter(p, g) \/ Leave(p, g)
          PROVE  Guarded(flag[f])'
      <4>1. /\ flag'[f] \in {s, StartTouch(f, s, p), EndTouch(f, s, p)}
            /\ alive' = alive /\ team' = team
        BY <3>1 DEF Enter, Leave, TypeOK
      <4> QED
        BY <2>0, <4>1, HoldersKept, GuardCarries
    <3>2. CASE ClientConnect(p)
      <4>1. flag' = flag /\ \A q \in Players : team[q] \in Playing =>
              (alive[q] => alive'[q]) /\ team'[q] = team[q]
        BY <3>0, <3>2, TeamsDiffer DEF ClientConnect
      <4> QED
        BY <2>0, <3>0, <4>1, GuardCarries
    <3>3. ASSUME flag'[f] = RemoveSelf(f, s, p),
                 \A q \in Players \ {p} : alive'[q] = alive[q] /\ team'[q] = team[q]
          PROVE  Guarded(flag[f])'
      BY <2>0, <3>0, <3>3, HoldersKept, GuardCarries
    <3>4. ASSUME NEW t \in Playing \cup {Unassigned}, ChangeTeam(p, t)
          PROVE  Guarded(flag[f])'
      BY <3>0, <3>3, <3>4 DEF ChangeTeam
    <3>5. CASE EventKilled(p)
      BY <3>0, <3>3, <3>5 DEF EventKilled
    <3>6. CASE Respawn(p)
      <4>1. flag' = flag /\ \A q \in Players :
              (alive[q] => alive'[q]) /\ team'[q] = team[q]
        BY <3>0, <3>6 DEF Respawn
      <4> QED
        BY <2>0, <3>0, <4>1, GuardCarries
    <3>7. CASE ClientDisconnect(p)
      <4>1. /\ flag'[f] \in {RemoveSelf(f, s, p), EndTouch(f, RemoveSelf(f, s, p), p)}
            /\ \A q \in Players \ {p} : alive'[q] = alive[q] /\ team'[q] = team[q]
        BY <2>0, <3>0, <3>7 DEF ClientDisconnect
      <4>2. RemoveSelf(f, s, p) \in FlagRecord(f)
        BY <2>0, RemoveSelfType
      <4>3. flag'[f].owner = s.owner /\ flag'[f].overload = s.overload \ {p}
        BY <2>0, <4>1, <4>2, HoldersKept
      <4> QED
        BY <2>0, <3>0, <4>1, <4>3, GuardCarries
    <3> QED
      BY <2>4, <3>1, <3>2, <3>4, <3>5, <3>6, <3>7 DEF PlayerStep
  <2>5. ASSUME NEW swapTeams \in BOOLEAN, RestartRound(swapTeams)
        PROVE  Guarded(flag[f])'
    <3>1. flag'[f] = ResetFlag(f, s)
      BY <2>5 DEF RestartRound
    <3>2. flag'[f].owner \in Playing \cup {Unassigned} /\ flag'[f].overload = {}
      BY <2>0, <3>1, ResetGuarded
    <3> QED
      BY <3>2, TeamsDiffer DEF Guarded
  <2>6. CASE GoToIntermission
    BY <2>6 DEF GoToIntermission
  <2>7. CASE SetRespawnStyle
    <3>1. flag' = flag /\ alive' = alive /\ team' = team
      BY <2>7 DEF SetRespawnStyle, playerVars
    <3> QED
      BY <2>0, <3>1, GuardCarries
  <2>8. CASE UNCHANGED vars
    <3>1. flag' = flag /\ alive' = alive /\ team' = team
      BY <2>8 DEF vars
    <3> QED
      BY <2>0, <3>1, GuardCarries
  <2> QED
    BY <2>1, <2>2, <2>3, <2>4, <2>5, <2>6, <2>7, <2>8 DEF Next
<1> QED
  BY <1>1, <1>2, TypeCorrect, PTL DEF Spec

=============================================================================
