-------------------------- MODULE FlagCaptureProofs --------------------------
(***************************************************************************)
(* Theorems about the change of hands in Flag: a contested flag stays as   *)
(* it is, a capture has been earned, and so Flag implements CapturePoint,  *)
(* for every number of players and flags and every key value.              *)
(***************************************************************************)
EXTENDS FlagProofs, FiniteSetTheorems

\* The part of a flag's record that decides a capture, before the owner acts.
SameClock(r, s) ==
  /\ r.owner = s.owner /\ r.lastTeam = s.lastTeam
  /\ r.nextCapture = s.nextCapture
  /\ r.touching = s.touching /\ r.stood = s.stood

LEMMA BonusKeepsClock ==
  ASSUME NEW f \in Flags, NEW s \in FlagRecord(f)
  PROVE  SameClock(Safeguard(f, TimeBonus(f, s)), s)
<1>1. SameClock(TimeBonus(f, s), s)
  BY DEF TimeBonus, Pay, FlagRecord, SameClock
<1>2. ASSUME NEW r \in FlagRecord(f)
      PROVE  SameClock(Safeguard(f, r), r)
  BY <1>2 DEF Safeguard, FlagRecord, SameClock
<1>3. CASE BonusDue(f, s)
  <2> DEFINE c == [Pay(s, BonusTeam(f, s)) EXCEPT
                     !.nextBonus = @ + KeyValues[f].teamBonusInterval]
             r == [c EXCEPT !.nextBonus = KeyValues[f].teamBonusInterval]
  <2>1. TimeBonus(f, s) = c
    BY <1>3 DEF TimeBonus
  <2>2. SameClock(c, s) /\ SameClock(r, s)
    BY DEF Pay, FlagRecord, SameClock
  <2> QED
    BY <2>1, <2>2 DEF Safeguard, SameClock
<1>4. CASE ~BonusDue(f, s)
  BY <1>2, <1>4 DEF TimeBonus
<1> QED
  BY <1>3, <1>4

LEMMA ThinkCappedKeepsClock ==
  ASSUME NEW f \in Flags, NEW s \in FlagRecord(f)
  PROVE  LET r == MaybeThinkCapped(f, s)
         IN  /\ r.lastTeam = s.lastTeam /\ r.nextCapture = s.nextCapture
             /\ r.touching = s.touching /\ r.stood = s.stood
             /\ r.owner \in {s.owner, Unassigned}
             /\ r.owner # Unassigned => ~Uncaps(f, s)
  BY DEF MaybeThinkCapped, ThinkCapped, FlagRecord

LEMMA Opponents ==
  /\ Opponent(Americans) = British /\ Opponent(British) = Americans
  /\ Americans # British /\ Playing = {Americans, British}
  BY DEF Opponent, Americans, British, Playing

\* Sole is the side that is at the flag while the other one is not.
LEMMA SoleIs ==
  ASSUME NEW f, NEW s, NEW u \in Playing,
         Takers(f, s, u) > 0, Takers(f, s, Opponent(u)) = 0
  PROVE  Sole(f, s) = u
<1> DEFINE T(v) == Takers(f, s, v)
           t == CHOOSE v \in Playing : T(v) > 0
<1>1. Sole(f, s) = t
  BY Zenon DEF Sole
<1>2. T(u) > 0 /\ T(Opponent(u)) = 0
  OBVIOUS
<1> HIDE DEF T
<1>3. t \in Playing /\ T(t) > 0
  BY <1>2, Zenon
<1> HIDE DEF t
<1>4. t = u
  BY <1>2, <1>3, Opponents
<1> QED
  BY <1>1, <1>4

LEMMA SoleIsAlone ==
  ASSUME NEW f, NEW s, NEW t \in Playing, Sole(f, s) = t
  PROVE  Takers(f, s, t) > 0 /\ Takers(f, s, Opponent(t)) = 0
<1>1. PICK u \in Playing : Takers(f, s, u) > 0 /\ Takers(f, s, Opponent(u)) = 0
  BY TeamsDiffer DEF Sole
<1> QED
  BY <1>1, SoleIs

\* Who is at a flag depends on the lists of its trigger alone, and on who is
\* where.
LEMMA GroundIsKept ==
  ASSUME NEW f, NEW s, NEW r, r.touching = s.touching
  PROVE  /\ \A t : Takers(f, r, t) = Takers(f, s, t)
         /\ Sole(f, r) = Sole(f, s)
         /\ \A t : InForce(f, r, t) = InForce(f, s, t)
<1>1. \A t : Takers(f, r, t) = Takers(f, s, t)
  BY DEF Takers
<1>2. Sole(f, r) = Sole(f, s)
  <2>1. CASE Sole(f, s) \in Playing
    BY <1>1, <2>1, SoleIsAlone, SoleIs
  <2>2. CASE Sole(f, r) \in Playing
    BY <1>1, <2>2, SoleIsAlone, SoleIs
  <2> QED
    BY <2>1, <2>2, SoleType
<1>3. \A t : InForce(f, r, t) = InForce(f, s, t)
  BY <1>1 DEF InForce
<1> QED
  BY <1>1, <1>2, <1>3

-----------------------------------------------------------------------------
(* A think of a flag that does not idle.                                   *)

\* What the observer notes first, and what it leaves alone.
LEMMA Observed ==
  ASSUME NEW f \in Flags, NEW s \in FlagRecord(f), ~Idle(s)
  PROVE  LET o == [Observe(f, s) EXCEPT !.nextThink = 1]
         IN  /\ o.owner = s.owner /\ o.lastTeam = s.lastTeam
             /\ o.nextCapture = s.nextCapture /\ o.touching = s.touching
             /\ \A t \in Playing : Sole(f, s) = t /\ InForce(f, s, t) =>
                  o.stood[t] >= 0 /\ o.stood[t] >= s.stood[t]
<1> DEFINE stood == [t \in Playing |->
                       IF ~Idle(s) /\ Sole(f, s) = t /\ InForce(f, s, t)
                       THEN IF s.stood[t] < 0 THEN 0 ELSE s.stood[t]
                       ELSE -1]
           o == [Observe(f, s) EXCEPT !.nextThink = 1]
<1>1. \A t \in Playing : Sole(f, s) = t /\ InForce(f, s, t) =>
        stood[t] >= 0 /\ stood[t] >= s.stood[t]
  <2>1. \A t \in Playing : s.stood[t] \in Int
    BY KeyValueTypes DEF FlagRecord
  <2> QED
    BY <2>1
<1>2. Observe(f, s) = [s EXCEPT !.paid = Unpaid, !.stood = stood]
  BY DEF Observe
<1> HIDE DEF stood
<1>3. /\ o.owner = s.owner /\ o.lastTeam = s.lastTeam
      /\ o.nextCapture = s.nextCapture /\ o.touching = s.touching
      /\ o.stood = stood
  BY <1>2 DEF FlagRecord
<1> QED
  BY <1>1, <1>3

\* The think is ThinkUncapped of a record r that has the clock of before, and
\* the owner unless it was lost in this think.
LEMMA BusyThink ==
  ASSUME TypeOK, NEW f \in Flags, NEW s \in FlagRecord(f), ~Idle(s)
  PROVE  \E r \in FlagRecord(f) :
           /\ Think(f, s) = ThinkUncapped(f, r)
           /\ r.lastTeam = s.lastTeam /\ r.nextCapture = s.nextCapture
           /\ r.touching = s.touching
           /\ \A t \in Playing : Sole(f, s) = t /\ InForce(f, s, t) =>
                r.stood[t] >= 0 /\ r.stood[t] >= s.stood[t]
           /\ r.owner \in {s.owner, Unassigned}
           /\ \E q \in FlagRecord(f) :
                /\ r = MaybeThinkCapped(f, q)
                /\ q.owner = s.owner /\ q.touching = s.touching
                /\ r.owner # Unassigned => ~Uncaps(f, q)
<1> DEFINE o == [Observe(f, s) EXCEPT !.nextThink = 1]
           q == Safeguard(f, TimeBonus(f, o))
           r == MaybeThinkCapped(f, q)
<1>1. Think(f, s) = ThinkUncapped(f, r)
  BY DEF Think
<1>2. Observe(f, s) \in FlagRecord(f) /\ Observe(f, s).paid = Unpaid
  BY ObserveType
<1>3. o \in FlagRecord(f) /\ o.paid = Unpaid
  BY <1>2, Stored DEF FlagRecord
<1>4. /\ o.owner = s.owner /\ o.lastTeam = s.lastTeam
      /\ o.nextCapture = s.nextCapture /\ o.touching = s.touching
      /\ \A t \in Playing : Sole(f, s) = t /\ InForce(f, s, t) =>
           o.stood[t] >= 0 /\ o.stood[t] >= s.stood[t]
  BY Observed
<1> HIDE DEF o
<1>5. q \in FlagRecord(f) /\ SameClock(q, o)
  BY <1>3, TimeBonusType, SafeguardType, BonusKeepsClock
<1> HIDE DEF q
<1>6. /\ r \in FlagRecord(f)
      /\ r.lastTeam = q.lastTeam /\ r.nextCapture = q.nextCapture
      /\ r.touching = q.touching /\ r.stood = q.stood
      /\ r.owner \in {q.owner, Unassigned}
      /\ r.owner # Unassigned => ~Uncaps(f, q)
  BY <1>5, ThinkCappedType, ThinkCappedKeepsClock
<1>7. r = MaybeThinkCapped(f, q)
  OBVIOUS
<1> HIDE DEF r
<1> QED
  BY <1>1, <1>4, <1>5, <1>6, <1>7 DEF SameClock

-----------------------------------------------------------------------------
(* A contested flag.                                                       *)

LEMMA ContestedThink ==
  ASSUME TypeOK, NEW f \in Flags, NEW s \in FlagRecord(f), ~Idle(s),
         ~KeyValues[f].hasTrigger, \A t \in Playing : Takers(f, s, t) > 0
  PROVE  Think(f, s).owner = s.owner
<1>1. PICK r \in FlagRecord(f) :
        /\ Think(f, s) = ThinkUncapped(f, r)
        /\ r.touching = s.touching
        /\ \E q \in FlagRecord(f) :
             /\ r = MaybeThinkCapped(f, q)
             /\ q.owner = s.owner /\ q.touching = s.touching
  BY BusyThink
<1>2. PICK q \in FlagRecord(f) :
        /\ r = MaybeThinkCapped(f, q)
        /\ q.owner = s.owner /\ q.touching = s.touching
  BY <1>1
<1>3. Sole(f, r) = Unassigned
  <2>1. Sole(f, s) \notin Playing
    <3> SUFFICES ASSUME Sole(f, s) \in Playing PROVE FALSE
      OBVIOUS
    <3>1. Takers(f, s, Opponent(Sole(f, s))) = 0
      BY SoleIsAlone
    <3>2. Takers(f, s, Opponent(Sole(f, s))) > 0
      BY OpponentType
    <3> QED
      BY <3>1, <3>2
  <2> QED
    BY <1>1, <2>1, GroundIsKept, SoleType
<1>4. r.owner = s.owner
  <2>1. CASE s.owner = Unassigned
    BY <1>2, <2>1 DEF MaybeThinkCapped
  <2>2. CASE s.owner # Unassigned
    <3>1. q.owner \in Playing
      BY <1>2, <2>2 DEF FlagRecord
    <3>2. Takers(f, q, q.owner) > 0
      BY <1>2, <3>1, GroundIsKept
    <3>3. Cardinality(InRadius(f, q.owner)) > 0
      BY <3>2 DEF Takers
    <3>4. FriendCount(f, q) # 0 /\ Friends(f, q) # {}
      BY <3>3, FS_EmptySet DEF FriendCount, Friends
    <3>5. ~Uncaps(f, q)
      BY <3>4 DEF Uncaps
    <3>6. MaybeThinkCapped(f, q).owner = q.owner
      BY <3>5 DEF MaybeThinkCapped, ThinkCapped, FlagRecord
    <3> QED
      BY <1>2, <3>6
  <2> QED
    BY <2>1, <2>2
<1>5. ThinkUncapped(f, r).owner = r.owner
  BY <1>3 DEF ThinkUncapped, NoContender, FlagRecord
<1> QED
  BY <1>1, <1>4, <1>5

\* While both sides have somebody at a radius flag who may take it, a think
\* neither takes it nor gives it up (CFlag::Think, with ThinkCapped and
\* ThinkUncapped), whatever the overload list and the clock hold.
THEOREM ContestedHolds == Spec => ContestedFlagHolds
<1> DEFINE Holds == \A f \in Flags :
              /\ FlagThink(f) /\ ~Idle(flag[f]) /\ ~KeyValues[f].hasTrigger
              /\ \A t \in Playing : Takers(f, flag[f], t) > 0
              => flag'[f].owner = flag[f].owner
<1>1. ASSUME TypeOK PROVE Holds
  <2> SUFFICES ASSUME NEW f \in Flags, FlagThink(f), ~Idle(flag[f]),
                      ~KeyValues[f].hasTrigger,
                      \A t \in Playing : Takers(f, flag[f], t) > 0
               PROVE  flag'[f].owner = flag[f].owner
    OBVIOUS
  <2>1. flag[f] \in FlagRecord(f) /\ flag'[f] = Think(f, flag[f])
    BY <1>1 DEF TypeOK, FlagThink
  <2> QED
    BY <1>1, <2>1, ContestedThink
<1>2. TypeOK => Holds
  BY <1>1
<1> QED
  BY <1>2, TypeCorrect, PTL DEF ContestedFlagHolds

-----------------------------------------------------------------------------
(* An earned capture.                                                      *)

\* The clock of a capture never runs ahead of the ground: the side it runs for
\* has stood for all of the capture time that is not still to come.  While the
\* other side owns the flag, that is a flag the owner may not take: it can
\* neither contest it nor, by standing there, make Think forget the clock.
Covered(f, s) ==
  \A t \in Playing : s.lastTeam = t =>
    /\ s.stood[t] >= 0
    /\ s.stood[t] + s.nextCapture >= KeyValues[f].captureTime
    /\ s.owner \in Playing => ~KeyValues[f].hasTrigger /\ ~MayTake(f, s.owner)

LEMMA UnclockedCovered ==
  ASSUME NEW f, NEW s, s.lastTeam = Unassigned
  PROVE  Covered(f, s)
  BY TeamsDiffer DEF Covered

LEMMA CaptureClock ==
  ASSUME NEW f \in Flags, NEW s \in FlagRecord(f), NEW t \in Playing
  PROVE  /\ Capture(f, s, t).owner = t
         /\ Capture(f, s, t).lastTeam = Unassigned
         /\ Capture(f, s, t).stood = s.stood
  BY DEF Capture, Pay, FlagRecord

\* An owner that keeps its flag while only the other side can be counted there
\* is one that may not take it.
LEMMA OutnumberedOwner ==
  ASSUME NEW f \in Flags, ~KeyValues[f].notUncappable,
         NEW q \in FlagRecord(f), q.owner \in Playing, ~Uncaps(f, q),
         Takers(f, q, Opponent(q.owner)) > 0, Takers(f, q, q.owner) = 0
  PROVE  ~KeyValues[f].hasTrigger /\ ~MayTake(f, q.owner)
<1>1. FriendCount(f, q) # 0
  BY DEF Uncaps
<1>2. KeyValues[f].hasTrigger => FriendCount(f, q) = Takers(f, q, q.owner)
  BY DEF FriendCount, Takers
<1>3. ~KeyValues[f].hasTrigger /\ MayTake(f, q.owner) =>
        FriendCount(f, q) = Takers(f, q, q.owner)
  BY DEF FriendCount, Takers
<1> QED
  BY <1>1, <1>2, <1>3

LEMMA ThinkCovered ==
  ASSUME TypeOK, NEW f \in Flags, ~KeyValues[f].notUncappable,
         NEW s \in FlagRecord(f), Covered(f, s)
  PROVE  LET n == Think(f, s)
         IN  /\ Covered(f, n)
             /\ n.owner \in Playing /\ n.owner # s.owner =>
                  n.stood[n.owner] >= KeyValues[f].captureTime
<1> DEFINE n == Think(f, s)
           Good == /\ Covered(f, n)
                   /\ n.owner \in Playing /\ n.owner # s.owner =>
                        n.stood[n.owner] >= KeyValues[f].captureTime
<1> SUFFICES Good
  OBVIOUS
<1>1. CASE Idle(s)
  <2>1. n.owner = Unassigned /\ n.lastTeam = Unassigned
    BY <1>1, ObserveType DEF Think, FlagRecord
  <2> QED
    BY <2>1, UnclockedCovered, TeamsDiffer
<1>2. CASE ~Idle(s)
  <2>1. PICK r \in FlagRecord(f) :
          /\ n = ThinkUncapped(f, r)
          /\ r.lastTeam = s.lastTeam /\ r.nextCapture = s.nextCapture
          /\ r.touching = s.touching
          /\ \A t \in Playing : Sole(f, s) = t /\ InForce(f, s, t) =>
               r.stood[t] >= 0 /\ r.stood[t] >= s.stood[t]
          /\ r.owner \in {s.owner, Unassigned}
          /\ \E q \in FlagRecord(f) :
               /\ r = MaybeThinkCapped(f, q)
               /\ q.owner = s.owner /\ q.touching = s.touching
               /\ r.owner # Unassigned => ~Uncaps(f, q)
    BY <1>2, BusyThink
  <2> DEFINE t == Sole(f, r)
  <2>2. t = Sole(f, s) /\ t \in Playing \cup {Unassigned}
    BY <2>1, GroundIsKept, SoleType
  <2>3. t \in Playing => Takers(f, r, t) > 0 /\ Takers(f, r, Opponent(t)) = 0
    BY SoleIsAlone
  <2>4. NoContender(r).owner = r.owner /\ NoContender(r).lastTeam = Unassigned
    BY DEF NoContender, FlagRecord
  <2>5. CASE n = NoContender(r)
    <3> HIDE DEF n
    <3> QED
      BY <2>1, <2>4, <2>5, UnclockedCovered, TeamsDiffer
  <2>6. CASE t \in Playing /\ t = r.owner
    <3>1. n = r /\ s.owner = t
      BY <2>1, <2>6, TeamsDiffer DEF ThinkUncapped
    <3>2. KeyValues[f].hasTrigger \/ MayTake(f, t)
      BY <2>3, <2>6 DEF Takers
    <3>3. r.lastTeam \notin Playing
      BY <2>1, <2>6, <3>1, <3>2 DEF Covered
    <3> HIDE DEF n
    <3> QED
      BY <2>6, <3>1, <3>3 DEF Covered
  <2>7. CASE t \in Playing /\ t # r.owner /\ InForce(f, r, t)
    <3>1. r.owner \in Playing => ~KeyValues[f].hasTrigger /\ ~MayTake(f, r.owner)
      <4> SUFFICES ASSUME r.owner \in Playing
                   PROVE  ~KeyValues[f].hasTrigger /\ ~MayTake(f, r.owner)
        OBVIOUS
      <4>1. r.owner # Unassigned
        BY TeamsDiffer
      <4>2. PICK q \in FlagRecord(f) :
              q.owner = r.owner /\ q.touching = r.touching /\ ~Uncaps(f, q)
        BY <2>1, <4>1
      <4>3. t = Opponent(r.owner) /\ r.owner = Opponent(t)
        BY <2>7, Opponents
      <4>4. Takers(f, q, Opponent(q.owner)) > 0 /\ Takers(f, q, q.owner) = 0
        BY <2>3, <2>7, <4>2, <4>3, GroundIsKept
      <4> QED
        BY <4>2, <4>4, OutnumberedOwner
    <3>2. r.stood[t] >= 0 /\ r.stood[t] >= s.stood[t]
      BY <2>1, <2>2, <2>7, GroundIsKept
    <3>3. /\ r.stood[t] \in Int /\ s.stood[t] \in Int
          /\ r.nextCapture \in Int /\ KeyValues[f].captureTime \in Nat
      BY <2>7, KeyValueTypes DEF FlagRecord
    <3>4. t # Unassigned
      BY <2>7, TeamsDiffer
    <3>5. CASE r.lastTeam # t
      <4> DEFINE c == [r EXCEPT !.lastTeam = t, !.nextCapture = KeyValues[f].captureTime]
      <4>1. n = c
        BY <2>1, <2>7, <3>4, <3>5 DEF ThinkUncapped
      <4>2. /\ c.owner = r.owner /\ c.lastTeam = t /\ c.stood = r.stood
            /\ c.nextCapture = KeyValues[f].captureTime
        BY DEF FlagRecord
      <4> HIDE DEF c
      <4>3. Covered(f, c)
        BY <3>1, <3>2, <3>3, <4>2 DEF Covered
      <4> QED
        BY <2>1, <4>1, <4>2, <4>3, TeamsDiffer
    <3>6. CASE r.lastTeam = t
      <4>1. s.stood[t] + r.nextCapture >= KeyValues[f].captureTime
        BY <2>1, <2>7, <3>6 DEF Covered
      <4>2. CASE r.nextCapture = 0
        <5>1. n = Capture(f, r, t)
          BY <2>1, <2>7, <3>4, <3>6, <4>2 DEF ThinkUncapped
        <5>2. n.owner = t /\ n.lastTeam = Unassigned /\ n.stood = r.stood
          BY <2>7, <5>1, CaptureClock
        <5>3. r.stood[t] >= KeyValues[f].captureTime
          BY <3>2, <3>3, <4>1, <4>2
        <5> HIDE DEF n
        <5> QED
          BY <5>2, <5>3, UnclockedCovered
      <4>3. CASE r.nextCapture # 0
        <5>1. n = r
          BY <2>1, <2>7, <3>4, <3>6, <4>3 DEF ThinkUncapped
        <5>2. r.stood[t] + r.nextCapture >= KeyValues[f].captureTime
          BY <3>2, <3>3, <4>1
        <5>3. Covered(f, r)
          BY <3>1, <3>2, <3>6, <5>2 DEF Covered
        <5> QED
          BY <2>1, <5>1, <5>3, TeamsDiffer
      <4> QED
        BY <4>2, <4>3
    <3> QED
      BY <3>5, <3>6
  <2>8. n = NoContender(r) \/ t \in Playing
    BY <2>1, <2>2 DEF ThinkUncapped
  <2>9. t \in Playing /\ t # r.owner /\ ~InForce(f, r, t) => n = NoContender(r)
    BY <2>1, TeamsDiffer DEF ThinkUncapped
  <2> QED
    BY <2>5, <2>6, <2>7, <2>8, <2>9
<1> QED
  BY <1>1, <1>2

LEMMA InputsCovered ==
  ASSUME TypeOK, NEW f \in Flags, ~KeyValues[f].notUncappable,
         NEW s \in FlagRecord(f), Covered(f, s)
  PROVE  /\ Covered(f, InputEnable(f, s))
         /\ Covered(f, InputDisable(f, s))
         /\ Covered(f, InputToggle(f, s))
         /\ \A t \in Playing : Covered(f, ForceCap(f, s, t))
<1> DEFINE r == [s EXCEPT !.active = TRUE, !.owner = Unassigned, !.lastTeam = Unassigned]
           d == InputDisable(f, s)
           u == [s EXCEPT !.paid = Unpaid]
<1>1. r \in FlagRecord(f) /\ r.lastTeam = Unassigned
  BY DEF FlagRecord
<1>2. Covered(f, InputEnable(f, s))
  <2> HIDE DEF r
  <2>1. Covered(f, r)
    BY <1>1, UnclockedCovered
  <2>2. Covered(f, Think(f, r))
    BY <1>1, <2>1, ThinkCovered
  <2> QED
    BY <2>2 DEF InputEnable, r
<1>3. Covered(f, d)
  <2>1. SameClock(d, s)
    BY DEF InputDisable, FlagRecord, SameClock
  <2> HIDE DEF d
  <2> QED
    BY <2>1 DEF SameClock, Covered
<1>4. u \in FlagRecord(f)
  <2>1. Unpaid \in [Playing -> 0 .. 2]
    BY DEF Unpaid
  <2> QED
    BY <2>1 DEF FlagRecord
<1>5. ASSUME NEW t \in Playing PROVE Covered(f, ForceCap(f, s, t))
  <2>1. ForceCap(f, s, t) = Capture(f, u, t)
    BY DEF ForceCap
  <2>2. Capture(f, u, t).lastTeam = Unassigned
    BY <1>4, CaptureClock
  <2> QED
    BY <2>1, <2>2, UnclockedCovered
<1> QED
  BY <1>2, <1>3, <1>5 DEF InputToggle

\* The touch handlers and RemoveSelfFromFlags change the lists, not the clock.
LEMMA ListsKeepClock ==
  ASSUME NEW f \in Flags, NEW s \in FlagRecord(f), NEW p \in Players, Covered(f, s)
  PROVE  /\ Covered(f, StartTouch(f, s, p))
         /\ Covered(f, EndTouch(f, s, p))
         /\ Covered(f, RemoveSelf(f, s, p))
<1> DEFINE Same(r) == /\ r.owner = s.owner /\ r.lastTeam = s.lastTeam
                      /\ r.nextCapture = s.nextCapture /\ r.stood = s.stood
<1>1. \A r : Same(r) => Covered(f, r)
  BY DEF Covered
<1>2. Same(StartTouch(f, s, p))
  BY DEF StartTouch, FlagRecord
<1>3. Same(EndTouch(f, s, p))
  BY DEF EndTouch, FlagRecord
<1>4. Same(RemoveSelf(f, s, p))
  BY DEF RemoveSelf, FlagRecord
<1> HIDE DEF Same
<1> QED
  BY <1>1, <1>2, <1>3, <1>4

LEMMA ElapseCovered ==
  ASSUME NEW f \in Flags, NEW s \in FlagRecord(f), Covered(f, s)
  PROVE  Covered(f, Elapse(f, s))
<1> DEFINE n == Elapse(f, s)
<1>1. /\ n.owner = s.owner /\ n.lastTeam = s.lastTeam
      /\ n.nextCapture = Down(s.nextCapture, 0)
      /\ n.stood = [t \in Playing |-> IF s.stood[t] < 0 THEN -1
                                      ELSE Up(s.stood[t], KeyValues[f].captureTime)]
  BY DEF Elapse, FlagRecord
<1>2. /\ s.nextCapture \in 0 .. KeyValues[f].captureTime
      /\ \A t \in Playing : s.stood[t] \in -1 .. KeyValues[f].captureTime
      /\ KeyValues[f].captureTime \in Nat
  BY KeyValueTypes DEF FlagRecord
<1> HIDE DEF n
<1>3. ASSUME NEW t \in Playing, n.lastTeam = t
      PROVE  /\ n.stood[t] >= 0
             /\ n.stood[t] + n.nextCapture >= KeyValues[f].captureTime
             /\ n.owner \in Playing => ~KeyValues[f].hasTrigger /\ ~MayTake(f, n.owner)
  <2>1. /\ s.stood[t] >= 0
        /\ s.stood[t] + s.nextCapture >= KeyValues[f].captureTime
        /\ s.owner \in Playing => ~KeyValues[f].hasTrigger /\ ~MayTake(f, s.owner)
    BY <1>1, <1>3 DEF Covered
  <2>2. n.stood[t] = Up(s.stood[t], KeyValues[f].captureTime)
    BY <1>1, <1>2, <2>1
  <2> QED
    BY <1>1, <1>2, <2>1, <2>2 DEF Up, Down
<1>4. Covered(f, n)
  BY <1>3 DEF Covered
<1> QED
  BY <1>4 DEF n

Clocked == \A f \in Flags : ~KeyValues[f].notUncappable => Covered(f, flag[f])

LEMMA ClockedKept ==
  ASSUME TypeOK, Clocked, [Next]_vars
  PROVE  Clocked'
<1> SUFFICES ASSUME NEW f \in Flags, ~KeyValues[f].notUncappable
             PROVE  Covered(f, flag'[f])
  BY DEF Clocked, Covered, MayTake
<1> DEFINE s == flag[f]
<1>0. s \in FlagRecord(f) /\ Covered(f, s)
  BY DEF TypeOK, Clocked
<1>1. CASE Tick
  BY <1>0, <1>1, ElapseCovered DEF Tick
<1>2. ASSUME NEW g \in Flags, FlagThink(g) PROVE Covered(f, flag'[f])
  <2>1. flag'[f] \in {s, Think(f, s)}
    BY <1>2 DEF FlagThink, TypeOK
  <2> QED
    BY <1>0, <2>1, ThinkCovered
<1>3. ASSUME NEW g \in Flags, FlagInput(g) PROVE Covered(f, flag'[f])
  <2>1. \/ flag'[f] \in {s, InputEnable(f, s), InputDisable(f, s), InputToggle(f, s)}
        \/ \E t \in Playing : flag'[f] = ForceCap(f, s, t)
    BY <1>3 DEF FlagInput, TypeOK
  <2> QED
    BY <1>0, <2>1, InputsCovered
<1>4. ASSUME NEW p \in Players, PlayerStep(p) PROVE Covered(f, flag'[f])
  <2>1. CASE flag'[f] \in {s, StartTouch(f, s, p), EndTouch(f, s, p), RemoveSelf(f, s, p)}
    BY <1>0, <2>1, ListsKeepClock
  <2>2. ASSUME NEW g \in Flags, Enter(p, g) \/ Leave(p, g)
        PROVE  Covered(f, flag'[f])
    BY <2>1, <2>2 DEF Enter, Leave, TypeOK
  <2>3. CASE ClientConnect(p) \/ Respawn(p)
    BY <2>1, <2>3 DEF ClientConnect, Respawn
  <2>4. CASE EventKilled(p) \/ \E t \in Playing \cup {Unassigned} : ChangeTeam(p, t)
    BY <2>1, <2>4 DEF EventKilled, ChangeTeam
  <2>5. CASE ClientDisconnect(p)
    <3> DEFINE r == IF gameOver THEN s ELSE RemoveSelf(f, s, p)
    <3>1. flag'[f] \in {r, EndTouch(f, r, p)}
      BY <2>5 DEF ClientDisconnect
    <3>2. r \in FlagRecord(f) /\ Covered(f, r)
      BY <1>0, RemoveSelfType, ListsKeepClock
    <3> HIDE DEF r
    <3> QED
      BY <3>1, <3>2, ListsKeepClock
  <2> QED
    BY <1>4, <2>2, <2>3, <2>4, <2>5 DEF PlayerStep
<1>5. ASSUME NEW swapTeams \in BOOLEAN, RestartRound(swapTeams)
      PROVE  Covered(f, flag'[f])
  <2>1. flag'[f] = ResetFlag(f, s)
    BY <1>5 DEF RestartRound
  <2>2. ResetFlag(f, s).lastTeam = Unassigned
    BY <1>0 DEF ResetFlag, FlagRecord
  <2> QED
    BY <2>1, <2>2, UnclockedCovered
<1>6. CASE GoToIntermission \/ SetRespawnStyle \/ UNCHANGED vars
  BY <1>0, <1>6 DEF GoToIntermission, SetRespawnStyle, playerVars, vars
<1> QED
  BY <1>1, <1>2, <1>3, <1>4, <1>5, <1>6 DEF Next

\* A flag that can be lost changes hands in a think only after the new owners
\* have stood there alone and in force for the whole capture time: m_iLastTeam
\* and m_flNextCapture are an account of what happened on the ground, through
\* deaths, swaps of the sides, the inputs and restarts of the round.
THEOREM CapturesAreEarned == Spec => CaptureIsEarned
<1> DEFINE Step == \A f \in Flags : ~KeyValues[f].notUncappable => Earned(f)
<1>1. Init => Clocked
  BY UnclockedCovered DEF Init, Spawned, Clocked
<1>2. TypeOK /\ Clocked /\ [Next]_vars => Clocked'
  BY ClockedKept
<1>3. TypeOK /\ Clocked => Step
  <2> SUFFICES ASSUME TypeOK, Clocked, NEW f \in Flags,
                      ~KeyValues[f].notUncappable, FlagThink(f), Captured(f)
               PROVE  flag'[f].stood[flag'[f].owner] >= KeyValues[f].captureTime
    BY DEF Earned
  <2>1. flag[f] \in FlagRecord(f) /\ flag'[f] = Think(f, flag[f])
    BY DEF TypeOK, FlagThink
  <2>2. Covered(f, flag[f])
    BY DEF Clocked
  <2> QED
    BY <2>1, <2>2, ThinkCovered DEF Captured
<1> QED
  BY <1>1, <1>2, <1>3, TypeCorrect, PTL DEF CaptureIsEarned, Spec

-----------------------------------------------------------------------------
(* The refinement: every handler is mapped to a look at a point, the       *)
(* passing of time, a decree, an opening, or to nothing.                   *)

LEMMA AlwaysClocked == Spec => []Clocked
<1>1. Init => Clocked
  BY UnclockedCovered DEF Init, Spawned, Clocked
<1>2. TypeOK /\ Clocked /\ [Next]_vars => Clocked'
  BY ClockedKept
<1> QED
  BY <1>1, <1>2, TypeCorrect, PTL DEF Spec

\* What the abstract point sees of a flag, apart from its owner.
SameLook(r, s) == r.stood = s.stood /\ r.nextThink = s.nextThink

LEMMA BonusKeepsLook ==
  ASSUME NEW f \in Flags, NEW s \in FlagRecord(f), s.paid = Unpaid
  PROVE  SameLook(Safeguard(f, TimeBonus(f, s)), s)
<1> DEFINE b == TimeBonus(f, s)
<1>1. SameLook(b, s)
  BY DEF TimeBonus, Pay, FlagRecord, SameLook
<1>2. b \in FlagRecord(f)
  BY TimeBonusType
<1> SUFFICES SameLook(Safeguard(f, b), s)
  OBVIOUS
<1> HIDE DEF b
<1>3. SameLook(Safeguard(f, b), b)
  BY <1>2 DEF Safeguard, FlagRecord, SameLook
<1> QED
  BY <1>1, <1>3 DEF SameLook

LEMMA CappedKeepsLook ==
  ASSUME NEW f \in Flags, NEW s \in FlagRecord(f)
  PROVE  SameLook(MaybeThinkCapped(f, s), s)
  BY DEF MaybeThinkCapped, ThinkCapped, FlagRecord, SameLook

\* ThinkUncapped gives the flag to nobody but the one side that is at it in force.
LEMMA UncappedKeepsLook ==
  ASSUME NEW f \in Flags, NEW r \in FlagRecord(f)
  PROVE  LET n == ThinkUncapped(f, r)
             t == Sole(f, r)
         IN  /\ SameLook(n, r)
             /\ \/ n.owner = r.owner
                \/ n.owner = t /\ t \in Playing /\ InForce(f, r, t)
<1> DEFINE t == Sole(f, r)
           n == ThinkUncapped(f, r)
           c == [r EXCEPT !.lastTeam = t, !.nextCapture = KeyValues[f].captureTime]
           Good(x) == /\ SameLook(x, r)
                      /\ \/ x.owner = r.owner
                         \/ x.owner = t /\ t \in Playing /\ InForce(f, r, t)
<1> SUFFICES Good(n)
  OBVIOUS
<1>1. t \in Playing \cup {Unassigned}
  BY SoleType
<1>2. Good(NoContender(r))
  BY DEF NoContender, FlagRecord, SameLook
<1>3. Good(c)
  BY DEF FlagRecord, SameLook
<1>4. Good(r)
  BY DEF SameLook
<1>5. t \in Playing /\ InForce(f, r, t) => Good(Capture(f, r, t))
  BY DEF Capture, Pay, FlagRecord, SameLook
<1>6. \/ n \in {NoContender(r), c, r}
      \/ t \in Playing /\ InForce(f, r, t) /\ n = Capture(f, r, t)
  BY <1>1 DEF ThinkUncapped
<1> HIDE DEF Good, n, c, t
<1> QED
  BY <1>2, <1>3, <1>4, <1>5, <1>6

\* The side that Observe notes.
Side(f, s) ==
  IF ~Idle(s) /\ InForce(f, s, Sole(f, s)) THEN Sole(f, s) ELSE Unassigned

LEMMA SideType ==
  ASSUME NEW f, NEW s
  PROVE  Side(f, s) \in Playing \cup {Unassigned}
  BY SoleType DEF Side

LEMMA ObserveSees ==
  ASSUME NEW f \in Flags, NEW s \in FlagRecord(f)
  PROVE  Observe(f, s).stood = Field!Seen(s.stood, Side(f, s))
<1>1. Observe(f, s).stood =
        [t \in Playing |-> IF ~Idle(s) /\ Sole(f, s) = t /\ InForce(f, s, t)
                           THEN IF s.stood[t] < 0 THEN 0 ELSE s.stood[t]
                           ELSE -1]
  BY DEF Observe, FlagRecord
<1>2. \A t \in Playing :
        (~Idle(s) /\ Sole(f, s) = t /\ InForce(f, s, t)) <=> t = Side(f, s)
  BY TeamsDiffer DEF Side
<1> QED
  BY <1>1, <1>2 DEF Field!Seen

LEMMA ThinkLooks ==
  ASSUME TypeOK, NEW f \in Flags, NEW s \in FlagRecord(f),
         KeyValues[f].notUncappable \/ Covered(f, s)
  PROVE  LET n == Think(f, s)
             side == Side(f, s)
         IN  /\ n.stood = Field!Seen(s.stood, side)
             /\ n.nextThink \in 1 .. IdlePeriod
             /\ \/ n.owner \in {s.owner, Unassigned}
                \/ /\ side # Unassigned /\ n.owner = side
                   /\ ~KeyValues[f].notUncappable =>
                        Field!Seen(s.stood, side)[side] >= KeyValues[f].captureTime
<1> DEFINE n == Think(f, s)
           side == Side(f, s)
           o == [Observe(f, s) EXCEPT !.nextThink = 1]
           q == Safeguard(f, TimeBonus(f, o))
           r == MaybeThinkCapped(f, q)
<1> SUFFICES /\ n.stood = Field!Seen(s.stood, side)
             /\ n.nextThink \in 1 .. IdlePeriod
             /\ \/ n.owner \in {s.owner, Unassigned}
                \/ n.owner = side /\ side \in Playing
  <2>1. ASSUME n.owner = side, side \in Playing, n.owner \notin {s.owner, Unassigned},
               n.stood = Field!Seen(s.stood, side), ~KeyValues[f].notUncappable
        PROVE  Field!Seen(s.stood, side)[side] >= KeyValues[f].captureTime
    <3>1. n.owner \in Playing /\ n.owner # s.owner
      BY <2>1
    <3>2. n.stood[n.owner] >= KeyValues[f].captureTime
      BY <2>1, <3>1, ThinkCovered
    <3> QED
      BY <2>1, <3>2
  <2> HIDE DEF n, side
  <2> QED
    BY <2>1, TeamsDiffer DEF n, side
<1>1. Observe(f, s) \in FlagRecord(f) /\ Observe(f, s).paid = Unpaid
  BY ObserveType
<1>2. Observe(f, s).stood = Field!Seen(s.stood, side)
  BY ObserveSees
<1>3. IdlePeriod \in Nat \ {0}
  BY ConstantsAssumption
<1>4. CASE Idle(s)
  <2>1. /\ n.stood = Observe(f, s).stood
        /\ n.nextThink = IdlePeriod /\ n.owner = Unassigned
    BY <1>1, <1>4 DEF Think, FlagRecord
  <2> QED
    BY <1>2, <1>3, <2>1
<1>5. CASE ~Idle(s)
  <2>1. n = ThinkUncapped(f, r)
    BY <1>5 DEF Think
  <2>2. o \in FlagRecord(f) /\ o.paid = Unpaid /\ o.stood = Observe(f, s).stood
        /\ o.nextThink = 1
    BY <1>1, Stored DEF FlagRecord
  <2>3. o.owner = s.owner /\ o.touching = s.touching
    BY <1>5, Observed
  <2> HIDE DEF o
  <2>4. q \in FlagRecord(f) /\ SameLook(q, o) /\ SameClock(q, o)
    BY <2>2, TimeBonusType, SafeguardType, BonusKeepsClock, BonusKeepsLook
  <2> HIDE DEF q
  <2>5. /\ r \in FlagRecord(f) /\ SameLook(r, q)
        /\ r.touching = q.touching /\ r.owner \in {q.owner, Unassigned}
    BY <2>4, ThinkCappedType, ThinkCappedKeepsClock, CappedKeepsLook
  <2> HIDE DEF r
  <2>6. /\ SameLook(n, r)
        /\ \/ n.owner = r.owner
           \/ /\ n.owner = Sole(f, r) /\ Sole(f, r) \in Playing
              /\ InForce(f, r, Sole(f, r))
    BY <2>1, <2>5, UncappedKeepsLook
  <2>7. r.touching = s.touching
    BY <2>3, <2>4, <2>5 DEF SameClock
  <2>8. /\ Sole(f, r) = Sole(f, s)
        /\ InForce(f, r, Sole(f, r)) => InForce(f, s, Sole(f, s))
    BY <2>7, GroundIsKept, Zenon
  <2>9. n.owner = r.owner \/ (n.owner = side /\ side \in Playing)
    <3>1. CASE n.owner = Sole(f, s) /\ Sole(f, s) \in Playing /\ InForce(f, s, Sole(f, s))
      <4>1. side = Sole(f, s)
        BY <1>5, <3>1 DEF Side
      <4> QED
        BY <3>1, <4>1
    <3> HIDE DEF n, side
    <3> QED
      BY <2>6, <2>8, <3>1
  <2>10. r.owner \in {s.owner, Unassigned}
    BY <2>3, <2>4, <2>5 DEF SameClock
  <2>11. n.stood = o.stood /\ n.nextThink = o.nextThink
    BY <2>4, <2>5, <2>6 DEF SameLook
  <2> HIDE DEF n, side
  <2> QED
    BY <1>2, <1>3, <2>2, <2>9, <2>10, <2>11
<1> QED
  BY <1>4, <1>5

\* A flag as the abstract point has it, in a step and by one.
Untouched(r, s) == r.owner = s.owner /\ SameLook(r, s)

LEMMA ListsAreUntouched ==
  ASSUME NEW f \in Flags, NEW s \in FlagRecord(f), NEW p \in Players
  PROVE  /\ Untouched(StartTouch(f, s, p), s)
         /\ Untouched(EndTouch(f, s, p), s)
         /\ Untouched(RemoveSelf(f, s, p), s)
         /\ Untouched(InputDisable(f, s), s)
<1>1. Untouched(StartTouch(f, s, p), s)
  BY DEF StartTouch, FlagRecord, Untouched, SameLook
<1>2. Untouched(EndTouch(f, s, p), s)
  BY DEF EndTouch, FlagRecord, Untouched, SameLook
<1>3. Untouched(RemoveSelf(f, s, p), s)
  BY DEF RemoveSelf, FlagRecord, Untouched, SameLook
<1>4. Untouched(InputDisable(f, s), s)
  BY DEF InputDisable, FlagRecord, Untouched, SameLook
<1> QED
  BY <1>1, <1>2, <1>3, <1>4

LEMMA UntouchedStutters ==
  ASSUME TypeOK, \A f \in Flags : Untouched(flag'[f], flag[f])
  PROVE  UNCHANGED Field!vars
<1>1. /\ [f \in Flags |-> flag'[f].owner] = [f \in Flags |-> flag[f].owner]
      /\ [f \in Flags |-> flag'[f].stood] = [f \in Flags |-> flag[f].stood]
      /\ [f \in Flags |-> flag'[f].nextThink] = [f \in Flags |-> flag[f].nextThink]
  BY DEF Untouched, SameLook
<1> QED
  BY <1>1 DEF Field!vars

LEMMA DecreeStep ==
  ASSUME TypeOK, \A f \in Flags : /\ flag'[f].owner \in Playing \cup {Unassigned}
                                  /\ SameLook(flag'[f], flag[f])
  PROVE  Field!Decree
<1>1. /\ [f \in Flags |-> flag'[f].owner] \in [Flags -> Playing \cup {Unassigned}]
      /\ [f \in Flags |-> flag'[f].stood] = [f \in Flags |-> flag[f].stood]
      /\ [f \in Flags |-> flag'[f].nextThink] = [f \in Flags |-> flag[f].nextThink]
  BY DEF SameLook
<1> QED
  BY <1>1 DEF Field!Decree

\* A think is a look at the point.
LEMMA ThinkIsALook ==
  ASSUME TypeOK, Clocked, NEW f \in Flags, FlagThink(f)
  PROVE  Field!Look(f)
<1> DEFINE s == flag[f]
           n == Think(f, s)
           owners == [g \in Flags |-> flag[g].owner]
           sieges == [g \in Flags |-> flag[g].stood]
           waits == [g \in Flags |-> flag[g].nextThink]
<1>0. PICK side \in Playing \cup {Unassigned} : side = Side(f, s)
  BY SideType
<1>1. /\ n.stood = Field!Seen(s.stood, side)
      /\ n.nextThink \in 1 .. IdlePeriod
      /\ \/ n.owner \in {s.owner, Unassigned}
         \/ /\ side # Unassigned /\ n.owner = side
            /\ ~KeyValues[f].notUncappable =>
                 Field!Seen(s.stood, side)[side] >= KeyValues[f].captureTime
  BY <1>0, ThinkLooks DEF TypeOK, Clocked
<1>2. /\ s.nextThink = 0
      /\ flag' = [flag EXCEPT ![f] = n]
      /\ DOMAIN flag = Flags
  BY DEF FlagThink, TypeOK
<1> HIDE DEF n
<1>4. /\ [g \in Flags |-> flag'[g].owner] = [owners EXCEPT ![f] = n.owner]
      /\ [g \in Flags |-> flag'[g].stood] = [sieges EXCEPT ![f] = n.stood]
      /\ [g \in Flags |-> flag'[g].nextThink] = [waits EXCEPT ![f] = n.nextThink]
  BY <1>2
<1>5. n.owner = s.owner => [owners EXCEPT ![f] = n.owner] = owners
  OBVIOUS
<1>6. Field!LookAt(f, side)
  BY <1>1, <1>2, <1>4 DEF Field!LookAt
<1>7. waits[f] = 0 /\ sieges[f] = s.stood
  BY <1>2
<1>8. [g \in Flags |-> KeyValues[g].captureTime][f] = KeyValues[f].captureTime
  OBVIOUS
<1> DEFINE Changes(t) ==
             \/ [g \in Flags |-> flag'[g].owner] \in {owners, [owners EXCEPT ![f] = Unassigned]}
             \/ /\ t # Unassigned
                /\ f \in {g \in Flags : ~KeyValues[g].notUncappable} =>
                     Field!Seen(sieges[f], t)[t]
                       >= [g \in Flags |-> KeyValues[g].captureTime][f]
                /\ [g \in Flags |-> flag'[g].owner] = [owners EXCEPT ![f] = t]
<1>9. Changes(side)
  <2>1. CASE n.owner \in {s.owner, Unassigned}
    BY <1>4, <1>5, <2>1
  <2>2. CASE /\ side # Unassigned /\ n.owner = side
             /\ ~KeyValues[f].notUncappable =>
                  Field!Seen(s.stood, side)[side] >= KeyValues[f].captureTime
    BY <1>4, <1>7, <1>8, <2>2
  <2> QED
    BY <1>1, <2>1, <2>2
<1> HIDE DEF Changes
<1>10. \E t \in Playing \cup {Unassigned} : Field!LookAt(f, t) /\ Changes(t)
  BY <1>6, <1>9
<1>11. waits[f] = 0
  BY <1>7
<1> QED
  BY <1>10, <1>11 DEF Field!Look, Changes

LEMMA TickPasses ==
  ASSUME TypeOK, Tick
  PROVE  Field!Pass
<1>1. ASSUME NEW f \in Flags
      PROVE  /\ flag'[f].owner = flag[f].owner
             /\ flag[f].nextThink > 0 /\ flag'[f].nextThink = flag[f].nextThink - 1
             /\ flag'[f].stood =
                  [t \in Playing |-> IF flag[f].stood[t] < 0 THEN -1
                                     ELSE Up(flag[f].stood[t], KeyValues[f].captureTime)]
  <2>1. flag[f] \in FlagRecord(f) /\ flag[f].nextThink > 0 /\ flag'[f] = Elapse(f, flag[f])
    BY DEF TypeOK, Tick
  <2>2. flag'[f].nextThink = Down(flag[f].nextThink, 0)
    BY <2>1 DEF Elapse, FlagRecord
  <2>3. flag[f].nextThink \in 0 .. IdlePeriod
    BY <2>1 DEF FlagRecord
  <2>4. /\ flag'[f].owner = flag[f].owner
        /\ flag'[f].stood =
                  [t \in Playing |-> IF flag[f].stood[t] < 0 THEN -1
                                     ELSE Up(flag[f].stood[t], KeyValues[f].captureTime)]
    BY <2>1 DEF Elapse, FlagRecord
  <2> QED
    BY <2>1, <2>2, <2>3, <2>4 DEF Down
<1>2. /\ [f \in Flags |-> flag'[f].owner] = [f \in Flags |-> flag[f].owner]
      /\ \A f \in Flags : [g \in Flags |-> flag[g].nextThink][f] > 0
      /\ [f \in Flags |-> flag'[f].nextThink]
           = [f \in Flags |-> [g \in Flags |-> flag[g].nextThink][f] - 1]
  BY <1>1
<1>3. ASSUME NEW f \in Flags
      PROVE  flag'[f].stood = Field!Longer([g \in Flags |-> flag[g].stood][f],
                                           [g \in Flags |-> KeyValues[g].captureTime][f])
  BY <1>1 DEF Field!Longer, Up
<1>4. [f \in Flags |-> flag'[f].stood]
        = [f \in Flags |-> Field!Longer([g \in Flags |-> flag[g].stood][f],
                                        [g \in Flags |-> KeyValues[g].captureTime][f])]
  BY <1>3
<1> QED
  BY <1>2, <1>4 DEF Field!Pass

\* A flag that has been enabled is neutral after the think of its input: the
\* contender that this think finds has only begun to stand there.
LEMMA EnabledIsNeutral ==
  ASSUME TypeOK, NEW f \in Flags, NEW s \in FlagRecord(f),
         s.owner = Unassigned, s.lastTeam = Unassigned
  PROVE  Think(f, s).owner = Unassigned
<1>1. CASE Idle(s)
  BY <1>1, ObserveType DEF Think, FlagRecord
<1>2. CASE ~Idle(s)
  <2>1. PICK r \in FlagRecord(f) :
          /\ Think(f, s) = ThinkUncapped(f, r)
          /\ r.lastTeam = s.lastTeam /\ r.owner \in {s.owner, Unassigned}
    BY <1>2, BusyThink
  <2> DEFINE t == Sole(f, r)
             c == [r EXCEPT !.lastTeam = t, !.nextCapture = KeyValues[f].captureTime]
  <2>2. NoContender(r).owner = r.owner /\ c.owner = r.owner
    BY DEF NoContender, FlagRecord
  <2>3. ThinkUncapped(f, r) \in {NoContender(r), r, c}
    BY <2>1, SoleType, TeamsDiffer DEF ThinkUncapped
  <2> HIDE DEF c
  <2> QED
    BY <2>1, <2>2, <2>3
<1> QED
  BY <1>1, <1>2

LEMMA EnableOpens ==
  ASSUME TypeOK, NEW f \in Flags, ~flag[f].active,
         flag' = [flag EXCEPT ![f] = InputEnable(f, @)]
  PROVE  Field!Open(f)
<1> DEFINE r == [flag[f] EXCEPT !.active = TRUE, !.owner = Unassigned,
                                !.lastTeam = Unassigned]
           n == Think(f, r)
           owners == [g \in Flags |-> flag[g].owner]
           sieges == [g \in Flags |-> flag[g].stood]
           waits == [g \in Flags |-> flag[g].nextThink]
<1>1. flag[f] \in FlagRecord(f) /\ DOMAIN flag = Flags
  BY DEF TypeOK
<1>2. /\ r \in FlagRecord(f)
      /\ r.owner = Unassigned /\ r.lastTeam = Unassigned /\ r.stood = flag[f].stood
  BY <1>1 DEF FlagRecord
<1>3. PICK side \in Playing \cup {Unassigned} : side = Side(f, r)
  BY SideType
<1>4. flag' = [flag EXCEPT ![f] = n]
  BY DEF InputEnable
<1> HIDE DEF r
<1>5. /\ n.stood = Field!Seen(flag[f].stood, side)
      /\ n.nextThink \in 1 .. IdlePeriod
  BY <1>2, <1>3, ThinkLooks, UnclockedCovered
<1>6. n.owner = Unassigned
  BY <1>2, EnabledIsNeutral
<1> HIDE DEF n
<1>7. /\ [g \in Flags |-> flag'[g].owner] = [owners EXCEPT ![f] = Unassigned]
      /\ [g \in Flags |-> flag'[g].stood] = [sieges EXCEPT ![f] = n.stood]
      /\ [g \in Flags |-> flag'[g].nextThink] = [waits EXCEPT ![f] = n.nextThink]
  BY <1>1, <1>4, <1>6
<1>8. Field!LookAt(f, side)
  BY <1>5, <1>7 DEF Field!LookAt
<1> QED
  BY <1>7, <1>8 DEF Field!Open

\* A capture that is forced is a decree.
LEMMA ForceDecrees ==
  ASSUME TypeOK, NEW f \in Flags, NEW t \in Playing,
         flag' = [flag EXCEPT ![f] = ForceCap(f, @, t)]
  PROVE  Field!Decree
<1> DEFINE u == [flag[f] EXCEPT !.paid = Unpaid]
           n == ForceCap(f, flag[f], t)
<1>1. flag[f] \in FlagRecord(f) /\ DOMAIN flag = Flags
  BY DEF TypeOK
<1>2. Unpaid \in [Playing -> 0 .. 2]
  BY DEF Unpaid
<1>3. u \in FlagRecord(f)
  BY <1>1, <1>2, Zenon DEF FlagRecord
<1>4. SameLook(u, flag[f])
  BY <1>1 DEF FlagRecord, SameLook
<1>5. n = Capture(f, u, t)
  BY DEF ForceCap
<1> HIDE DEF u, n
<1>6. n.owner = t /\ SameLook(n, u)
  BY <1>3, <1>5 DEF Capture, Pay, FlagRecord, SameLook
<1>7. ASSUME NEW g \in Flags
      PROVE  flag'[g].owner \in Playing \cup {Unassigned} /\ SameLook(flag'[g], flag[g])
  <2>1. CASE g = f
    BY <1>1, <1>4, <1>6, <2>1 DEF SameLook, n
  <2>2. CASE g # f
    <3>1. flag'[g] = flag[g] /\ flag[g] \in FlagRecord(g)
      BY <1>1, <2>2 DEF TypeOK
    <3> QED
      BY <3>1 DEF SameLook, FlagRecord
  <2> QED
    BY <2>1, <2>2
<1> QED
  BY <1>7, DecreeStep

LEMMA RestartDecrees ==
  ASSUME TypeOK, NEW swapTeams \in BOOLEAN, RestartRound(swapTeams)
  PROVE  Field!Decree
<1>1. ASSUME NEW f \in Flags
      PROVE  flag'[f].owner \in Playing \cup {Unassigned} /\ SameLook(flag'[f], flag[f])
  <2>1. flag[f] \in FlagRecord(f) /\ flag'[f] = ResetFlag(f, flag[f])
    BY DEF TypeOK, RestartRound
  <2>2. SameLook(ResetFlag(f, flag[f]), flag[f])
    BY <2>1 DEF ResetFlag, FlagRecord, SameLook
  <2> QED
    BY <2>1, <2>2, ResetGuarded
<1> QED
  BY <1>1, DecreeStep

\* Map logic opens a point, hands it out, or only shuts it.
LEMMA InputStep ==
  ASSUME TypeOK, NEW f \in Flags, FlagInput(f)
  PROVE  Field!Open(f) \/ Field!Decree \/ UNCHANGED Field!vars
<1>0. DOMAIN flag = Flags /\ \A g \in Flags : flag[g] \in FlagRecord(g)
  BY DEF TypeOK
<1>1. CASE \A g \in Flags : flag'[g] = flag[g]
  <2>1. \A g \in Flags : Untouched(flag'[g], flag[g])
    BY <1>1 DEF Untouched, SameLook
  <2> QED
    BY <2>1, UntouchedStutters
<1>2. CASE flag' = [flag EXCEPT ![f] = InputEnable(f, @)]
  <2>1. CASE flag[f].active
    <3>1. flag' = [flag EXCEPT ![f] = flag[f]]
      BY <1>2, <2>1 DEF InputEnable
    <3>2. \A g \in Flags : flag'[g] = flag[g]
      BY <1>0, <3>1
    <3> QED
      BY <1>1, <3>2
  <2>2. CASE ~flag[f].active
    BY <1>2, <2>2, EnableOpens
  <2> QED
    BY <2>1, <2>2
<1>3. CASE flag' = [flag EXCEPT ![f] = InputDisable(f, @)]
  <2>1. Untouched(InputDisable(f, flag[f]), flag[f])
    BY <1>0 DEF InputDisable, FlagRecord, Untouched, SameLook
  <2>2. \A g \in Flags : Untouched(flag[g], flag[g])
    BY DEF Untouched, SameLook
  <2>3. \A g \in Flags : flag'[g] = IF g = f THEN InputDisable(f, flag[f]) ELSE flag[g]
    BY <1>0, <1>3
  <2>4. \A g \in Flags : Untouched(flag'[g], flag[g])
    BY <2>1, <2>2, <2>3
  <2> QED
    BY <2>4, UntouchedStutters
<1>4. CASE flag' = [flag EXCEPT ![f] = InputToggle(f, @)]
  <2>1. CASE flag[f].active
    <3>1. InputToggle(f, flag[f]) = InputDisable(f, flag[f])
      BY <2>1 DEF InputToggle
    <3> QED
      BY <1>3, <1>4, <3>1
  <2>2. CASE ~flag[f].active
    <3>1. InputToggle(f, flag[f]) = InputEnable(f, flag[f])
      BY <2>2 DEF InputToggle
    <3> QED
      BY <1>2, <1>4, <3>1
  <2> QED
    BY <2>1, <2>2
<1>5. ASSUME NEW t \in Playing, flag' = [flag EXCEPT ![f] = ForceCap(f, @, t)]
      PROVE  Field!Decree
  BY <1>5, ForceDecrees
<1> QED
  BY <1>2, <1>3, <1>4, <1>5 DEF FlagInput

\* What players do reaches the lists, never the owner, the siege or the think.
LEMMA PlayerStutters ==
  ASSUME TypeOK, NEW p \in Players, PlayerStep(p)
  PROVE  UNCHANGED Field!vars
<1> SUFFICES ASSUME NEW f \in Flags
             PROVE  Untouched(flag'[f], flag[f])
  BY UntouchedStutters
<1> DEFINE s == flag[f]
<1>0. s \in FlagRecord(f) /\ DOMAIN flag = Flags
  BY DEF TypeOK
<1>1. CASE flag'[f] \in {s, StartTouch(f, s, p), EndTouch(f, s, p), RemoveSelf(f, s, p)}
  <2>1. Untouched(s, s)
    BY DEF Untouched, SameLook
  <2> QED
    BY <1>0, <1>1, <2>1, ListsAreUntouched
<1>2. ASSUME NEW g \in Flags, Enter(p, g) \/ Leave(p, g)
      PROVE  Untouched(flag'[f], flag[f])
  BY <1>0, <1>1, <1>2 DEF Enter, Leave
<1>3. CASE ClientConnect(p) \/ Respawn(p)
  BY <1>1, <1>3 DEF ClientConnect, Respawn
<1>4. CASE EventKilled(p) \/ \E t \in Playing \cup {Unassigned} : ChangeTeam(p, t)
  BY <1>1, <1>4 DEF EventKilled, ChangeTeam
<1>5. CASE ClientDisconnect(p)
  <2> DEFINE r == IF gameOver THEN s ELSE RemoveSelf(f, s, p)
  <2>1. flag'[f] \in {r, EndTouch(f, r, p)}
    BY <1>5 DEF ClientDisconnect
  <2>2. Untouched(r, s) /\ r \in FlagRecord(f)
    <3>1. Untouched(s, s)
      BY DEF Untouched, SameLook
    <3> QED
      BY <1>0, <3>1, RemoveSelfType, ListsAreUntouched
  <2> HIDE DEF r
  <2>3. Untouched(EndTouch(f, r, p), r)
    BY <2>2, ListsAreUntouched
  <2> QED
    BY <2>1, <2>2, <2>3 DEF Untouched, SameLook
<1> QED
  BY <1>2, <1>3, <1>4, <1>5 DEF PlayerStep

\* CFlag implements CapturePoint: on any map and with any players, a flag falls
\* in a think only to a side whose siege has lasted the whole capture time, and
\* nothing else that happens to it, to its players or to the round gives it away
\* except by decree.
THEOREM FlagIsACapturePoint == Spec => IsACapturePoint
<1>1. Init => Field!Init
  <2> SUFFICES ASSUME Init PROVE Field!Init
    OBVIOUS
  <2>1. ASSUME NEW f \in Flags
        PROVE  /\ flag[f].owner \in Playing \cup {Unassigned}
               /\ flag[f].stood = [t \in Playing |-> -1]
               /\ flag[f].nextThink = 0
    BY KeyValueTypes DEF Init, Spawned, StartingTeam
  <2>2. /\ [f \in Flags |-> flag[f].owner] \in [Flags -> Playing \cup {Unassigned}]
        /\ [f \in Flags |-> flag[f].stood] = [f \in Flags |-> [t \in Playing |-> -1]]
        /\ [f \in Flags |-> flag[f].nextThink] = [f \in Flags |-> 0]
    BY <2>1
  <2> QED
    BY <2>2 DEF Field!Init, Field!Nowhere
<1>2. ASSUME TypeOK, Clocked, [Next]_vars
      PROVE  [Field!Next]_Field!vars
  <2>1. CASE Tick
    BY <1>2, <2>1, TickPasses DEF Field!Next
  <2>2. ASSUME NEW f \in Flags, FlagThink(f) PROVE Field!Next
    <3>1. Field!Look(f)
      BY <1>2, <2>2, ThinkIsALook
    <3> QED
      BY <3>1 DEF Field!Next
  <2>3. ASSUME NEW f \in Flags, FlagInput(f) PROVE [Field!Next]_Field!vars
    <3>1. Field!Open(f) \/ Field!Decree \/ UNCHANGED Field!vars
      BY <1>2, <2>3, InputStep
    <3> QED
      BY <3>1 DEF Field!Next
  <2>4. ASSUME NEW p \in Players, PlayerStep(p) PROVE [Field!Next]_Field!vars
    BY <1>2, <2>4, PlayerStutters
  <2>5. ASSUME NEW swapTeams \in BOOLEAN, RestartRound(swapTeams) PROVE Field!Next
    BY <1>2, <2>5, RestartDecrees DEF Field!Next
  <2>6. CASE GoToIntermission \/ SetRespawnStyle \/ UNCHANGED vars
    <3>1. \A f \in Flags : Untouched(flag'[f], flag[f])
      BY <2>6 DEF GoToIntermission, SetRespawnStyle, playerVars, vars, Untouched, SameLook
    <3> QED
      BY <1>2, <3>1, UntouchedStutters
  <2> QED
    BY <1>2, <2>1, <2>2, <2>3, <2>4, <2>5, <2>6 DEF Next
<1> QED
  BY <1>1, <1>2, TypeCorrect, AlwaysClocked, PTL DEF Spec, IsACapturePoint, Field!Spec
=============================================================================
