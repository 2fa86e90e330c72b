--------------------------- MODULE FlagListsProofs ---------------------------
(***************************************************************************)
(* Theorems about Flag: the lists of the triggers hold who touches them,   *)
(* a flag that is lost with its holders has a living one, the bonus keeps  *)
(* its pace, and, against a clock that counts the ticks, a siege succeeds. *)
(***************************************************************************)
EXTENDS FlagCaptureProofs, FiniteSetTheorems, WellFoundedInduction

-----------------------------------------------------------------------------
(* The lists of the triggers.                                              *)

\* How often a trigger's list should hold a player.
Touches(f, t, p) ==
  IF p \in at[f] /\ alive[p] /\ team[p] = t /\ MayTake(f, t) THEN 1 ELSE 0

Listed(f, s) ==
  \A t \in Playing, p \in Players : s.touching[t][p] = Touches(f, t, p)

\* The maps that TriggerListsMatch is about.
Undisturbed == Inputs \subseteq {"ForceCap"}

LEMMA ListedIs ==
  TriggerListsMatch <=>
    (Undisturbed => \A f \in Flags :
       KeyValues[f].hasTrigger /\ flag[f].active => Listed(f, flag[f]))
  BY DEF TriggerListsMatch, Undisturbed, Listed, Touches

\* What a flag does to itself leaves its lists and its activity alone.
LEMMA ThinkKeepsLists ==
  ASSUME TypeOK, NEW f \in Flags, NEW s \in FlagRecord(f)
  PROVE  /\ Think(f, s).touching = s.touching
         /\ Think(f, s).active = s.active
<1> DEFINE Same(r) == r.touching = s.touching /\ r.active = s.active
           o == Observe(f, s)
           o1 == [o EXCEPT !.nextThink = 1]
           b == TimeBonus(f, o1)
           q == Safeguard(f, b)
           r == MaybeThinkCapped(f, q)
<1>1. o \in FlagRecord(f) /\ Same(o) /\ o.paid = Unpaid
  BY ObserveType DEF Observe, FlagRecord
<1>2. o1 \in FlagRecord(f) /\ Same(o1) /\ o1.paid = Unpaid
  BY <1>1, Stored DEF FlagRecord
<1> HIDE DEF o1
<1>3. b \in FlagRecord(f) /\ Same(b)
  BY <1>2, TimeBonusType DEF TimeBonus, Pay, FlagRecord
<1> HIDE DEF b
<1>4. q \in FlagRecord(f) /\ Same(q)
  BY <1>3, SafeguardType DEF Safeguard, FlagRecord
<1> HIDE DEF q
<1>5. r \in FlagRecord(f) /\ Same(r)
  BY <1>4, ThinkCappedType DEF MaybeThinkCapped, ThinkCapped, FlagRecord
<1> HIDE DEF r
<1>6. \A t \in Playing : Same(Capture(f, r, t))
  BY <1>5 DEF Capture, Pay, FlagRecord
<1>7. Same(NoContender(r))
  BY <1>5 DEF NoContender, FlagRecord
<1>8. Same(ThinkUncapped(f, r))
  <2>1. CASE Sole(f, r) = Unassigned
    BY <1>7, <2>1 DEF ThinkUncapped
  <2>2. CASE Sole(f, r) \in Playing
    <3>1. Same([r EXCEPT !.lastTeam = Sole(f, r),
                         !.nextCapture = KeyValues[f].captureTime])
      BY <1>5 DEF FlagRecord
    <3>2. Same(Capture(f, r, Sole(f, r)))
      BY <1>6, <2>2
    <3> QED
      BY <1>5, <1>7, <2>2, <3>1, <3>2, TeamsDiffer DEF ThinkUncapped
  <2> QED
    BY <2>1, <2>2, SoleType
<1>9. Same([o EXCEPT !.owner = Unassigned, !.lastTeam = Unassigned,
                     !.nextThink = IdlePeriod])
  BY <1>1 DEF FlagRecord
<1> QED
  BY <1>8, <1>9 DEF Think, o1, b, q, r

LEMMA ForceCapKeepsLists ==
  ASSUME NEW f \in Flags, NEW s \in FlagRecord(f), NEW t \in Playing
  PROVE  /\ ForceCap(f, s, t).touching = s.touching
         /\ ForceCap(f, s, t).active = s.active
<1>1. ASSUME NEW r, r = [s EXCEPT !.paid = Unpaid]
      PROVE  /\ Capture(f, r, t).touching = s.touching
             /\ Capture(f, r, t).active = s.active
  BY <1>1 DEF Capture, Pay, FlagRecord
<1> QED
  BY <1>1 DEF ForceCap

LEMMA RemovedFromLists ==
  ASSUME NEW f \in Flags, NEW s \in FlagRecord(f), NEW p \in Players
  PROVE  /\ RemoveSelf(f, s, p).active = s.active
         /\ \A t \in Playing, q \in Players :
              RemoveSelf(f, s, p).touching[t][q] =
                IF q = p THEN IF s.touching[t][p] > 0 THEN s.touching[t][p] - 1 ELSE 0
                ELSE s.touching[t][q]
<1>1. s.touching \in [Playing -> [Players -> Nat]]
  BY DEF FlagRecord
<1>2. /\ RemoveSelf(f, s, p).active = s.active
      /\ RemoveSelf(f, s, p).touching = [t \in Playing |-> Without(s.touching[t], p)]
  BY DEF RemoveSelf, FlagRecord
<1> QED
  BY <1>1, <1>2 DEF Without

LEMMA TouchedLists ==
  ASSUME NEW f \in Flags, NEW s \in FlagRecord(f), NEW p \in Players, TriggerHears(f, s, p)
  PROVE  /\ StartTouch(f, s, p).active = s.active
         /\ EndTouch(f, s, p).active = s.active
         /\ \A t \in Playing, q \in Players :
              /\ StartTouch(f, s, p).touching[t][q] =
                   IF alive[p] /\ t = team[p] /\ q = p THEN s.touching[t][q] + 1
                   ELSE s.touching[t][q]
              /\ EndTouch(f, s, p).touching[t][q] =
                   IF t = team[p] /\ q = p
                   THEN IF s.touching[t][p] > 0 THEN s.touching[t][p] - 1 ELSE 0
                   ELSE s.touching[t][q]
<1>1. s.touching \in [Playing -> [Players -> Nat]] /\ team[p] \in Playing
  BY DEF FlagRecord, TriggerHears
<1> DEFINE more == [s.touching EXCEPT ![team[p]][p] = @ + 1]
           fewer == [s.touching EXCEPT ![team[p]] = Without(@, p)]
<1>2. \A t \in Playing, q \in Players :
        more[t][q] = IF t = team[p] /\ q = p THEN s.touching[t][q] + 1
                     ELSE s.touching[t][q]
  BY <1>1
<1>3. \A t \in Playing, q \in Players :
        fewer[t][q] = IF t = team[p] /\ q = p
                      THEN IF s.touching[t][p] > 0 THEN s.touching[t][p] - 1 ELSE 0
                      ELSE s.touching[t][q]
  BY <1>1 DEF Without
<1> HIDE DEF more, fewer
<1>4. [s EXCEPT !.touching = more].active = s.active
        /\ [s EXCEPT !.touching = more].touching = more
  BY DEF FlagRecord
<1>5. [s EXCEPT !.touching = fewer].active = s.active
        /\ [s EXCEPT !.touching = fewer].touching = fewer
  BY DEF FlagRecord
<1>6. StartTouch(f, s, p) = IF alive[p] THEN [s EXCEPT !.touching = more] ELSE s
  BY DEF StartTouch, more
<1>7. EndTouch(f, s, p) = [s EXCEPT !.touching = fewer]
  BY DEF EndTouch, fewer
<1> QED
  BY <1>2, <1>3, <1>4, <1>5, <1>6, <1>7

\* The lists of one flag after a step that changes it, its lists having been
\* right before.
LEMMA ListsFollow ==
  ASSUME TypeOK, NEW f \in Flags, KeyValues[f].hasTrigger, Undisturbed,
         flag[f].active => Listed(f, flag[f]),
         Next, flag'[f].active
  PROVE  Listed(f, flag[f])'
<1> DEFINE s == flag[f]
<1>0. /\ s \in FlagRecord(f) /\ at[f] \subseteq Players
      /\ team \in [Players -> Playing \cup {Unassigned, Gone}]
      /\ alive \in [Players -> BOOLEAN]
      /\ s.touching \in [Playing -> [Players -> Nat]]
  BY DEF TypeOK, FlagRecord
<1>1. ASSUME flag'[f].touching = s.touching, flag'[f].active = s.active,
             \A t \in Playing, q \in Players : Touches(f, t, q)' = Touches(f, t, q)
      PROVE  Listed(f, flag[f])'
  BY <1>1 DEF Listed
<1>2. ASSUME UNCHANGED <<team, alive, at>>,
             flag'[f].touching = s.touching, flag'[f].active = s.active
      PROVE  Listed(f, flag[f])'
  BY <1>1, <1>2 DEF Touches
<1>3. CASE Tick
  <2>1. flag'[f] = Elapse(f, s) /\ UNCHANGED <<team, alive, at>>
    BY <1>3 DEF Tick, playerVars
  <2>2. flag'[f].touching = s.touching /\ flag'[f].active = s.active
    BY <1>0, <2>1 DEF Elapse, FlagRecord
  <2> QED
    BY <1>2, <2>1, <2>2
<1>4. ASSUME NEW g \in Flags, FlagThink(g) PROVE Listed(f, flag[f])'
  <2>1. flag'[f] \in {s, Think(f, s)} /\ UNCHANGED <<team, alive, at>>
    BY <1>4 DEF FlagThink, playerVars, TypeOK
  <2>2. Think(f, s).touching = s.touching /\ Think(f, s).active = s.active
    BY <1>0, ThinkKeepsLists
  <2>3. flag'[f].touching = s.touching /\ flag'[f].active = s.active
    BY <2>1, <2>2
  <2> QED
    BY <1>2, <2>1, <2>3
<1>5. ASSUME NEW g \in Flags, FlagInput(g) PROVE Listed(f, flag[f])'
  <2>1. UNCHANGED <<team, alive, at>>
    BY <1>5 DEF FlagInput, playerVars
  <2>2. PICK t \in Playing : flag' = [flag EXCEPT ![g] = ForceCap(g, @, t)]
    BY <1>5 DEF FlagInput, Undisturbed
  <2>3. flag'[f] \in {s, ForceCap(f, s, t)}
    BY <2>2 DEF TypeOK
  <2>4. /\ ForceCap(f, s, t).touching = s.touching
        /\ ForceCap(f, s, t).active = s.active
    BY <1>0, ForceCapKeepsLists
  <2>5. flag'[f].touching = s.touching /\ flag'[f].active = s.active
    BY <2>3, <2>4
  <2> QED
    BY <1>2, <2>1, <2>5
<1>6. ASSUME NEW p \in Players, PlayerStep(p) PROVE Listed(f, flag[f])'
  <2>1. ASSUME NEW g \in Flags, Enter(p, g) PROVE Listed(f, flag[f])'
    <3>1. /\ p \notin at[g] /\ alive[p] /\ team[p] \in Playing
          /\ at' = [at EXCEPT ![g] = @ \cup {p}]
          /\ flag' = [flag EXCEPT ![g] = StartTouch(g, @, p)]
          /\ UNCHANGED <<team, alive>>
      BY <2>1 DEF Enter
    <3>2. CASE g # f
      BY <1>0, <1>2, <3>1, <3>2 DEF TypeOK, Touches, Listed
    <3>3. CASE g = f
      <4>1. flag'[f] = StartTouch(f, s, p) /\ at'[f] = at[f] \cup {p}
        BY <3>1, <3>3 DEF TypeOK
      <4>2. CASE TriggerHears(f, s, p)
        <5>1. s.active /\ MayTake(f, team[p])
          BY <4>2 DEF TriggerHears
        <5>2. Listed(f, s)
          BY <5>1
        <5>3. \A t \in Playing, q \in Players : flag'[f].touching[t][q] =
                IF t = team[p] /\ q = p THEN Touches(f, t, q) + 1 ELSE Touches(f, t, q)
          BY <1>0, <3>1, <4>1, <4>2, <5>2, TouchedLists DEF Listed
        <5>4. \A t \in Playing, q \in Players : Touches(f, t, q)' =
                IF t = team[p] /\ q = p THEN 1 ELSE Touches(f, t, q)
          BY <3>1, <4>1, <5>1 DEF Touches, MayTake
        <5>5. Touches(f, team[p], p) = 0
          BY <3>1, <3>3 DEF Touches
        <5> QED
          BY <5>3, <5>4, <5>5 DEF Listed
      <4>3. CASE ~TriggerHears(f, s, p)
        <5>1. flag'[f] = s
          BY <4>1, <4>3 DEF StartTouch
        <5>2. ~MayTake(f, team[p])
          BY <3>1, <4>3, <5>1 DEF TriggerHears
        <5>3. \A t \in Playing, q \in Players : Touches(f, t, q)' = Touches(f, t, q)
          BY <3>1, <4>1, <5>2 DEF Touches, MayTake
        <5> QED
          BY <1>1, <5>1, <5>3
      <4> QED
        BY <4>2, <4>3
    <3> QED
      BY <3>2, <3>3
  <2>2. ASSUME NEW g \in Flags, Leave(p, g) PROVE Listed(f, flag[f])'
    <3>1. /\ p \in at[g]
          /\ at' = [at EXCEPT ![g] = @ \ {p}]
          /\ flag' = [flag EXCEPT ![g] = EndTouch(g, @, p)]
          /\ UNCHANGED <<team, alive>>
      BY <2>2 DEF Leave
    <3>2. CASE g # f
      BY <1>0, <1>2, <3>1, <3>2 DEF TypeOK, Touches, Listed
    <3>3. CASE g = f
      <4>1. flag'[f] = EndTouch(f, s, p) /\ at'[f] = at[f] \ {p}
        BY <3>1, <3>3 DEF TypeOK
      <4>2. CASE TriggerHears(f, s, p)
        <5>1. Listed(f, s)
          BY <4>2 DEF TriggerHears
        <5>2. \A t \in Playing, q \in Players : flag'[f].touching[t][q] =
                IF t = team[p] /\ q = p THEN 0 ELSE Touches(f, t, q)
          BY <1>0, <4>1, <4>2, <5>1, TouchedLists DEF Listed, Touches, TriggerHears
        <5>3. \A t \in Playing, q \in Players : Touches(f, t, q)' =
                IF q = p THEN 0 ELSE Touches(f, t, q)
          BY <3>1, <4>1 DEF Touches, MayTake
        <5>4. \A t \in Playing : t # team[p] => Touches(f, t, p) = 0
          BY DEF Touches
        <5> QED
          BY <5>2, <5>3, <5>4 DEF Listed
      <4>3. CASE ~TriggerHears(f, s, p)
        <5>1. flag'[f] = s
          BY <4>1, <4>3 DEF EndTouch
        <5>2. \A t \in Playing : team[p] = t => ~MayTake(f, t)
          BY <4>3, <5>1 DEF TriggerHears
        <5>3. \A t \in Playing, q \in Players : Touches(f, t, q)' = Touches(f, t, q)
          BY <3>1, <4>1, <5>2 DEF Touches, MayTake
        <5> QED
          BY <1>1, <5>1, <5>3
      <4> QED
        BY <4>2, <4>3
    <3> QED
      BY <3>2, <3>3
  <2>3. CASE ClientConnect(p)
    <3>1. \A t \in Playing, q \in Players : Touches(f, t, q)' = Touches(f, t, q)
      BY <1>0, <2>3, TeamsDiffer DEF ClientConnect, Touches, MayTake
    <3>2. flag' = flag
      BY <2>3 DEF ClientConnect
    <3> QED
      BY <1>1, <3>1, <3>2
  \* Whoever dies, changes sides or leaves is on no list and touches nothing.
  <2>4. ASSUME flag'[f] = RemoveSelf(f, s, p), ~alive'[p] \/ team'[p] \notin Playing,
               \A q \in Players \ {p} :
                 /\ alive'[q] = alive[q] /\ team'[q] = team[q]
                 /\ q \in at'[f] <=> q \in at[f]
        PROVE  Listed(f, flag[f])'
    <3>1. Listed(f, s)
      BY <1>0, <2>4, RemovedFromLists
    <3>2. \A t \in Playing, q \in Players : flag'[f].touching[t][q] =
            IF q = p THEN 0 ELSE Touches(f, t, q)
      BY <1>0, <2>4, <3>1, RemovedFromLists DEF Listed, Touches
    <3>3. \A t \in Playing, q \in Players : Touches(f, t, q)' =
            IF q = p THEN 0 ELSE Touches(f, t, q)
      BY <2>4 DEF Touches, MayTake
    <3> QED
      BY <3>2, <3>3 DEF Listed
  <2>5. ASSUME NEW t \in Playing \cup {Unassigned}, ChangeTeam(p, t)
        PROVE  Listed(f, flag[f])'
    BY <1>0, <2>4, <2>5 DEF ChangeTeam
  <2>6. CASE EventKilled(p)
    BY <1>0, <2>4, <2>6 DEF EventKilled
  <2>7. CASE Respawn(p)
    <3>1. p \notin at[f] /\ flag' = flag
      BY <2>7 DEF Respawn
    <3>2. \A t \in Playing, q \in Players : Touches(f, t, q)' = Touches(f, t, q)
      BY <1>0, <2>7, <3>1 DEF Respawn, Touches, MayTake
    <3> QED
      BY <1>1, <3>1, <3>2
  <2>8. CASE ClientDisconnect(p)
    <3> DEFINE r == IF gameOver THEN s ELSE RemoveSelf(f, s, p)
    <3>1. /\ flag'[f] = IF p \in at[f] THEN EndTouch(f, r, p) ELSE r
          /\ at'[f] = at[f] \ {p} /\ ~alive'[p]
          /\ \A q \in Players \ {p} : alive'[q] = alive[q] /\ team'[q] = team[q]
      BY <1>0, <2>8 DEF ClientDisconnect
    <3>2. r \in FlagRecord(f) /\ r.active = s.active
      BY <1>0, RemoveSelfType, RemovedFromLists
    <3>3. flag'[f].active = r.active
      <4> HIDE DEF r
      <4>1. TriggerHears(f, r, p) => EndTouch(f, r, p).active = r.active
        BY <3>2, TouchedLists
      <4>2. ~TriggerHears(f, r, p) => EndTouch(f, r, p) = r
        BY DEF EndTouch
      <4> QED
        BY <3>1, <4>1, <4>2
    <3>4. Listed(f, s) /\ s.active
      BY <3>2, <3>3
    <3>5. \A t \in Playing, q \in Players :
            /\ q # p => r.touching[t][q] = Touches(f, t, q)
            /\ r.touching[t][p] \in {0, Touches(f, t, p)}
      BY <1>0, <3>4, RemovedFromLists DEF Listed, Touches
    <3>6. \A t \in Playing, q \in Players : flag'[f].touching[t][q] =
            IF q = p THEN 0 ELSE Touches(f, t, q)
      <4>1. CASE p \in at[f] /\ TriggerHears(f, r, p)
        <5>1. flag'[f] = EndTouch(f, r, p)
          BY <3>1, <4>1
        <5>2. \A t \in Playing : t # team[p] => Touches(f, t, p) = 0
          BY DEF Touches
        <5>3. \A t \in Playing : Touches(f, t, p) \in {0, 1}
          BY DEF Touches
        <5> HIDE DEF r
        <5> QED
          BY <3>2, <3>5, <4>1, <5>1, <5>2, <5>3, TouchedLists
      <4>2. CASE ~(p \in at[f] /\ TriggerHears(f, r, p))
        <5>1. flag'[f] = r
          BY <3>1, <4>2 DEF EndTouch
        <5>2. \A t \in Playing : Touches(f, t, p) = 0
          BY <3>2, <3>4, <4>2 DEF Touches, TriggerHears
        <5> HIDE DEF r
        <5> QED
          BY <3>5, <5>1, <5>2
      <4> QED
        BY <4>1, <4>2
    <3>7. \A t \in Playing, q \in Players : Touches(f, t, q)' =
            IF q = p THEN 0 ELSE Touches(f, t, q)
      BY <3>1 DEF Touches, MayTake
    <3> QED
      BY <3>6, <3>7 DEF Listed
  <2> QED
    BY <1>6, <2>1, <2>2, <2>3, <2>5, <2>6, <2>7, <2>8 DEF PlayerStep
<1>7. ASSUME NEW swapTeams \in BOOLEAN, RestartRound(swapTeams)
      PROVE  Listed(f, flag[f])'
  <2>1. flag'[f] = ResetFlag(f, s) /\ at'[f] = {}
    BY <1>7 DEF RestartRound
  <2>2. flag'[f].touching = [t \in Playing |-> [p \in Players |-> 0]]
    BY <1>0, <2>1 DEF ResetFlag, FlagRecord
  <2> QED
    BY <2>1, <2>2 DEF Listed, Touches
<1>8. CASE GoToIntermission
  BY <1>2, <1>8 DEF GoToIntermission, playerVars
<1>9. CASE SetRespawnStyle
  BY <1>2, <1>9 DEF SetRespawnStyle, playerVars
<1> QED
  BY <1>3, <1>4, <1>5, <1>6, <1>7, <1>8, <1>9 DEF Next

\* The lists of a trigger that the map leaves alone hold those who touch it,
\* each once: through deaths, changes of side, swaps, restarts and departures,
\* also after the end of the game.
THEOREM ListsMatch == Spec => []TriggerListsMatch
<1>1. Init => TriggerListsMatch
  <2> SUFFICES ASSUME Init, NEW f \in Flags PROVE Listed(f, flag[f])
    BY ListedIs
  <2>1. /\ flag[f].touching = [t \in Playing |-> [p \in Players |-> 0]]
        /\ at[f] = {}
    BY DEF Init, Spawned
  <2> QED
    BY <2>1 DEF Listed, Touches
<1>2. ASSUME TypeOK, TriggerListsMatch, [Next]_vars PROVE TriggerListsMatch'
  <2>1. CASE UNCHANGED vars
    BY <1>2, <2>1 DEF vars, TriggerListsMatch, MayTake
  <2>2. CASE Next
    <3> SUFFICES ASSUME NEW f \in Flags, KeyValues[f].hasTrigger, Undisturbed,
                        flag'[f].active
                 PROVE  Listed(f, flag[f])'
      BY DEF TriggerListsMatch, Undisturbed, Listed, Touches, MayTake
    <3> QED
      BY <1>2, <2>2, ListedIs, ListsFollow
  <2> QED
    BY <1>2, <2>1, <2>2
<1> QED
  BY <1>1, <1>2, TypeCorrect, PTL DEF Spec

-----------------------------------------------------------------------------
(* Flags that are lost with their holders.                                 *)

\* A side that is counted at a radius flag has somebody there.
LEMMA TakersThere ==
  ASSUME NEW f \in Flags, NEW s, NEW t \in Playing,
         ~KeyValues[f].hasTrigger, Takers(f, s, t) > 0
  PROVE  InRadius(f, t) # {}
<1>1. Cardinality(InRadius(f, t)) > 0
  BY DEF Takers
<1> QED
  BY <1>1, FS_EmptySet

LEMMA ThinkLeavesHolders ==
  ASSUME TypeOK, NEW f \in Flags, NEW s \in FlagRecord(f),
         ~KeyValues[f].hasTrigger, KeyValues[f].uncapOnDeath,
         ~KeyValues[f].notUncappable, Think(f, s).owner \in Playing
  PROVE  Think(f, s).overload # {}
<1>1. ~Idle(s)
  <2>1. SUFFICES ASSUME Idle(s) PROVE FALSE
    OBVIOUS
  <2>2. Observe(f, s) \in FlagRecord(f)
    BY ObserveType
  <2>3. Think(f, s).owner = Unassigned
    BY <2>1, <2>2 DEF Think, FlagRecord
  <2> QED
    BY <2>3, TeamsDiffer
<1>2. PICK r \in FlagRecord(f) :
        /\ Think(f, s) = ThinkUncapped(f, r)
        /\ \E q \in FlagRecord(f) :
             /\ r = MaybeThinkCapped(f, q)
             /\ r.owner # Unassigned => ~Uncaps(f, q)
  BY <1>1, BusyThink
<1>3. PICK q \in FlagRecord(f) :
        r = MaybeThinkCapped(f, q) /\ (r.owner # Unassigned => ~Uncaps(f, q))
  BY <1>2
<1>4. r.owner # Unassigned => r.overload # {}
  <2> SUFFICES ASSUME r.owner # Unassigned PROVE r.overload # {}
    OBVIOUS
  <2>1. ~Uncaps(f, q) /\ q.owner # Unassigned
    BY <1>3 DEF MaybeThinkCapped
  <2>2. r = [q EXCEPT !.overload = @ \cup Friends(f, q)]
    BY <1>3, <2>1 DEF MaybeThinkCapped, ThinkCapped
  <2>3. r.overload = q.overload \cup Friends(f, q)
    BY <2>2 DEF FlagRecord
  <2> QED
    BY <2>1, <2>3 DEF Uncaps
<1> DEFINE t == Sole(f, r)
<1>5. ASSUME NEW n, n.owner = r.owner, n.overload = r.overload, Think(f, s) = n
      PROVE  Think(f, s).overload # {}
  BY <1>4, <1>5, TeamsDiffer
<1>6. /\ NoContender(r).owner = r.owner /\ NoContender(r).overload = r.overload
      /\ LET c == [r EXCEPT !.lastTeam = t, !.nextCapture = KeyValues[f].captureTime]
         IN  c.owner = r.owner /\ c.overload = r.overload
  BY DEF NoContender, FlagRecord
<1>7. CASE t = Unassigned
  BY <1>2, <1>5, <1>6, <1>7 DEF ThinkUncapped
<1>8. CASE t \in Playing
  <2>1. Capture(f, r, t).overload = InRadius(f, t)
    BY DEF Capture, Capturers, Pay, FlagRecord
  <2>2. InRadius(f, t) # {}
    BY <1>8, SoleIsAlone, TakersThere
  <2> QED
    BY <1>2, <1>5, <1>6, <1>8, <2>1, <2>2, TeamsDiffer DEF ThinkUncapped
<1> QED
  BY <1>7, <1>8, SoleType

\* A radius flag that uncaps on death is, after each of its thinks, nobody's or
\* held by somebody of its owners who is alive.
THEOREM LivingHolders == Spec => HeldByTheLiving
<1> DEFINE Held(f) ==
             /\ FlagThink(f) /\ ~gameOver /\ ~KeyValues[f].hasTrigger
             /\ KeyValues[f].uncapOnDeath /\ ~KeyValues[f].notUncappable
             /\ flag'[f].owner \in Playing
             => \E p \in flag'[f].overload : alive[p] /\ team[p] = flag'[f].owner
<1>1. ASSUME TypeOK, OverloadersGuard, [Next]_vars, NEW f \in Flags PROVE Held(f)
  <2> SUFFICES ASSUME FlagThink(f), ~gameOver, ~KeyValues[f].hasTrigger,
                      KeyValues[f].uncapOnDeath, ~KeyValues[f].notUncappable,
                      flag'[f].owner \in Playing
               PROVE  \E p \in flag'[f].overload :
                        alive[p] /\ team[p] = flag'[f].owner
    OBVIOUS
  <2>1. flag'[f] = Think(f, flag[f]) /\ flag[f] \in FlagRecord(f)
    BY <1>1 DEF FlagThink, TypeOK
  <2>2. Guarded(Think(f, flag[f]))
    BY <1>1, <2>1, ThinkGuarded DEF OverloadersGuard
  <2>3. Think(f, flag[f]).overload # {}
    BY <1>1, <2>1, ThinkLeavesHolders
  <2> QED
    BY <2>1, <2>2, <2>3, TeamsDiffer DEF Guarded
<1>2. TypeOK /\ OverloadersGuard /\ [Next]_vars => [\A f \in Flags : Held(f)]_vars
  BY <1>1
<1> QED
  BY <1>2, TypeCorrect, OverloadersGuarded, PTL DEF HeldByTheLiving, Spec

-----------------------------------------------------------------------------
(* The pace of the bonus.                                                  *)

\* A flag that never idles looks at its bonus in time, and has what is left of
\* the interval still to wait; and no side besieges its own flag.
Steady(f, s) ==
  /\ s.active
  /\ s.lastTeam # Unassigned => s.lastTeam # s.owner
  /\ s.nextThink <= 1 /\ s.nextThink <= s.nextBonus
  /\ s.age + s.nextBonus >= KeyValues[f].teamBonusInterval

\* What a step pays beyond the capture itself was due.
Due(f, s, n) ==
  \A t \in Playing :
    n.paid[t] > (IF n.owner \in Playing /\ n.owner # s.owner THEN 1 ELSE 0) =>
      s.age >= KeyValues[f].teamBonusInterval

LEMMA NeverIdle ==
  ASSUME TypeOK, NEW f \in Flags, NeverIdles(f), NEW s, s.active
  PROVE  ~Idle(s) /\ ~UsingTickets
  BY DEF TypeOK, NeverIdles, Idle, UsingTickets

\* The bonus and the safeguard.
LEMMA BonusSteady ==
  ASSUME NEW f \in Flags, KeyValues[f].teamBonusInterval # 0,
         NEW s \in FlagRecord(f), NEW o \in FlagRecord(f), Steady(f, s),
         o.owner = s.owner, o.lastTeam = s.lastTeam, o.active = s.active,
         o.nextBonus = s.nextBonus, o.age = s.age, o.paid = Unpaid, o.nextThink = 1
  PROVE  LET q == Safeguard(f, TimeBonus(f, o))
         IN  /\ q \in FlagRecord(f) /\ Steady(f, q)
             /\ q.owner = s.owner /\ q.lastTeam = s.lastTeam
             /\ \A t \in Playing : /\ q.paid[t] \in {0, 1}
                                   /\ q.paid[t] = 1 =>
                                        s.age >= KeyValues[f].teamBonusInterval
<1> DEFINE K == KeyValues[f].teamBonusInterval
           b == TimeBonus(f, o)
           q == Safeguard(f, b)
<1>1. /\ K \in Nat /\ K # 0 /\ s.age \in 0 .. K /\ s.nextBonus \in -K .. K
      /\ s.nextThink \in Nat
  BY KeyValueTypes DEF FlagRecord
<1>2. /\ s.active /\ s.nextBonus >= 0 /\ s.age + s.nextBonus >= K
      /\ s.lastTeam # Unassigned => s.lastTeam # s.owner
  BY <1>1 DEF Steady
<1>3. b \in FlagRecord(f) /\ q \in FlagRecord(f)
  BY TimeBonusType, SafeguardType
<1>4. CASE BonusDue(f, o)
  <2> DEFINE t == BonusTeam(f, o)
             c == Pay(o, t)
  <2>1. t \in Playing /\ s.nextBonus = 0
    BY <1>1, <1>2, <1>4, BonusTeamType DEF BonusDue
  <2>2. /\ c.owner = s.owner /\ c.lastTeam = s.lastTeam /\ c.active = s.active
        /\ c.nextBonus = 0 /\ c.age = 0 /\ c.nextThink = 1
        /\ c.paid = [Unpaid EXCEPT ![t] = @ + 1]
    BY <2>1 DEF Pay, FlagRecord
  <2>3. c \in FlagRecord(f)
    BY <2>1, PayType DEF Unpaid
  <2>4. b = [c EXCEPT !.nextBonus = @ + K]
    BY <1>4 DEF TimeBonus
  <2> HIDE DEF c, b
  <2>5. /\ b.owner = s.owner /\ b.lastTeam = s.lastTeam /\ b.active = s.active
        /\ b.nextBonus = K /\ b.age = 0 /\ b.nextThink = 1 /\ b.paid = c.paid
    BY <1>1, <2>2, <2>3, <2>4 DEF FlagRecord
  <2>6. q = b
    BY <1>1, <2>5 DEF Safeguard
  <2>7. Steady(f, q)
    <3>1. b.age + b.nextBonus >= K /\ b.nextThink <= 1 /\ b.nextThink <= b.nextBonus
      BY <1>1, <2>5
    <3>2. b.active /\ (b.lastTeam # Unassigned => b.lastTeam # b.owner)
      BY <1>2, <2>5
    <3> QED
      BY <2>6, <3>1, <3>2 DEF Steady
  <2>8. \A u \in Playing : q.paid[u] \in {0, 1}
    BY <2>1, <2>2, <2>5, <2>6 DEF Unpaid
  <2>9. s.age >= K
    BY <1>1, <1>2, <2>1
  <2> QED
    BY <1>3, <2>5, <2>6, <2>7, <2>8, <2>9 DEF b
<1>5. CASE ~BonusDue(f, o)
  <2>1. b = o
    BY <1>5 DEF TimeBonus
  <2>2. /\ q.owner = s.owner /\ q.lastTeam = s.lastTeam /\ q.active = s.active
        /\ q.nextBonus = IF s.nextBonus <= 0 THEN K ELSE s.nextBonus
        /\ q.age = s.age /\ q.nextThink = 1 /\ q.paid = Unpaid
    BY <2>1 DEF Safeguard, FlagRecord
  <2> HIDE DEF q
  <2>3. Steady(f, q)
    BY <1>1, <1>2, <2>2 DEF Steady
  <2>4. \A u \in Playing : q.paid[u] = 0
    BY <2>2 DEF Unpaid
  <2> QED
    BY <1>3, <2>2, <2>3, <2>4 DEF q
<1> QED
  BY <1>4, <1>5

LEMMA CappedSteady ==
  ASSUME NEW f \in Flags, NEW q \in FlagRecord(f), Steady(f, q)
  PROVE  LET r == MaybeThinkCapped(f, q)
         IN  /\ Steady(f, r) /\ r.paid = q.paid /\ r.lastTeam = q.lastTeam
             /\ r.owner \in {q.owner, Unassigned}
<1> DEFINE r == MaybeThinkCapped(f, q)
<1>1. /\ r.owner \in {q.owner, Unassigned} /\ r.lastTeam = q.lastTeam
      /\ r.active = q.active /\ r.nextThink = q.nextThink
      /\ r.nextBonus = q.nextBonus /\ r.age = q.age /\ r.paid = q.paid
  BY DEF MaybeThinkCapped, ThinkCapped, FlagRecord
<1> HIDE DEF r
<1>2. Steady(f, r)
  BY <1>1 DEF Steady
<1> QED
  BY <1>1, <1>2 DEF r

\* A capture takes the flag from the other side and starts the interval anew.
LEMMA CaptureSteady ==
  ASSUME NEW f \in Flags, KeyValues[f].teamBonusInterval # 0, ~UsingTickets,
         NEW s \in FlagRecord(f), s.active, s.nextThink <= 1, NEW t \in Playing
  PROVE  LET c == Capture(f, s, t)
         IN  /\ Steady(f, c) /\ c.owner = t
             /\ c.paid = [s.paid EXCEPT ![t] = @ + 1]
<1> DEFINE c == Capture(f, s, t)
<1>1. /\ c.active /\ c.lastTeam = Unassigned /\ c.owner = t
      /\ c.nextThink = s.nextThink /\ c.age = 0
      /\ c.nextBonus = KeyValues[f].teamBonusInterval
      /\ c.paid = [s.paid EXCEPT ![t] = @ + 1]
  BY DEF Capture, Pay, FlagRecord
<1>2. KeyValues[f].teamBonusInterval \in Nat /\ s.nextThink \in Nat
  BY KeyValueTypes DEF FlagRecord
<1> HIDE DEF c
<1>3. Steady(f, c)
  BY <1>1, <1>2 DEF Steady
<1> QED
  BY <1>1, <1>3 DEF c

LEMMA ThinkSteady ==
  ASSUME TypeOK, NEW f \in Flags, NeverIdles(f), KeyValues[f].teamBonusInterval # 0,
         NEW s \in FlagRecord(f), Steady(f, s)
  PROVE  Steady(f, Think(f, s)) /\ Due(f, s, Think(f, s))
<1> DEFINE n == Think(f, s)
           o == [Observe(f, s) EXCEPT !.nextThink = 1]
           q == Safeguard(f, TimeBonus(f, o))
           r == MaybeThinkCapped(f, q)
           t == Sole(f, r)
           K == KeyValues[f].teamBonusInterval
<1>0. ~Idle(s) /\ ~UsingTickets
  BY NeverIdle DEF Steady
<1>1. n = ThinkUncapped(f, r)
  BY <1>0 DEF Think
<1>2. Observe(f, s) \in FlagRecord(f) /\ Observe(f, s).paid = Unpaid
  BY ObserveType
<1>3. /\ o \in FlagRecord(f) /\ o.paid = Unpaid /\ o.nextThink = 1
      /\ o.owner = s.owner /\ o.lastTeam = s.lastTeam /\ o.active = s.active
      /\ o.nextBonus = s.nextBonus /\ o.age = s.age
  BY <1>2, Stored DEF Observe, FlagRecord
<1> HIDE DEF o
<1>4. /\ q \in FlagRecord(f) /\ Steady(f, q)
      /\ q.owner = s.owner /\ q.lastTeam = s.lastTeam
      /\ \A u \in Playing : q.paid[u] \in {0, 1} /\ (q.paid[u] = 1 => s.age >= K)
  BY <1>3, BonusSteady
<1> HIDE DEF q
<1>5. /\ r \in FlagRecord(f) /\ Steady(f, r)
      /\ r.owner \in {s.owner, Unassigned} /\ r.lastTeam = s.lastTeam
      /\ \A u \in Playing : r.paid[u] \in {0, 1} /\ (r.paid[u] = 1 => s.age >= K)
  BY <1>4, CappedSteady, ThinkCappedType
<1> HIDE DEF r
<1>6. ASSUME NEW c, Steady(f, c), c.owner = r.owner, c.paid = r.paid, n = c
      PROVE  Steady(f, n) /\ Due(f, s, n)
  BY <1>5, <1>6 DEF Due
<1>7. /\ r.active /\ r.nextThink <= 1 /\ r.nextThink <= r.nextBonus
      /\ r.age + r.nextBonus >= K
      /\ r.lastTeam # Unassigned => r.lastTeam # r.owner
      /\ s.lastTeam # Unassigned => s.lastTeam # s.owner
  BY <1>5 DEF Steady
<1>8. /\ Steady(f, NoContender(r))
      /\ NoContender(r).owner = r.owner /\ NoContender(r).paid = r.paid
  <2>1. LET c == NoContender(r)
        IN  /\ c.owner = r.owner /\ c.paid = r.paid /\ c.active = r.active
            /\ c.lastTeam = Unassigned /\ c.nextThink = r.nextThink
            /\ c.nextBonus = r.nextBonus /\ c.age = r.age
    BY <1>5 DEF NoContender, FlagRecord
  <2> QED
    BY <1>7, <2>1 DEF Steady
<1>9. CASE t = Unassigned
  BY <1>1, <1>6, <1>8, <1>9 DEF ThinkUncapped
<1>10. CASE t \in Playing /\ t = r.owner
  BY <1>1, <1>5, <1>6, <1>10, TeamsDiffer DEF ThinkUncapped
<1>11. CASE t \in Playing /\ t # r.owner /\ ~InForce(f, r, t)
  BY <1>1, <1>6, <1>8, <1>11, TeamsDiffer DEF ThinkUncapped
<1>12. CASE t \in Playing /\ t # r.owner /\ InForce(f, r, t) /\ r.lastTeam # t
  <2> DEFINE c == [r EXCEPT !.lastTeam = t, !.nextCapture = KeyValues[f].captureTime]
  <2>1. n = c
    BY <1>1, <1>12, TeamsDiffer DEF ThinkUncapped
  <2>2. /\ c.owner = r.owner /\ c.paid = r.paid /\ c.active = r.active
        /\ c.lastTeam = t /\ c.nextThink = r.nextThink
        /\ c.nextBonus = r.nextBonus /\ c.age = r.age
    BY <1>5 DEF FlagRecord
  <2> HIDE DEF c
  <2>3. Steady(f, c)
    BY <1>7, <1>12, <2>2 DEF Steady
  <2> QED
    BY <1>6, <2>1, <2>2, <2>3
<1>13. CASE /\ t \in Playing /\ t # r.owner /\ InForce(f, r, t)
            /\ r.lastTeam = t /\ r.nextCapture # 0
  BY <1>1, <1>5, <1>6, <1>13, TeamsDiffer DEF ThinkUncapped
<1>14. CASE /\ t \in Playing /\ t # r.owner /\ InForce(f, r, t)
            /\ r.lastTeam = t /\ r.nextCapture = 0
  <2>1. n = Capture(f, r, t)
    BY <1>1, <1>14, TeamsDiffer DEF ThinkUncapped
  <2>2. Steady(f, n) /\ n.owner = t /\ n.paid = [r.paid EXCEPT ![t] = @ + 1]
    BY <1>0, <1>5, <1>7, <1>14, <2>1, CaptureSteady
  <2>3. t # s.owner
    BY <1>5, <1>7, <1>14, TeamsDiffer
  <2>4. r.paid \in [Playing -> 0 .. 2]
    BY <1>5 DEF FlagRecord
  <2>5. \A u \in Playing : n.paid[u] > 1 => r.paid[u] = 1
    BY <1>5, <2>2, <2>4
  <2> HIDE DEF n
  <2>6. Due(f, s, n)
    BY <1>5, <1>14, <2>2, <2>3, <2>5 DEF Due
  <2> QED
    BY <2>2, <2>6 DEF n
<1> QED
  BY <1>9, <1>10, <1>11, <1>12, <1>13, <1>14, SoleType

LEMMA ElapseSteady ==
  ASSUME NEW f \in Flags, NEW s \in FlagRecord(f), Steady(f, s), s.nextThink > 0
  PROVE  Steady(f, Elapse(f, s))
<1> DEFINE K == KeyValues[f].teamBonusInterval
           e == Elapse(f, s)
<1>1. /\ e.active = s.active /\ e.lastTeam = s.lastTeam /\ e.owner = s.owner
      /\ e.nextThink = Down(s.nextThink, 0) /\ e.nextBonus = Down(s.nextBonus, -K)
      /\ e.age = Up(s.age, K)
  BY DEF Elapse, FlagRecord
<1>2. /\ K \in Nat /\ s.age \in 0 .. K /\ s.nextBonus \in -K .. K /\ s.nextThink \in Nat
  BY KeyValueTypes DEF FlagRecord
<1>3. /\ s.active /\ s.nextThink <= 1 /\ s.nextThink <= s.nextBonus
      /\ s.age + s.nextBonus >= K
      /\ s.lastTeam # Unassigned => s.lastTeam # s.owner
  BY DEF Steady
<1> HIDE DEF e
<1>4. e.nextThink = 0 /\ e.nextBonus = s.nextBonus - 1 /\ e.nextBonus >= 0
  BY <1>1, <1>2, <1>3 DEF Down
<1>5. e.age + e.nextBonus >= K
  BY <1>1, <1>2, <1>3, <1>4 DEF Up
<1>6. Steady(f, e)
  BY <1>1, <1>3, <1>4, <1>5 DEF Steady
<1> QED
  BY <1>6 DEF e

\* What players do to the lists, and a restart, leave the bonus alone.
LEMMA ListsSteady ==
  ASSUME NEW f \in Flags, NEW s \in FlagRecord(f), Steady(f, s), NEW p \in Players
  PROVE  /\ Steady(f, StartTouch(f, s, p))
         /\ Steady(f, EndTouch(f, s, p))
         /\ Steady(f, RemoveSelf(f, s, p))
<1> DEFINE Same(r) ==
      /\ r.active = s.active /\ r.lastTeam = s.lastTeam /\ r.owner = s.owner
      /\ r.nextThink = s.nextThink /\ r.nextBonus = s.nextBonus /\ r.age = s.age
<1>1. \A r : Same(r) => Steady(f, r)
  BY DEF Steady
<1>2. Same(StartTouch(f, s, p)) /\ Same(EndTouch(f, s, p)) /\ Same(RemoveSelf(f, s, p))
  BY DEF StartTouch, EndTouch, RemoveSelf, FlagRecord
<1> QED
  BY <1>1, <1>2

LEMMA ResetSteady ==
  ASSUME NEW f \in Flags, NEW s \in FlagRecord(f), Steady(f, s),
         ~KeyValues[f].startDisabled
  PROVE  Steady(f, ResetFlag(f, s))
<1> DEFINE r == ResetFlag(f, s)
<1>1. /\ r.active /\ r.lastTeam = Unassigned
      /\ r.nextThink = s.nextThink /\ r.nextBonus = s.nextBonus /\ r.age = s.age
  BY DEF ResetFlag, FlagRecord
<1> QED
  BY <1>1 DEF Steady

\* The flags that BonusIsPaced is about; one without a bonus is never paid early.
Paying(f) == NeverIdles(f) /\ KeyValues[f].teamBonusInterval # 0

AllSteady == \A f \in Flags : Paying(f) => Steady(f, flag[f])

LEMMA StepSteady ==
  ASSUME TypeOK, Next, NEW f \in Flags, Paying(f), Steady(f, flag[f])
  PROVE  Steady(f, flag'[f])
<1> DEFINE s == flag[f]
<1>0. s \in FlagRecord(f) /\ NeverIdles(f) /\ KeyValues[f].teamBonusInterval # 0
  BY DEF TypeOK, Paying
<1>1. CASE Tick
  BY <1>0, <1>1, ElapseSteady DEF Tick
<1>2. ASSUME NEW g \in Flags, FlagThink(g) PROVE Steady(f, flag'[f])
  <2>1. flag'[f] \in {s, Think(f, s)}
    BY <1>2 DEF FlagThink, TypeOK
  <2> QED
    BY <1>0, <2>1, ThinkSteady
<1>3. ASSUME NEW g \in Flags, FlagInput(g) PROVE Steady(f, flag'[f])
  <2>1. PICK t \in Playing : flag' = [flag EXCEPT ![g] = ForceCap(g, @, t)]
    BY <1>0, <1>3 DEF FlagInput, NeverIdles
  <2>2. flag'[f] \in {s, ForceCap(f, s, t)}
    BY <2>1 DEF TypeOK
  <2> DEFINE u == [s EXCEPT !.paid = Unpaid]
  <2>3. u \in FlagRecord(f) /\ u.active /\ u.nextThink <= 1
    <3>1. Unpaid \in [Playing -> 0 .. 2]
      BY DEF Unpaid
    <3> QED
      BY <1>0, <3>1 DEF Steady, FlagRecord
  <2>4. ~UsingTickets
    BY <1>0, NeverIdle DEF Steady
  <2> HIDE DEF u
  <2>5. Steady(f, Capture(f, u, t))
    BY <1>0, <2>3, <2>4, CaptureSteady
  <2>6. Steady(f, ForceCap(f, s, t))
    BY <2>5 DEF ForceCap, u
  <2> QED
    BY <2>2, <2>6
<1>4. ASSUME NEW p \in Players, PlayerStep(p) PROVE Steady(f, flag'[f])
  <2>1. ASSUME NEW g \in Flags, Enter(p, g) \/ Leave(p, g) PROVE Steady(f, flag'[f])
    <3>1. flag'[f] \in {s, StartTouch(f, s, p), EndTouch(f, s, p)}
      BY <2>1 DEF Enter, Leave, TypeOK
    <3> QED
      BY <1>0, <3>1, ListsSteady
  <2>2. CASE ClientConnect(p) \/ Respawn(p)
    BY <2>2 DEF ClientConnect, Respawn
  <2>3. ASSUME flag'[f] = RemoveSelf(f, s, p) PROVE Steady(f, flag'[f])
    BY <1>0, <2>3, ListsSteady
  <2>4. ASSUME NEW t \in Playing \cup {Unassigned}, ChangeTeam(p, t)
        PROVE  Steady(f, flag'[f])
    BY <2>3, <2>4 DEF ChangeTeam
  <2>5. CASE EventKilled(p)
    BY <2>3, <2>5 DEF EventKilled
  <2>6. CASE ClientDisconnect(p)
    <3> DEFINE r == IF gameOver THEN s ELSE RemoveSelf(f, s, p)
    <3>1. flag'[f] \in {r, EndTouch(f, r, p)}
      BY <2>6 DEF ClientDisconnect
    <3>2. r \in FlagRecord(f) /\ Steady(f, r)
      BY <1>0, RemoveSelfType, ListsSteady
    <3> HIDE DEF r
    <3> QED
      BY <3>1, <3>2, ListsSteady
  <2> QED
    BY <1>4, <2>1, <2>2, <2>4, <2>5, <2>6 DEF PlayerStep
<1>5. ASSUME NEW swapTeams \in BOOLEAN, RestartRound(swapTeams)
      PROVE  Steady(f, flag'[f])
  BY <1>0, <1>5, ResetSteady DEF RestartRound, NeverIdles
<1>6. CASE GoToIntermission \/ SetRespawnStyle
  BY <1>6 DEF GoToIntermission, SetRespawnStyle
<1> QED
  BY <1>1, <1>2, <1>3, <1>4, <1>5, <1>6 DEF Next

\* A flag that never idles pays its bonus an interval after the last points,
\* however it came to its owner meanwhile.
THEOREM BonusPaced == Spec => BonusIsPaced
<1> DEFINE Paced(f, t) ==
             /\ FlagThink(f) /\ NeverIdles(f)
             /\ flag'[f].paid[t] > (IF Captured(f) THEN 1 ELSE 0)
             => flag[f].age >= KeyValues[f].teamBonusInterval
<1>1. Init => AllSteady
  <2> SUFFICES ASSUME Init, NEW f \in Flags, Paying(f) PROVE Steady(f, flag[f])
    BY DEF AllSteady
  <2>1. KeyValues[f].teamBonusInterval \in Nat /\ ~KeyValues[f].startDisabled
    BY KeyValueTypes DEF Paying, NeverIdles
  <2>2. flag[f] = Spawned(f)
    BY DEF Init
  <2>3. flag[f].active
    <3>1. (~KeyValues[f].startDisabled) = TRUE
      BY <2>1
    <3>2. Spawned(f).active \in BOOLEAN
      BY SpawnedType DEF FlagRecord
    <3>3. Spawned(f).active <=> ~KeyValues[f].startDisabled
      BY DEF Spawned
    <3> QED
      BY <2>2, <3>1, <3>2, <3>3
  <2>4. /\ flag[f].lastTeam = Unassigned
        /\ flag[f].nextThink = 0 /\ flag[f].nextBonus = 0
        /\ flag[f].age = KeyValues[f].teamBonusInterval
    BY <2>2 DEF Spawned
  <2> QED
    BY <2>1, <2>3, <2>4 DEF Steady
<1>2. ASSUME TypeOK, AllSteady, [Next]_vars PROVE AllSteady'
  <2>1. CASE UNCHANGED vars
    BY <1>2, <2>1 DEF vars, AllSteady, Paying, NeverIdles, Steady
  <2>2. CASE Next
    <3> SUFFICES ASSUME NEW f \in Flags, Paying(f) PROVE Steady(f, flag'[f])
      BY DEF AllSteady, Paying, NeverIdles, Steady
    <3> QED
      BY <1>2, <2>2, StepSteady DEF AllSteady
  <2> QED
    BY <1>2, <2>1, <2>2
<1>3. ASSUME TypeOK, AllSteady, NEW f \in Flags, NEW t \in Playing PROVE Paced(f, t)
  <2> SUFFICES ASSUME FlagThink(f), NeverIdles(f),
                      flag'[f].paid[t] > (IF Captured(f) THEN 1 ELSE 0)
               PROVE  flag[f].age >= KeyValues[f].teamBonusInterval
    OBVIOUS
  <2>1. flag'[f] = Think(f, flag[f]) /\ flag[f] \in FlagRecord(f)
    BY <1>3 DEF FlagThink, TypeOK
  <2>2. CASE KeyValues[f].teamBonusInterval = 0
    BY <2>1, <2>2 DEF FlagRecord
  <2>3. CASE KeyValues[f].teamBonusInterval # 0
    <3>1. Steady(f, flag[f])
      BY <1>3, <2>3 DEF AllSteady, Paying
    <3>2. Due(f, flag[f], Think(f, flag[f]))
      BY <1>3, <2>1, <2>3, <3>1, ThinkSteady
    <3> QED
      BY <2>1, <3>2 DEF Due, Captured
  <2> QED
    BY <2>2, <2>3
<1>4. TypeOK /\ AllSteady /\ [Next]_vars =>
        [\A f \in Flags, t \in Playing : Paced(f, t)]_vars
  BY <1>3
<1> QED
  BY <1>1, <1>2, <1>4, TypeCorrect, PTL DEF BonusIsPaced, Spec

-----------------------------------------------------------------------------
(* The entries of a trigger's list are a number.                           *)

\* A set of numbers that is not empty has a least element.
LEMMA LeastNumber ==
  ASSUME NEW T \in SUBSET Nat, T # {}
  PROVE  \E n \in T : \A m \in T : ~(m < n)
<1> DEFINE R == OpToRel(<, Nat)
<1>1. IsWellFoundedOn(R, Nat)
  BY NatLessThanWellFounded, Zenon
<1>2. \A x, y \in Nat : x < y => <<x, y>> \in R
  BY DEF OpToRel
<1> HIDE DEF R
<1>3. \E n \in T : \A m \in T : ~(<<m, n>> \in R)
  BY <1>1, WFMin
<1> QED BY <1>2, <1>3

\* The function iter of the fold of a list, for the sets of up to k players.
AnyOf(s) == CHOOSE x \in s : TRUE
UpTo(k) == {s \in SUBSET Players : Cardinality(s) <= k}
Sum(list, g, s) ==
  IF s = {} THEN 0
  ELSE list[AnyOf(s)] + g[s \ {AnyOf(s)}]
Summed(list, k, g) == g = [s \in UpTo(k) |-> Sum(list, g, s)]

LEMMA OneLess ==
  /\ IsFiniteSet(Players)
  /\ \A s \in SUBSET Players :
       /\ Cardinality(s) \in Nat /\ Cardinality(s) <= Cardinality(Players)
       /\ s # {} => /\ AnyOf(s) \in Players /\ s \ {AnyOf(s)} \in SUBSET Players
                    /\ Cardinality(s \ {AnyOf(s)}) = Cardinality(s) - 1
                    /\ Cardinality(s) # 0
<1>1. IsFiniteSet(Players)
  BY FS_Interval, ConstantsAssumption DEF Players
<1>2. ASSUME NEW s \in SUBSET Players
      PROVE  /\ IsFiniteSet(s)
             /\ Cardinality(s) \in Nat /\ Cardinality(s) <= Cardinality(Players)
  BY <1>1, FS_Subset, FS_CardinalityType
<1>3. ASSUME NEW s \in SUBSET Players, s # {}, NEW x \in s
      PROVE  Cardinality(s \ {x}) = Cardinality(s) - 1 /\ Cardinality(s) # 0
  BY <1>2, <1>3, FS_RemoveElement, FS_EmptySet
<1>4. ASSUME NEW s \in SUBSET Players, s # {} PROVE AnyOf(s) \in s
  BY <1>4 DEF AnyOf
<1> QED BY <1>1, <1>2, <1>3, <1>4

LEMMA SumExists ==
  ASSUME NEW list, NEW k \in Nat
  PROVE  \E g : Summed(list, k, g)
<1> DEFINE T == {n \in Nat : ~ \E g : Summed(list, n, g)}
<1> SUFFICES ASSUME T # {} PROVE FALSE
  OBVIOUS
<1>1. PICK n \in T : \A m \in T : ~(m < n)
  BY LeastNumber
<1>2. CASE n = 0
  <2> DEFINE g == [s \in UpTo(0) |-> 0]
  <2>1. ASSUME NEW s \in UpTo(0), s # {} PROVE FALSE
    <3>1. s \in SUBSET Players /\ Cardinality(s) <= 0
      BY DEF UpTo
    <3>2. Cardinality(s) \in Nat /\ Cardinality(s) # 0
      BY <2>1, <3>1, OneLess
    <3> QED BY <3>1, <3>2
  <2>2. g = [s \in UpTo(0) |-> Sum(list, g, s)]
    BY <2>1 DEF Sum
  <2> QED BY <1>1, <1>2, <2>2 DEF Summed
<1>3. CASE n # 0
  <2>1. n \in Nat /\ n - 1 \in Nat /\ n - 1 < n
    BY <1>3
  <2>2. PICK g : Summed(list, n - 1, g)
    BY <1>1, <2>1
  <2> DEFINE h == [s \in UpTo(n) |-> Sum(list, g, s)]
  <2>3. \A s \in UpTo(n - 1) : s \in UpTo(n) /\ g[s] = Sum(list, g, s)
    <3>1. \A s \in UpTo(n - 1) : g[s] = Sum(list, g, s)
      BY <2>2 DEF Summed
    <3>2. ASSUME NEW s \in UpTo(n - 1) PROVE s \in UpTo(n)
      <4>1. s \in SUBSET Players /\ Cardinality(s) <= n - 1
        BY DEF UpTo
      <4>2. Cardinality(s) \in Nat
        BY <4>1, OneLess
      <4>3. Cardinality(s) <= n
        BY <2>1, <4>1, <4>2
      <4> QED BY <4>1, <4>3 DEF UpTo
    <3> QED BY <3>1, <3>2
  <2>4. \A s \in UpTo(n - 1) : h[s] = g[s]
    BY <2>3
  <2>5. ASSUME NEW s \in UpTo(n), s # {}
        PROVE  s \ {AnyOf(s)} \in UpTo(n - 1)
    BY <2>1, <2>5, OneLess DEF UpTo
  <2>6. h = [s \in UpTo(n) |-> Sum(list, g, s)]
    OBVIOUS
  <2> HIDE DEF h
  <2>7. \A s \in UpTo(n) : Sum(list, g, s) = Sum(list, h, s)
    BY <2>4, <2>5 DEF Sum
  <2>8. h = [s \in UpTo(n) |-> Sum(list, h, s)]
    BY <2>6, <2>7
  <2> QED BY <1>1, <2>8 DEF Summed
<1> QED BY <1>2, <1>3

LEMMA TotalStays ==
  ASSUME NEW S, 0 \in S, \A x, y \in S : x + y \in S, NEW list \in [Players -> S]
  PROVE  Total(list) \in S
<1> DEFINE iter == CHOOSE g : g = [s \in SUBSET Players |-> Sum(list, g, s)]
           k == Cardinality(Players)
<1>1. Total(list) = iter[Players]
  BY DEF Total, MapThenSumSet, MapThenFoldSet, Sum, AnyOf
<1>2. k \in Nat /\ UpTo(k) = SUBSET Players
  BY OneLess, FS_CardinalityType DEF UpTo
<1>3. PICK g : Summed(list, k, g)
  BY <1>2, SumExists
<1>4. iter = [s \in SUBSET Players |-> Sum(list, iter, s)]
  BY <1>2, <1>3 DEF Summed
<1> HIDE DEF iter, k
<1> DEFINE T == {n \in Nat : \E s \in SUBSET Players : Cardinality(s) = n /\ iter[s] \notin S}
<1>5. ASSUME T # {} PROVE FALSE
  <2>1. PICK n \in T : \A m \in T : ~(m < n)
    BY <1>5, LeastNumber
  <2>2. PICK s \in SUBSET Players : Cardinality(s) = n /\ iter[s] \notin S
    BY <2>1
  <2> DEFINE x == AnyOf(s)
  <2>3. iter[s] = IF s = {} THEN 0 ELSE list[x] + iter[s \ {x}]
    BY <1>4 DEF Sum
  <2>4. s # {}
    BY <2>2, <2>3
  <2>5. x \in Players /\ s \ {x} \in SUBSET Players /\ Cardinality(s \ {x}) = n - 1 /\ n # 0
    BY <2>2, <2>4, OneLess
  <2> HIDE DEF x
  <2>6. n - 1 \in Nat /\ n - 1 < n
    BY <2>1, <2>5
  <2>7. iter[s \ {x}] \in S
    BY <2>1, <2>5, <2>6
  <2>8. list[x] \in S
    BY <2>5
  <2> QED BY <2>2, <2>3, <2>4, <2>7, <2>8
<1>6. Cardinality(Players) \in Nat
  BY OneLess
<1> QED BY <1>1, <1>5, <1>6

LEMMA TotalIsNumber ==
  ASSUME NEW list \in [Players -> Nat]
  PROVE  Total(list) \in Nat
<1>1. \A x, y \in Nat : x + y \in Nat
  OBVIOUS
<1> QED BY <1>1, TotalStays

LEMMA EmptyTotal == Total([p \in Players |-> 0]) = 0
<1>1. \A x, y \in {0} : x + y \in {0}
  OBVIOUS
<1> QED BY <1>1, TotalStays

-----------------------------------------------------------------------------
(* A siege that is kept up succeeds.                                       *)
(*                                                                         *)
(* The capture hangs on timers that Tick counts down: the flag's next      *)
(* think, and from the think that finds the side in force the capture      *)
(* time.  That they come to an end, whatever the capture time, is argued   *)
(* with a clock: there is a time d by which the side owns the flag, since  *)
(* no step takes what the siege still owes and the clock together beyond   *)
(* d.                                                                      *)

\* A clock, which moves with the ticks and at no other steps.
VARIABLE now

Clock == now = 0 /\ [][Tick /\ now' = now + 1]_now

\* Whatever the time, more of it will pass.  FairSpec keeps the clock going: a
\* frame is always due or held up by a think that is.
TimePasses == [](\A d \in Nat : <>(now > d))

\* A trigger's flag that uncaps on death looks for its holders by index and may
\* not find them (IndexedPlayers): it must not be one that can be lost.
HoldersAreFound ==
  \A f \in Flags : KeyValues[f].hasTrigger /\ KeyValues[f].uncapOnDeath =>
                     KeyValues[f].notUncappable

\* The ticks that the siege of the side t takes at most from here on.
Owed(f, t) ==
  IF flag[f].lastTeam # t THEN flag[f].nextThink + KeyValues[f].captureTime + IdlePeriod
  ELSE IF flag[f].nextCapture > 0 THEN flag[f].nextCapture + IdlePeriod
  ELSE flag[f].nextThink

OwedBy(f, t, d) == flag[f].owner # t /\ Owed(f, t) + now <= d

LEMMA TakersNumber ==
  ASSUME TypeOK, NEW f \in Flags, NEW s \in FlagRecord(f), NEW t \in Playing
  PROVE  Takers(f, s, t) \in Nat /\ Cardinality(Members(t)) \in Nat
<1>1. Total(s.touching[t]) \in Nat
  BY TotalIsNumber DEF FlagRecord
<1>2. IsFiniteSet(Members(t)) /\ IsFiniteSet(InRadius(f, t))
  <2>1. Members(t) \in SUBSET Players /\ InRadius(f, t) \in SUBSET Players
    BY DEF Members, InRadius, TypeOK
  <2> QED BY <2>1, OneLess, FS_Subset
<1>3. Cardinality(Members(t)) \in Nat /\ Cardinality(InRadius(f, t)) \in Nat
  BY <1>2, FS_CardinalityType
<1> QED BY <1>1, <1>3 DEF Takers

LEMMA HoldersInForce ==
  ASSUME TypeOK, NEW f \in Flags, NEW t \in Playing, HoldsGround(f, t)
  PROVE  /\ flag[f] \in FlagRecord(f) /\ ~Idle(flag[f]) /\ Sole(f, flag[f]) = t
         /\ InForce(f, flag[f], t)
<1> DEFINE n == Takers(f, flag[f], t)
           a == KeyValues[f].capturePlayers
           b == Cardinality(Members(t))
<1>1. flag[f] \in FlagRecord(f) /\ ~Idle(flag[f]) /\ Sole(f, flag[f]) = t
  BY DEF TypeOK, HoldsGround
<1>2. n \in Nat /\ b \in Nat /\ a \in Nat
  BY <1>1, TakersNumber, ConstantsAssumption DEF KeyValueRecord
<1>3. n >= a \/ n >= b
  BY DEF HoldsGround
<1>4. n >= Min({a, b})
  <2> HIDE DEF n, a, b
  <2> DEFINE S == {a, b}
  <2>1. \E x \in S : \A y \in S : x <= y
    BY <1>2
  <2>2. Min(S) \in S /\ \A y \in S : Min(S) <= y
    <3> HIDE DEF S
    <3> QED BY <2>1 DEF Min
  <2> QED BY <1>2, <1>3, <2>2
<1> QED BY <1>1, <1>4 DEF InForce

\* What a think makes of the siege of a side that is at the flag in force.
LEMMA SiegeThink ==
  ASSUME TypeOK, NEW f \in Flags, NEW s \in FlagRecord(f), NEW t \in Playing,
         ~Idle(s), Sole(f, s) = t, InForce(f, s, t), s.owner # t
  PROVE  LET n == Think(f, s)
         IN  \/ n.owner = t
             \/ s.lastTeam # t /\ n.lastTeam = t /\ n.nextCapture = KeyValues[f].captureTime
             \/ /\ s.lastTeam = t /\ n.lastTeam = t
                /\ s.nextCapture > 0 /\ n.nextCapture = s.nextCapture
<1>1. PICK r \in FlagRecord(f) :
        /\ Think(f, s) = ThinkUncapped(f, r)
        /\ r.lastTeam = s.lastTeam /\ r.nextCapture = s.nextCapture
        /\ r.touching = s.touching /\ r.owner \in {s.owner, Unassigned}
  BY BusyThink
<1>2. Sole(f, r) = t /\ InForce(f, r, t)
  BY <1>1, GroundIsKept
<1>3. t # Unassigned /\ t # r.owner
  BY <1>1, TeamsDiffer
<1> DEFINE c == [r EXCEPT !.lastTeam = t, !.nextCapture = KeyValues[f].captureTime]
<1>4. Think(f, s) = IF r.lastTeam # t THEN c
                    ELSE IF r.nextCapture = 0 THEN Capture(f, r, t) ELSE r
  BY <1>1, <1>2, <1>3 DEF ThinkUncapped
<1>5. c.lastTeam = t /\ c.nextCapture = KeyValues[f].captureTime
  BY DEF FlagRecord
<1> HIDE DEF c
<1>6. Capture(f, r, t).owner = t
  BY CaptureClock
<1>7. r.nextCapture \in Nat
  BY KeyValueTypes DEF FlagRecord
<1> QED BY <1>1, <1>4, <1>5, <1>6, <1>7

\* The side that owns the flag and is there does not lose it.
LEMMA HolderThink ==
  ASSUME TypeOK, HoldersAreFound, NEW f \in Flags, NEW s \in FlagRecord(f),
         NEW t \in Playing, ~Idle(s), Sole(f, s) = t, s.owner = t
  PROVE  Think(f, s).owner = t
<1>1. PICK r \in FlagRecord(f) :
        /\ Think(f, s) = ThinkUncapped(f, r) /\ r.touching = s.touching
        /\ \E q \in FlagRecord(f) :
             /\ r = MaybeThinkCapped(f, q)
             /\ q.owner = s.owner /\ q.touching = s.touching
  BY BusyThink
<1>2. PICK q \in FlagRecord(f) :
        r = MaybeThinkCapped(f, q) /\ q.owner = t /\ q.touching = s.touching
  BY <1>1
<1>3. Takers(f, q, t) > 0 /\ Takers(f, q, Opponent(t)) = 0
  BY <1>2, GroundIsKept, SoleIsAlone
<1>4. ~Uncaps(f, q)
  <2>1. ASSUME ~KeyValues[f].notUncappable, KeyValues[f].uncapOnDeath PROVE Friends(f, q) # {}
    <3>1. ~KeyValues[f].hasTrigger
      BY <2>1 DEF HoldersAreFound
    <3>2. InRadius(f, t) # {}
      BY <1>3, <3>1, FS_EmptySet DEF Takers
    <3> QED BY <1>2, <3>1, <3>2 DEF Friends
  <2>2. ~(Takers(f, q, Opponent(q.owner)) > 0)
    BY <1>2, <1>3
  <2> QED BY <2>1, <2>2 DEF Uncaps
<1>5. r.owner = t
  <2>1. [q EXCEPT !.overload = @ \cup Friends(f, q)].owner = t
    BY <1>2 DEF FlagRecord
  <2> QED BY <1>2, <1>4, <2>1, TeamsDiffer DEF MaybeThinkCapped, ThinkCapped
<1>6. Sole(f, r) = t
  BY <1>1, GroundIsKept
<1> QED BY <1>1, <1>5, <1>6, TeamsDiffer DEF ThinkUncapped

\* What a flag has besides the lists and the bonus.
Kept(r, s) ==
  /\ r.owner = s.owner /\ r.lastTeam = s.lastTeam
  /\ r.nextCapture = s.nextCapture /\ r.nextThink = s.nextThink

LEMMA ListsKept ==
  ASSUME NEW f \in Flags, NEW s \in FlagRecord(f), NEW p \in Players
  PROVE  /\ Kept(StartTouch(f, s, p), s)
         /\ Kept(EndTouch(f, s, p), s)
         /\ Kept(RemoveSelf(f, s, p), s)
<1>1. Kept(StartTouch(f, s, p), s)
  BY DEF StartTouch, FlagRecord, Kept
<1>2. Kept(EndTouch(f, s, p), s)
  BY DEF EndTouch, FlagRecord, Kept
<1>3. Kept(RemoveSelf(f, s, p), s)
  BY DEF RemoveSelf, FlagRecord, Kept
<1> QED BY <1>1, <1>2, <1>3

LEMMA PlayersKeep ==
  ASSUME TypeOK, NEW f \in Flags, NEW p \in Players, PlayerStep(p)
  PROVE  Kept(flag'[f], flag[f])
<1> DEFINE s == flag[f]
<1>0. s \in FlagRecord(f) /\ DOMAIN flag = Flags
  BY DEF TypeOK
<1>1. CASE flag'[f] \in {s, StartTouch(f, s, p), EndTouch(f, s, p), RemoveSelf(f, s, p)}
  BY <1>0, <1>1, ListsKept DEF Kept
<1>2. ASSUME NEW g \in Flags, Enter(p, g) \/ Leave(p, g)
      PROVE  Kept(flag'[f], flag[f])
  BY <1>0, <1>1, <1>2 DEF Enter, Leave
<1>3. CASE ClientConnect(p) \/ Respawn(p)
  BY <1>1, <1>3 DEF ClientConnect, Respawn
<1>4. CASE EventKilled(p) \/ \E t \in Playing \cup {Unassigned} : ChangeTeam(p, t)
  BY <1>1, <1>4 DEF EventKilled, ChangeTeam
<1>5. CASE ClientDisconnect(p)
  <2> DEFINE r == IF gameOver THEN s ELSE RemoveSelf(f, s, p)
  <2>1. flag'[f] \in {r, EndTouch(f, r, p)}
    BY <1>5 DEF ClientDisconnect
  <2>2. Kept(r, s) /\ r \in FlagRecord(f)
    BY <1>0, RemoveSelfType, ListsKept DEF Kept
  <2> HIDE DEF r
  <2> QED BY <2>1, <2>2, ListsKept DEF Kept
<1> QED BY <1>2, <1>3, <1>4, <1>5 DEF PlayerStep

\* A new round finds nobody at the flag.
LEMMA RestartClears ==
  ASSUME TypeOK, NEW swapTeams \in BOOLEAN, RestartRound(swapTeams),
         NEW f \in Flags, NEW t \in Playing
  PROVE  ~HoldsGround(f, t)'
<1> DEFINE none == [p \in Players |-> 0]
           r == ResetFlag(f, flag[f])
<1>1. flag'[f] = r /\ at'[f] = {}
  BY DEF RestartRound
<1>2. \A u \in Playing : r.touching[u] = none
  BY DEF ResetFlag, FlagRecord, TypeOK
<1> HIDE DEF r, none
<1>3. \A u \in Playing : Total(flag'[f].touching[u]) = 0
  BY <1>1, <1>2, EmptyTotal DEF none
<1>4. \A u \in Playing : Cardinality(InRadius(f, u)') = 0
  <2>1. \A u \in Playing : InRadius(f, u)' = {}
    BY <1>1 DEF InRadius
  <2> QED BY <2>1, FS_EmptySet
<1>5. \A u \in Playing : Takers(f, flag[f], u)' = 0
  BY <1>3, <1>4 DEF Takers
<1>6. Sole(f, flag[f])' = Unassigned
  BY <1>5 DEF Sole
<1> QED BY <1>6, TeamsDiffer DEF HoldsGround

\* What a step makes of a siege that goes on, but for the inputs of its flag.
LEMMA SiegeStep ==
  ASSUME TypeOK, TypeOK', HoldersAreFound, [Next]_vars,
         NEW f \in Flags, NEW t \in Playing,
         HoldsGround(f, t), HoldsGround(f, t)', [~FlagInput(f)]_vars
  PROVE  \/ flag'[f].owner = t
         \/ /\ flag[f].owner # t /\ flag'[f].owner # t
            /\ IF Tick THEN Owed(f, t)' < Owed(f, t) ELSE Owed(f, t)' <= Owed(f, t)
<1> DEFINE s == flag[f]
           n == flag'[f]
           C == KeyValues[f].captureTime
           Goal == \/ n.owner = t
                   \/ /\ s.owner # t /\ n.owner # t
                      /\ IF Tick THEN Owed(f, t)' < Owed(f, t)
                                 ELSE Owed(f, t)' <= Owed(f, t)
<1>1. /\ s \in FlagRecord(f) /\ ~Idle(s) /\ Sole(f, s) = t /\ InForce(f, s, t)
      /\ n \in FlagRecord(f) /\ DOMAIN flag = Flags
  BY HoldersInForce DEF TypeOK
<1>2. /\ C \in Nat /\ IdlePeriod \in Nat \ {0}
      /\ s.nextCapture \in 0 .. C /\ n.nextCapture \in 0 .. C
      /\ s.nextThink \in 0 .. IdlePeriod /\ n.nextThink \in 0 .. IdlePeriod
  BY <1>1, KeyValueTypes, ConstantsAssumption DEF FlagRecord
<1> DEFINE O(r) == IF r.lastTeam # t THEN r.nextThink + C + IdlePeriod
                   ELSE IF r.nextCapture > 0 THEN r.nextCapture + IdlePeriod
                   ELSE r.nextThink
<1>3. Owed(f, t) = O(s) /\ Owed(f, t)' = O(n)
  BY DEF Owed
<1>4. CASE Tick
  <2>1. n = Elapse(f, s) /\ s.nextThink > 0
    BY <1>4 DEF Tick
  <2>2. /\ n.owner = s.owner /\ n.lastTeam = s.lastTeam
        /\ n.nextThink = s.nextThink - 1
        /\ n.nextCapture = IF s.nextCapture > 0 THEN s.nextCapture - 1 ELSE 0
    <3>1. /\ n.owner = s.owner /\ n.lastTeam = s.lastTeam
          /\ n.nextThink = Down(s.nextThink, 0) /\ n.nextCapture = Down(s.nextCapture, 0)
      BY <1>1, <2>1 DEF Elapse, FlagRecord
    <3> QED BY <1>2, <2>1, <3>1 DEF Down
  <2> HIDE DEF s, n
  <2>3. O(n) < O(s)
    BY <1>2, <2>2
  <2> QED BY <1>3, <1>4, <2>2, <2>3 DEF s, n
<1>5. ASSUME ~Tick, Kept(n, s) PROVE Goal
  BY <1>3, <1>5, <1>2 DEF Kept
<1>6. ASSUME ~Tick, n = Think(f, s), s.nextThink = 0 PROVE Goal
  <2>1. CASE s.owner = t
    BY <1>1, <1>6, <2>1, HolderThink
  <2>2. CASE s.owner # t
    <3>1. \/ n.owner = t
          \/ s.lastTeam # t /\ n.lastTeam = t /\ n.nextCapture = C
          \/ /\ s.lastTeam = t /\ n.lastTeam = t
             /\ s.nextCapture > 0 /\ n.nextCapture = s.nextCapture
      BY <1>1, <1>6, <2>2, SiegeThink
    <3>2. n.owner = t \/ O(n) <= O(s)
      <4> HIDE DEF s, n
      <4> QED BY <1>2, <1>6, <3>1
    <3> QED BY <1>3, <1>6, <2>2, <3>2
  <2> QED BY <2>1, <2>2
<1>7. ASSUME ~Tick, NEW g \in Flags, FlagThink(g) PROVE Goal
  <2>1. n = s \/ (n = Think(f, s) /\ s.nextThink = 0)
    BY <1>1, <1>7 DEF FlagThink
  <2>2. n = s => Kept(n, s)
    BY DEF Kept
  <2> QED BY <1>5, <1>6, <1>7, <2>1, <2>2
<1>8. ASSUME ~Tick, NEW g \in Flags, FlagInput(g) PROVE Goal
  <2>1. UNCHANGED vars => n = s
    BY DEF vars
  <2>2. g # f => n = s
    BY <1>1, <1>8 DEF FlagInput
  <2>3. n = s
    BY <1>8, <2>1, <2>2
  <2> QED BY <1>5, <1>8, <2>3 DEF Kept
<1>9. ASSUME ~Tick, NEW p \in Players, PlayerStep(p) PROVE Goal
  BY <1>5, <1>9, PlayersKeep
<1>10. ASSUME NEW swapTeams \in BOOLEAN, RestartRound(swapTeams) PROVE Goal
  BY <1>10, RestartClears
<1>11. ASSUME ~Tick, GoToIntermission \/ SetRespawnStyle \/ UNCHANGED vars PROVE Goal
  <2>1. n = s
    BY <1>11 DEF GoToIntermission, SetRespawnStyle, vars
  <2> QED BY <1>5, <1>11, <2>1 DEF Kept
<1> QED BY <1>4, <1>7, <1>8, <1>9, <1>10, <1>11 DEF Next

LEMMA HeldStays ==
  ASSUME TypeOK, TypeOK', HoldersAreFound, [Next]_vars,
         NEW f \in Flags, NEW t \in Playing,
         HoldsGround(f, t), HoldsGround(f, t)', [~FlagInput(f)]_vars, flag[f].owner = t
  PROVE  flag'[f].owner = t
  BY SiegeStep

LEMMA StillOwedBy ==
  ASSUME TypeOK, TypeOK', HoldersAreFound, [Next]_vars, now \in Nat,
         [Tick /\ now' = now + 1]_now,
         NEW f \in Flags, NEW t \in Playing, NEW d \in Nat,
         HoldsGround(f, t), HoldsGround(f, t)', [~FlagInput(f)]_vars, OwedBy(f, t, d)
  PROVE  flag'[f].owner = t \/ OwedBy(f, t, d)'
<1> SUFFICES ASSUME flag'[f].owner # t PROVE OwedBy(f, t, d)'
  OBVIOUS
<1>1. Owed(f, t) \in Nat /\ Owed(f, t)' \in Nat
  <2>1. ASSUME NEW s \in FlagRecord(f)
        PROVE  s.nextThink \in Nat /\ s.nextCapture \in Nat
    BY KeyValueTypes, ConstantsAssumption DEF FlagRecord
  <2>2. KeyValues[f].captureTime \in Nat /\ IdlePeriod \in Nat
    BY KeyValueTypes, ConstantsAssumption
  <2>3. flag[f] \in FlagRecord(f) /\ flag'[f] \in FlagRecord(f)
    BY DEF TypeOK
  <2> QED BY <2>1, <2>2, <2>3 DEF Owed
<1>2. IF Tick THEN Owed(f, t)' < Owed(f, t) ELSE Owed(f, t)' <= Owed(f, t)
  BY SiegeStep
<1>3. now' = now \/ (Tick /\ now' = now + 1)
  OBVIOUS
<1>4. Owed(f, t) + now <= d
  BY DEF OwedBy
<1>5. Owed(f, t)' + now' <= d
  BY <1>1, <1>2, <1>3, <1>4
<1> QED BY <1>5 DEF OwedBy

\* At some time it is due, and then it is there.
LEMMA SomeDay ==
  ASSUME TypeOK, now \in Nat, NEW f \in Flags, NEW t \in Playing
  PROVE  /\ flag[f].owner = t \/ \E d \in Nat : OwedBy(f, t, d)
         /\ \A d \in Nat : OwedBy(f, t, d) => ~(now > d)
<1>1. Owed(f, t) \in Nat
  <2>1. flag[f] \in FlagRecord(f)
    BY DEF TypeOK
  <2>2. /\ flag[f].nextThink \in Nat /\ flag[f].nextCapture \in Nat
        /\ KeyValues[f].captureTime \in Nat /\ IdlePeriod \in Nat
    BY <2>1, KeyValueTypes, ConstantsAssumption DEF FlagRecord
  <2> QED BY <2>2 DEF Owed
<1>2. Owed(f, t) + now \in Nat
  BY <1>1
<1>3. flag[f].owner # t => OwedBy(f, t, Owed(f, t) + now)
  BY <1>2 DEF OwedBy
<1>4. ASSUME NEW d \in Nat, OwedBy(f, t, d) PROVE ~(now > d)
  BY <1>1, <1>4 DEF OwedBy
<1> QED BY <1>2, <1>3, <1>4

LEMMA ClockTyped == Clock => [](now \in Nat)
<1>1. now = 0 => now \in Nat
  OBVIOUS
<1>2. now \in Nat /\ [Tick /\ now' = now + 1]_now => (now \in Nat)'
  OBVIOUS
<1> QED BY <1>1, <1>2, PTL DEF Clock

\* What is so all the time, and what is so while the siege is kept up.
Going == [](TypeOK /\ now \in Nat) /\ [][Next]_vars /\ [][Tick /\ now' = now + 1]_now

KeptUp(f, t) == []HoldsGround(f, t) /\ [][~FlagInput(f)]_vars

LEMMA SiegeDueEnds ==
  ASSUME HoldersAreFound, NEW f \in Flags, NEW t \in Playing, NEW d \in Nat
  PROVE  Going /\ KeptUp(f, t) /\ <>(now > d) /\ OwedBy(f, t, d) => <>(flag[f].owner = t)
<1>1. /\ TypeOK /\ TypeOK' /\ now \in Nat /\ [Next]_vars /\ [Tick /\ now' = now + 1]_now
      /\ HoldsGround(f, t) /\ HoldsGround(f, t)' /\ [~FlagInput(f)]_vars
      /\ OwedBy(f, t, d)
      => (flag[f].owner = t)' \/ OwedBy(f, t, d)'
  BY StillOwedBy
<1>2. TypeOK /\ now \in Nat /\ OwedBy(f, t, d) => ~(now > d)
  BY SomeDay
<1> QED BY <1>1, <1>2, PTL DEF Going, KeptUp

LEMMA SiegeIsWon ==
  ASSUME HoldersAreFound, NEW f \in Flags, NEW t \in Playing
  PROVE  Going /\ TimePasses /\ KeptUp(f, t) => <>[](flag[f].owner = t)
<1>1. Going /\ KeptUp(f, t) /\ (\A d \in Nat : <>(now > d)) /\ (\E d \in Nat : OwedBy(f, t, d))
        => <>(flag[f].owner = t)
  BY SiegeDueEnds
<1>2. TypeOK /\ now \in Nat => flag[f].owner = t \/ \E d \in Nat : OwedBy(f, t, d)
  BY SomeDay
<1>3. /\ TypeOK /\ TypeOK' /\ [Next]_vars
      /\ HoldsGround(f, t) /\ HoldsGround(f, t)' /\ [~FlagInput(f)]_vars
      /\ flag[f].owner = t
      => (flag[f].owner = t)'
  BY HeldStays
<1> QED BY <1>1, <1>2, <1>3, PTL DEF Going, TimePasses, KeptUp

\* A side that stays at a live flag alone and in force ends up owning it for
\* good, however long the capture takes, whoever comes and goes on the side and
\* whatever happens at the other flags.
THEOREM SiegesSucceed ==
  ASSUME HoldersAreFound
  PROVE  Spec /\ Clock /\ TimePasses => SiegeSucceeds
<1>1. ASSUME NEW f \in Flags, NEW t \in Playing
      PROVE  Spec /\ Clock /\ TimePasses =>
               (<>[]HoldsGround(f, t) /\ <>[][~FlagInput(f)]_vars => <>[](flag[f].owner = t))
  <2>1. Going /\ TimePasses /\ KeptUp(f, t) => <>[](flag[f].owner = t)
    BY SiegeIsWon
  <2> QED BY <2>1, TypeCorrect, ClockTyped, PTL DEF Spec, Clock, Going, TimePasses, KeptUp
<1> QED BY <1>1 DEF SiegeSucceeds

=============================================================================
