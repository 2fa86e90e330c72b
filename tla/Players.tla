------------------------------- MODULE Players -------------------------------
(***************************************************************************)
(* The players of CHL2MP_Player (game/server/hl2mp/hl2mp_player.cpp):      *)
(* which side and class each has, when he dies by changing it, and where   *)
(* and as what he spawns; with the class limits and the team swaps of      *)
(* CHL2MPRules (game/shared/hl2mp/hl2mp_gamerules.cpp).                    *)
(*                                                                         *)
(* When the rules send a wave and restart the round is the subject of      *)
(* module Rounds; here they may do it in any frame.  The order in which    *)
(* they walk through the list of a side is any order.                      *)
(***************************************************************************)
EXTENDS SpawnPoints

CONSTANTS
  Clients,        \* client slots
  Classes,        \* the classes that players ask for
  Limit,          \* mp_limit_*: by size of the server, side and class, -1 for none
  MapSizeLow,     \* mp_limit_mapsize_low
  MapSizeHigh,    \* mp_limit_mapsize_high
  RespawnStyle,   \* mp_respawnstyle
  AutoBalance,    \* mp_autobalanceteams
  Tolerance       \* mp_autobalancetolerance

Spectators == "spectators"
Gone       == "gone"         \* nobody is connected in the slot
NoClass    == "no class"     \* m_iClass = -1
Nothing    == "nothing"      \* carries no weapons
Elsewhere  == "elsewhere"    \* not within 32 units of a spawn point

Sizes  == {"sml", "med", "lrg"}
Sides  == {Americans, British, Unassigned, Spectators, Gone}
Places == Points \cup {WorldOrigin, Elsewhere}

ASSUME PlayersAssumption ==
  /\ IsFiniteSet(Clients) /\ IsFiniteSet(Points)
  /\ NoClass \notin Classes
  /\ Points \cap {WorldOrigin, Elsewhere} = {}
  /\ Limit \in [Sizes -> [Playing -> [Classes -> Int]]]
  /\ MapSizeLow \in Nat /\ MapSizeHigh \in Nat
  /\ RespawnStyle \in 0 .. 4
  /\ AutoBalance \in BOOLEAN /\ Tolerance \in Nat \ {0}

VARIABLE men    \* the players in the slots, see PlayersRecord

vars == <<pointVars, men>>

PlayersRecord ==
  [side  : [Clients -> Sides],                  \* GetTeamNumber()
   alive : [Clients -> BOOLEAN],                \* IsAlive()
   hasty : [Clients -> BOOLEAN],                \* m_fNextSuicideTime is to come
   class : [Clients -> Classes \cup {NoClass}], \* m_iClass
   next  : [Clients -> Classes \cup {NoClass}], \* m_iNextClass
   arms  : [Clients -> {Americans, British, Nothing}],
                                  \* the side whose weapons and model he has
   place : [Clients -> Places]]   \* where his entity is

TypeOK == PointsTypeOK /\ men \in PlayersRecord

-----------------------------------------------------------------------------
(* Sides, classes and their limits.                                        *)

Connected(s) == {p \in Clients : s.side[p] # Gone}
Members(s, t) == {p \in Clients : s.side[p] = t}
Fighters(s) == Members(s, Americans) \cup Members(s, British)
Dead(s) == {p \in Fighters(s) : ~s.alive[p]}

\* GetNumOfNextClass.
NextOfClass(s, t, c) == {p \in Members(s, t) : s.next[p] = c}

\* GetNumOfClass.
OfClass(s, t, c) == {p \in Members(s, t) : s.class[p] = c}

Size(n) ==
  CASE n <= MapSizeLow -> "sml"
    [] n > MapSizeLow /\ n <= MapSizeHigh -> "med"
    [] n > MapSizeLow /\ n > MapSizeHigh -> "lrg"

GetLimitTeamClass(s, t, c) == Limit[Size(Cardinality(Connected(s)))][t][c]

\* Mutant of ClassIsFull: counts what the players are, not what they will be.
ClassIsFullNow(s, t, c) ==
  LET limit == GetLimitTeamClass(s, t, c)
  IN  limit >= 0 /\ Cardinality(OfClass(s, t, c)) >= limit

ClassIsFull(s, t, c) ==
  LET limit == GetLimitTeamClass(s, t, c)
  IN  limit >= 0 /\ Cardinality(NextOfClass(s, t, c)) >= limit

Gap(a, b) == IF a > b THEN a - b ELSE b - a

\* Whether the side is the bigger one by too much, for a player who would leave
\* his own; equal sides count as too many British.
TooMany(s, p, t) ==
  LET a == Cardinality(Members(s, Americans) \ {p})
      b == Cardinality(Members(s, British) \ {p})
  IN  /\ AutoBalance /\ Gap(a, b) >= Tolerance
      /\ t = IF a > b THEN Americans ELSE British

-----------------------------------------------------------------------------
(* Dying, changing sides and spawning.                                     *)

\* Event_Killed; the weapons are dropped by the next PlayerDeathThink.
Die(s, p) == [s EXCEPT !.alive[p] = FALSE, !.arms[p] = Nothing]

\* CommitSuicide, which is refused for a while after the last one.
CommitSuicide(s, p) ==
  IF s.alive[p] /\ ~s.hasty[p] THEN [Die(s, p) EXCEPT !.hasty[p] = TRUE] ELSE s

\* Mutant of ChangeTeam: the suicide may be refused.
ChangeTeamHastily(s, p, t) ==
  LET moved == [s EXCEPT !.side[p] = t]
  IN  IF s.side[p] \in {t, Unassigned} THEN moved ELSE CommitSuicide(moved, p)

\* ChangeTeam(iTeam): the death is not put off ("teamchange suicides have no
\* time limit").
ChangeTeam(s, p, t) ==
  LET moved == [s EXCEPT !.side[p] = t]
  IN  IF s.side[p] \in {t, Unassigned} THEN moved
      ELSE CommitSuicide([moved EXCEPT !.hasty[p] = FALSE], p)

\* The orders in which a group may be spawned: all the Americans come before all
\* the British.
Orders(s, group) ==
  {rank \in [group -> 1 .. Cardinality(group)] :
     \A p, q \in group :
       /\ p # q => rank[p] # rank[q]
       /\ s.side[p] = Americans /\ s.side[q] = British => rank[p] < rank[q]}

\* Who is where when p's turn comes: those before him at their spots, the others,
\* he among them, where they were.
Taken(s, group, rank, spot, p) ==
  {IF q \in group /\ rank[q] < rank[p] THEN spot[q] ELSE s.place[q] : q \in Clients}

Spots(s, group) ==
  {spot \in [group -> Points \cup {WorldOrigin}] :
     \E rank \in Orders(s, group) : \A p \in group :
       spot[p] \in SpawnSpots(s.side[p], Taken(s, group, rank, spot, p))}

\* CHL2MP_Player::Spawn for each of a group of fighters, one after the other.
Spawned(s, group, spot) ==
  [s EXCEPT
     !.alive = [p \in Clients |-> @[p] \/ p \in group],
     !.class = [p \in Clients |-> IF p \in group THEN s.next[p] ELSE @[p]],
     !.arms  = [p \in Clients |-> IF p \in group THEN s.side[p] ELSE @[p]],
     !.place = [p \in Clients |-> IF p \in group THEN spot[p] ELSE @[p]]]

SpawnAll(s, group) == {Spawned(s, group, spot) : spot \in Spots(s, group)}

-----------------------------------------------------------------------------
(* What the rules do in a frame.                                           *)

TooBig(s, t) ==
  /\ AutoBalance
  /\ Cardinality(Members(s, t)) - Cardinality(Members(s, Opponent(t))) >= Tolerance

\* The autobalance picks somebody of the bigger side and swaps him unless he is
\* alive; no limit is looked at.
BalanceTeams(s) ==
  IF \E t \in Playing : TooBig(s, t)
  THEN {IF s.alive[p] THEN s ELSE [s EXCEPT !.side[p] = Opponent(@)] :
          p \in {q \in Fighters(s) : TooBig(s, s.side[q])}}
  ELSE {s}

SwapTeams(s) ==
  [s EXCEPT !.side = [p \in Clients |->
                        IF p \in Fighters(s) THEN Opponent(@[p]) ELSE @[p]]]

\* RestartRound: the spawn points are among the entities that ResetMap keeps, as
\* they are.
RestartRound(s, swapTeams) ==
  LET t == IF swapTeams THEN SwapTeams(s) ELSE s IN SpawnAll(t, Fighters(t))

\* RespawnWave: module Rounds says which of the dead it spawns.
RespawnWave(s) == UNION {SpawnAll(s, group) : group \in SUBSET Dead(s)}

\* The swaps, spawns and restarts of a Think.
Think(s) ==
  LET balanced == BalanceTeams(s)
      restarted == UNION {RestartRound(b, swap) : b \in balanced, swap \in BOOLEAN}
  IN  restarted \cup UNION {RespawnWave(b) : b \in balanced}

-----------------------------------------------------------------------------
(* The actions.                                                            *)

Init ==
  /\ PointsInit
  /\ men = [side  |-> [p \in Clients |-> Gone],
            alive |-> [p \in Clients |-> FALSE],
            hasty |-> [p \in Clients |-> FALSE],
            class |-> [p \in Clients |-> NoClass],
            next  |-> [p \in Clients |-> NoClass],
            arms  |-> [p \in Clients |-> Nothing],
            place |-> [p \in Clients |-> Elsewhere]]

Frame == men' \in Think(men) /\ UNCHANGED pointVars

\* The constructor and the first Spawn, which leaves the player at the
\* info_intermission.
ClientPutInServer(p) ==
  /\ men.side[p] = Gone
  /\ men' = [men EXCEPT !.side[p] = Unassigned, !.alive[p] = TRUE]
  /\ UNCHANGED pointVars

\* Whether a player who joins a side may enter at once; styles 0 and 4 look at
\* how long ago he died.
MayRespawn(s, longDead) ==
  \/ \E t \in Playing : Members(s, t) = {}
  \/ RespawnStyle \in {0, 4} /\ longDead

\* AttemptJoin, "class" with a side and a class.
AttemptJoin(p, t, c) ==
  LET s == men
      chosen == [s EXCEPT !.next[p] = c]
      joined == ChangeTeam(CommitSuicide(chosen, p), p, t)
  IN  /\ s.side[p] # Gone /\ ~(s.side[p] = t /\ s.next[p] = c)
      /\ s.side[p] # t => ~TooMany(s, p, t)
      /\ ~ClassIsFull(s, t, c)
      /\ \/ s.side[p] = t /\ men' = chosen
         \/ s.side[p] = Opponent(t) /\ men' = joined
         \/ /\ s.side[p] \notin Playing
            /\ \E longDead \in BOOLEAN :
                 /\ longDead => ~s.alive[p]
                 /\ IF MayRespawn(joined, longDead) THEN men' \in SpawnAll(joined, {p})
                    ELSE men' = joined
      /\ UNCHANGED pointVars

\* "spectate".
Spectate(p) ==
  /\ men.side[p] \notin {Gone, Spectators}
  /\ men' = ChangeTeam(CommitSuicide(men, p), p, Spectators)
  /\ UNCHANGED pointVars

Killed(p) ==
  /\ p \in Fighters(men) /\ men.alive[p]
  /\ men' = Die(men, p)
  /\ UNCHANGED pointVars

\* "kill".
ClientKill(p) ==
  /\ men.side[p] # Gone
  /\ men' = CommitSuicide(men, p)
  /\ UNCHANGED pointVars

\* Five seconds have passed since the last suicide.
Repent(p) ==
  /\ men.hasty[p]
  /\ men' = [men EXCEPT !.hasty[p] = FALSE]
  /\ UNCHANGED pointVars

\* The living walk; the dead and the spectators fly about as observers, and are
\* as much in the way of a spawn.
Walk(p) ==
  /\ men.side[p] \in Playing \cup {Spectators}
  /\ \E x \in Points \cup {Elsewhere} : men' = [men EXCEPT !.place[p] = x]
  /\ UNCHANGED pointVars

ClientDisconnected(p) ==
  /\ men.side[p] # Gone
  /\ men' = [men EXCEPT !.side[p] = Gone, !.alive[p] = FALSE, !.hasty[p] = FALSE,
                        !.class[p] = NoClass, !.next[p] = NoClass,
                        !.arms[p] = Nothing, !.place[p] = Elsewhere]
  /\ UNCHANGED pointVars

PlayerStep(p) ==
  \/ ClientPutInServer(p)
  \/ \E t \in Playing, c \in Classes : AttemptJoin(p, t, c)
  \/ Spectate(p)
  \/ Killed(p)
  \/ ClientKill(p)
  \/ Repent(p)
  \/ Walk(p)
  \/ ClientDisconnected(p)

Next ==
  \/ Frame
  \/ \E p \in Clients : PlayerStep(p)
  \/ PointsNext /\ UNCHANGED men

Spec == Init /\ [][Next]_vars

-----------------------------------------------------------------------------
(* Properties.                                                             *)

\* Whoever fights has the weapons and the model of the side he fights for: a
\* change of sides kills him, however recently he killed himself, or waits for
\* his death, or is followed by a spawn in the same frame (SwapPlayerTeam,
\* "swap player unless they're alive"; ChangeTeam; RestartRound).
ArmedByOwnSide ==
  \A p \in Fighters(men) : men.alive[p] => men.arms[p] = men.side[p]

Swapped == \E p \in Clients, t \in Playing :
  men.side[p] = t /\ men'.side[p] = Opponent(t) /\ men'.next[p] = men.next[p]

\* The players of a side who have chosen a class get more only as long as its
\* limit allows, in whatever order they join, die, spawn and choose again; the
\* rules' own swaps look at no limit (AttemptJoin: "The following line prevents
\* anyone else from stealing our spot..").
SpotsAreKept ==
  [][\A t \in Playing, c \in Classes :
       LET before == Cardinality(NextOfClass(men, t, c))
           after  == Cardinality(NextOfClass(men', t, c))
           limit  == GetLimitTeamClass(men', t, c)
       IN  after > before /\ limit >= 0 => after <= limit \/ Swapped]_vars

Walked == \E p \in Clients : Walk(p)

\* Nobody is spawned into somebody else: whoever gets a new spot has it for
\* himself, also when a whole side spawns in one frame (HandleSpawnList).
SpawnedApart ==
  [][~Walked => \A p \in Clients :
       men'.place[p] # men.place[p] /\ men'.place[p] \in Points =>
         \A q \in Clients \ {p} : men'.place[q] # men'.place[p]]_vars

\* As long as a side has more open points than there are players in the game,
\* nobody of it is spawned at the origin of the world ("There are too few
\* British spawns or they are too close together, or someone was obstructing
\* them").
NobodyIsLost ==
  [][\A p \in Clients :
       men'.place[p] = WorldOrigin /\ men.place[p] # WorldOrigin =>
         Cardinality(Usable(men'.side[p])) <= Cardinality(Connected(men'))]_vars
=============================================================================
