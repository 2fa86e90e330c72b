----------------------------- MODULE SpawnPoints -----------------------------
(***************************************************************************)
(* The spawn points of a level: CSpawnPoint (game/server/bg2/spawnpoint.h) *)
(* and the lists in which a player looks for one                           *)
(* (CHL2MP_Player::EntSelectSpawnPoint, HandleSpawnList).                  *)
(*                                                                         *)
(* A point is on the list of its class for as long as the level lasts; the *)
(* map's inputs change whether it is open and for which side.  The points  *)
(* stand further apart than the 64 units at which one player could be in   *)
(* the way of two of them.  m_bReserved is set and cleared within one call *)
(* (GetPlayerSpawnSpot clears what HandleSpawnList sets), and left out.    *)
(***************************************************************************)
EXTENDS Integers, FiniteSets

CONSTANTS
  AmericanPoints,   \* info_player_american
  BritishPoints,    \* info_player_british
  MultiPoints,      \* info_player_multispawn
  StartDisabled,    \* points with SPAWNPOINT_START_DISABLED
  StartingTeam,     \* key value of each multispawn
  MapControls       \* points that outputs of the map address

Americans  == "americans"
British    == "british"
Unassigned == "unassigned"
Playing    == {Americans, British}

Points == AmericanPoints \cup BritishPoints \cup MultiPoints

ASSUME SpawnPointsAssumption ==
  /\ AmericanPoints \cap BritishPoints = {}
  /\ MultiPoints \cap (AmericanPoints \cup BritishPoints) = {}
  /\ StartDisabled \subseteq Points
  /\ StartingTeam \in [MultiPoints -> {Americans, British, Unassigned}]
  /\ MapControls \subseteq Points

VARIABLES
  enabled,     \* m_bEnabled
  pointTeam,   \* m_iSpawnTeam
  settling     \* the first tenth of a second, until m_flNextSetEnabled

pointVars == <<enabled, pointTeam, settling>>

PointsTypeOK ==
  /\ enabled \in [Points -> BOOLEAN]
  /\ pointTeam \in [Points -> {Americans, British, Unassigned}]
  /\ settling \in BOOLEAN

Opponent(t) == IF t = Americans THEN British ELSE Americans

-----------------------------------------------------------------------------
\* Reset, which only Spawn calls: when the level is loaded.
PointsInit ==
  /\ enabled = [x \in Points |-> x \notin StartDisabled]
  /\ pointTeam = [x \in Points |-> CASE x \in AmericanPoints -> Americans
                                     [] x \in BritishPoints -> British
                                     [] x \in MultiPoints -> StartingTeam[x]]
  /\ settling = TRUE

Settle == settling /\ settling' = FALSE /\ UNCHANGED <<enabled, pointTeam>>

\* Inputs Enable, Disable and Toggle, which are lost while the level settles
\* ("wait for other outputs and stuff to fire").
SetEnabled(x) ==
  /\ \E on \in BOOLEAN :
       enabled' = IF settling THEN enabled ELSE [enabled EXCEPT ![x] = on]
  /\ UNCHANGED <<pointTeam, settling>>

\* Inputs SetAmerican, SetBritish and ToggleTeam.
SetTeam(x) ==
  /\ \E t \in {Americans, British} : pointTeam' = [pointTeam EXCEPT ![x] = t]
  /\ UNCHANGED <<enabled, settling>>

PointsNext == Settle \/ \E x \in MapControls : SetEnabled(x) \/ SetTeam(x)

-----------------------------------------------------------------------------
\* Where EntSelectSpawnPoint looks for a spot for a player of the side: a point
\* of the other side's class is not looked at even when it has changed sides.
SpawnList(t) ==
  (IF t = Americans THEN AmericanPoints ELSE BritishPoints) \cup MultiPoints

Usable(t) == {x \in SpawnList(t) : enabled[x] /\ pointTeam[x] = t}

\* The spots that are free when players stand in the places taken.
Free(t, taken) == Usable(t) \ taken

\* What a spawn uses when there is no spot: the world entity, at the origin.
WorldOrigin == "origin"

\* Mutant of SpawnSpots: a spot in whose way somebody stands ends the search.
FirstSpotOnly(t, taken) ==
  (IF Usable(t) \cap taken # {} THEN {WorldOrigin} ELSE {})
    \cup (IF Usable(t) = {} THEN {WorldOrigin} ELSE Free(t, taken))

\* Mutant of SpawnSpots: nobody looks whether a spot is free.
AnySpot(t, taken) == IF Usable(t) = {} THEN {WorldOrigin} ELSE Usable(t)

\* HandleSpawnList from a random offset, and EntSelectSpawnPoint's way out.
SpawnSpots(t, taken) ==
  IF Free(t, taken) = {} THEN {WorldOrigin} ELSE Free(t, taken)
=============================================================================
