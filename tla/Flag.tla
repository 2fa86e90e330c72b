-------------------------------- MODULE Flag --------------------------------
(***************************************************************************)
(* Capture points: CFlag (game/server/bg2/flag.cpp) with the optional      *)
(* flag_trigger that feeds it (game/server/hl2/hl2_triggers.cpp) and the   *)
(* player events that reach it (hl2mp_player.cpp, hl2mp_gamerules.cpp).    *)
(*                                                                         *)
(* Time.  gpGlobals->curtime is never stored: every m_flNext... deadline   *)
(* is kept as the time left until it, in units of the 0.125 s between two  *)
(* thinks of an active flag.  Tick lets one unit pass and may not pass a   *)
(* think that is due, since the engine runs it in that frame.              *)
(*                                                                         *)
(* The state of a flag is a record; each C++ method is an operator from    *)
(* the flag f and its record s to the new record, so that a method that    *)
(* calls another is written as the composition of the two.                 *)
(***************************************************************************)
EXTENDS Integers, FiniteSets, FiniteSetsExt

CONSTANTS
  MaxClients,     \* players sit in the client slots 1 .. MaxClients
  Flags,          \* the "flag" entities of the map
  KeyValues,      \* their Hammer key values: [Flags -> KeyValueRecord]
  Styles,         \* values mp_respawnstyle may take on this server
  Inputs,         \* inputs the map's logic sends to its flags
  IdlePeriod,     \* think period of an idle flag (1.25 s in the code)
  MaxTouches      \* bound on the entries one player has in a trigger's list

Americans  == "americans"
British    == "british"
Unassigned == "unassigned"      \* TEAM_UNASSIGNED and TEAM_SPECTATOR
Gone       == "gone"            \* the slot has no client

Playing == {Americans, British}
Players == 1 .. MaxClients

KeyValueRecord ==
  [capturePlayers : Nat, captureTime : Nat, teamBonusInterval : Nat,
   forTeam : 0 .. 2, startingTeam : Playing \cup {Unassigned},
   notUncappable : BOOLEAN, uncapOnDeath : BOOLEAN,
   startDisabled : BOOLEAN, hasTrigger : BOOLEAN]

ASSUME ConstantsAssumption ==
  /\ MaxClients \in Nat
  /\ KeyValues \in [Flags -> KeyValueRecord]
  /\ Styles \subseteq 0 .. 4
  /\ Inputs \subseteq {"Enable", "Disable", "Toggle", "ForceCap"}
  /\ IdlePeriod \in Nat \ {0}
  /\ MaxTouches \in Nat

VARIABLES
  team,           \* team[p]: m_iTeamNum of the player in slot p
  alive,          \* alive[p]: IsAlive()
  at,             \* at[f]: players within the radius, or touching the trigger
  flag,           \* flag[f]: the members of CFlag, see FlagRecord
  respawnstyle,   \* mp_respawnstyle
  gameOver        \* g_fGameOver

vars == <<team, alive, at, flag, respawnstyle, gameOver>>

(***************************************************************************)
(* stood, age and paid are not members of CFlag.  They record what an      *)
(* observer sees: for how long each side has held the ground alone and in  *)
(* force (-1: it did not, at the last think), the time since the flag last *)
(* paid points, and how many bonuses its last think paid to each side.     *)
(***************************************************************************)
FlagRecord(f) ==
  [owner       : Playing \cup {Unassigned},             \* m_iTeamNum
   active      : BOOLEAN,                               \* m_bActive
   lastTeam    : Playing \cup {Unassigned},             \* m_iLastTeam
   nextCapture : 0 .. KeyValues[f].captureTime,         \* m_flNextCapture
   nextBonus   : -KeyValues[f].teamBonusInterval .. KeyValues[f].teamBonusInterval,
                                                        \* m_flNextTeamBonus
   nextThink   : 0 .. IdlePeriod,
   overload    : SUBSET Players,                        \* m_vOverloadingPlayers
   touching    : [Playing -> [Players -> Nat]],         \* m_vTrigger...Players
   stood       : [Playing -> -1 .. KeyValues[f].captureTime],
   age         : 0 .. KeyValues[f].teamBonusInterval,
   paid        : [Playing -> 0 .. 2]]

TypeOK ==
  /\ team \in [Players -> Playing \cup {Unassigned, Gone}]
  /\ alive \in [Players -> BOOLEAN]
  /\ at \in [Flags -> SUBSET Players]
  /\ DOMAIN flag = Flags
  /\ \A f \in Flags : flag[f] \in FlagRecord(f)
  /\ respawnstyle \in Styles
  /\ gameOver \in BOOLEAN

-----------------------------------------------------------------------------
(* Who is at the flag.                                                     *)

Connected == {p \in Players : team[p] # Gone}
Members(t) == {p \in Players : team[p] = t}
UsingTickets == respawnstyle \in {3, 4}
Opponent(t) == IF t = Americans THEN British ELSE Americans

\* m_iForTeam: 1 only the Americans may take the flag, 2 only the British.
MayTake(f, t) ==
  KeyValues[f].forTeam \in {0, IF t = Americans THEN 1 ELSE 2}

InRadius(f, t) == {p \in at[f] : alive[p] /\ team[p] = t}
Total(list) == MapThenSumSet(LAMBDA p : list[p], Players)

\* The counters americans and british of ThinkUncapped.
Takers(f, s, t) ==
  IF KeyValues[f].hasTrigger THEN Total(s.touching[t])
  ELSE IF MayTake(f, t) THEN Cardinality(InRadius(f, t)) ELSE 0

\* Mutant of Sole: the other side is not counted.
FirstSide(f, s) ==
  IF \E t \in Playing : Takers(f, s, t) > 0
  THEN CHOOSE t \in Playing : Takers(f, s, t) > 0
  ELSE Unassigned

\* The one side with somebody at the flag; Unassigned when none or both are.
Sole(f, s) ==
  IF \E t \in Playing : Takers(f, s, t) > 0 /\ Takers(f, s, Opponent(t)) = 0
  THEN CHOOSE t \in Playing : Takers(f, s, t) > 0
  ELSE Unassigned

\* Mutant of InForce: m_iCapturePlayers without the size of the team.
InFullForce(f, s, t) == Takers(f, s, t) >= KeyValues[f].capturePlayers

InForce(f, s, t) ==
  Takers(f, s, t) >= Min({KeyValues[f].capturePlayers, Cardinality(Members(t))})

\* UTIL_PlayerByIndex(i) for i = 0 .. Count() - 1: the clients in the first
\* slots (index 0 is the world), not the members of the list.
IndexedPlayers(list) == {p \in Connected : p < Total(list)}

-----------------------------------------------------------------------------
(* The methods of CFlag.                                                   *)

StartingTeam(f) == KeyValues[f].startingTeam

\* A flag that Think only hides: inactive, or a round style without flags.
Idle(s) == ~s.active \/ respawnstyle \in {2, 4}

Capturers(f, s, t) ==
  IF KeyValues[f].hasTrigger
  THEN {p \in IndexedPlayers(s.touching[t]) : alive[p]}
  ELSE InRadius(f, t)

Pay(s, t) == [s EXCEPT !.paid = [s.paid EXCEPT ![t] = @ + 1], !.age = 0]

Capture(f, s, t) ==
  LET c == [s EXCEPT !.owner = t,
                     !.lastTeam = Unassigned,
                     !.nextBonus = KeyValues[f].teamBonusInterval,
                     !.age = 0,
                     !.overload = Capturers(f, s, t)]
  IN  IF UsingTickets THEN c ELSE Pay(c, t)

\* Friendly players that ThinkCapped adds to the overload list.
Friends(f, s) ==
  IF KeyValues[f].hasTrigger THEN IndexedPlayers(s.touching[s.owner])
  ELSE InRadius(f, s.owner)

FriendCount(f, s) ==
  IF KeyValues[f].hasTrigger THEN Total(s.touching[s.owner])
  ELSE Cardinality(InRadius(f, s.owner))

\* Mutant of Uncaps: the overload list is not looked at.
UncapsForEnemies(f, s) ==
  /\ ~KeyValues[f].notUncappable
  /\ Takers(f, s, Opponent(s.owner)) > 0 /\ FriendCount(f, s) = 0

Uncaps(f, s) ==
  /\ ~KeyValues[f].notUncappable
  /\ \/ Takers(f, s, Opponent(s.owner)) > 0 /\ FriendCount(f, s) = 0
     \/ KeyValues[f].uncapOnDeath /\ s.overload \cup Friends(f, s) = {}

ThinkCapped(f, s) ==
  IF Uncaps(f, s) THEN [s EXCEPT !.owner = Unassigned, !.overload = {}]
                  ELSE [s EXCEPT !.overload = @ \cup Friends(f, s)]

\* Mutant of NoContender: the clock runs on when the ground is given up.
ContenderStays(s) == s

NoContender(s) == [s EXCEPT !.lastTeam = Unassigned, !.nextCapture = 0]

ThinkUncapped(f, s) ==
  LET t == Sole(f, s)
  IN  CASE t = Unassigned -> NoContender(s)
        [] t # Unassigned /\ t = s.owner -> s
        [] t \notin {Unassigned, s.owner} /\ ~InForce(f, s, t) -> NoContender(s)
        [] t \notin {Unassigned, s.owner} /\ InForce(f, s, t) ->
             IF s.lastTeam # t
             THEN [s EXCEPT !.lastTeam = t,
                            !.nextCapture = KeyValues[f].captureTime]
             ELSE IF s.nextCapture = 0 THEN Capture(f, s, t) ELSE s

\* Who earns the periodic bonus: the owner, except for the side the flag is
\* reserved for; a neutral reserved flag pays the side that need not take it.
BonusTeam(f, s) ==
  LET reserved == CASE KeyValues[f].forTeam = 0 -> Unassigned
                    [] KeyValues[f].forTeam = 1 -> Americans
                    [] KeyValues[f].forTeam = 2 -> British
  IN  IF s.owner # Unassigned
      THEN IF s.owner = reserved THEN Unassigned ELSE s.owner
      ELSE IF reserved = Unassigned THEN Unassigned ELSE Opponent(reserved)

BonusDue(f, s) ==
  /\ ~gameOver /\ ~UsingTickets
  /\ KeyValues[f].teamBonusInterval # 0
  /\ s.nextBonus <= 0
  /\ BonusTeam(f, s) # Unassigned

TimeBonus(f, s) ==
  IF BonusDue(f, s)
  THEN [Pay(s, BonusTeam(f, s))
          EXCEPT !.nextBonus = @ + KeyValues[f].teamBonusInterval]
  ELSE s

\* Mutant of Safeguard: overdue bonuses stay due.
NoSafeguard(f, s) == s

\* The safeguard after the switch: no points are stored up.
Safeguard(f, s) ==
  IF s.nextBonus <= 0
  THEN [s EXCEPT !.nextBonus = KeyValues[f].teamBonusInterval] ELSE s

MaybeThinkCapped(f, s) == IF s.owner = Unassigned THEN s ELSE ThinkCapped(f, s)

\* What the observer notes at a think, before the flag acts.
Unpaid == [t \in Playing |-> 0]

Observe(f, s) ==
  [s EXCEPT
     !.paid = Unpaid,
     !.stood = [t \in Playing |->
                  IF ~Idle(s) /\ Sole(f, s) = t /\ InForce(f, s, t)
                  THEN IF s.stood[t] < 0 THEN 0 ELSE s.stood[t]
                  ELSE -1]]

Think(f, s) ==
  IF Idle(s)
  THEN [Observe(f, s) EXCEPT !.owner = Unassigned, !.lastTeam = Unassigned,
                             !.nextThink = IdlePeriod]
  ELSE ThinkUncapped(f,
         MaybeThinkCapped(f,
           Safeguard(f,
             TimeBonus(f, [Observe(f, s) EXCEPT !.nextThink = 1]))))

\* Mutant of ResetFlag: the lists survive the round.
ResetFlagKeepsLists(f, s) ==
  [s EXCEPT !.owner = StartingTeam(f), !.lastTeam = Unassigned,
            !.active = ~KeyValues[f].startDisabled]

ResetFlag(f, s) ==
  [s EXCEPT !.owner = StartingTeam(f),
            !.lastTeam = Unassigned,
            !.overload = {},
            !.touching = [t \in Playing |-> [p \in Players |-> 0]],
            !.active = ~KeyValues[f].startDisabled]

InputEnable(f, s) ==
  IF s.active THEN s
  ELSE Think(f, [s EXCEPT !.active = TRUE, !.owner = Unassigned,
                          !.lastTeam = Unassigned])

\* Only the outputs fire: the owner is left to the next think.
InputDisable(f, s) == [s EXCEPT !.active = FALSE]

InputToggle(f, s) == IF s.active THEN InputDisable(f, s) ELSE InputEnable(f, s)

ForceCap(f, s, t) == Capture(f, [s EXCEPT !.paid = Unpaid], t)

\* Mutant of Without: the player is taken to be in the list.
WithoutLooking(list, p) == [list EXCEPT ![p] = @ - 1]

\* FindAndRemove takes one occurrence of the player out of the list.
Without(list, p) == [list EXCEPT ![p] = IF @ > 0 THEN @ - 1 ELSE 0]

\* Mutant of RemoveSelf: the overload list is forgotten.
RemoveSelfFromTriggers(f, s, p) ==
  [s EXCEPT !.touching = [t \in Playing |-> Without(s.touching[t], p)]]

\* RemoveSelfFromFlags, for one flag.
RemoveSelf(f, s, p) ==
  [s EXCEPT !.overload = @ \ {p},
            !.touching = [t \in Playing |-> Without(s.touching[t], p)]]

\* The flag_trigger talks to its flag only while the flag is active.
TriggerHears(f, s, p) ==
  KeyValues[f].hasTrigger /\ s.active /\ team[p] \in Playing /\ MayTake(f, team[p])

StartTouch(f, s, p) ==
  IF TriggerHears(f, s, p) /\ alive[p]
  THEN [s EXCEPT !.touching = [s.touching EXCEPT ![team[p]][p] = @ + 1]] ELSE s

EndTouch(f, s, p) ==
  IF TriggerHears(f, s, p)
  THEN [s EXCEPT !.touching = [s.touching EXCEPT ![team[p]] = Without(@, p)]] ELSE s

Down(n, floor) == IF n > floor THEN n - 1 ELSE n
Up(n, ceiling) == IF n < ceiling THEN n + 1 ELSE n

Elapse(f, s) ==
  [s EXCEPT !.nextThink = Down(@, 0),
            !.nextCapture = Down(@, 0),
            !.nextBonus = Down(@, -KeyValues[f].teamBonusInterval),
            !.age = Up(@, KeyValues[f].teamBonusInterval),
            !.stood = [t \in Playing |->
                         IF s.stood[t] < 0 THEN -1
                         ELSE Up(s.stood[t], KeyValues[f].captureTime)]]

-----------------------------------------------------------------------------
(* The actions: frames, map logic, players, the round, the console.        *)

Spawned(f) ==
  [owner |-> IF KeyValues[f].startDisabled THEN Unassigned ELSE StartingTeam(f),
   active |-> ~KeyValues[f].startDisabled,
   lastTeam |-> Unassigned, nextCapture |-> 0, nextBonus |-> 0, nextThink |-> 0,
   overload |-> {}, touching |-> [t \in Playing |-> [p \in Players |-> 0]],
   stood |-> [t \in Playing |-> -1],
   age |-> KeyValues[f].teamBonusInterval, paid |-> Unpaid]

Init ==
  /\ team = [p \in Players |-> Gone]
  /\ alive = [p \in Players |-> FALSE]
  /\ at = [f \in Flags |-> {}]
  /\ flag = [f \in Flags |-> Spawned(f)]
  /\ respawnstyle \in Styles
  /\ gameOver = FALSE

playerVars == <<team, alive, at>>
ruleVars == <<respawnstyle, gameOver>>

Tick ==
  /\ \A f \in Flags : flag[f].nextThink > 0
  /\ flag' = [f \in Flags |-> Elapse(f, flag[f])]
  /\ UNCHANGED <<playerVars, ruleVars>>

FlagThink(f) ==
  /\ flag[f].nextThink = 0
  /\ flag' = [flag EXCEPT ![f] = Think(f, @)]
  /\ UNCHANGED <<playerVars, ruleVars>>

\* Map logic: the inputs Enable, Disable, Toggle and ForceCap.
FlagInput(f) ==
  /\ \/ /\ "Enable" \in Inputs
        /\ flag' = [flag EXCEPT ![f] = InputEnable(f, @)]
     \/ /\ "Disable" \in Inputs
        /\ flag' = [flag EXCEPT ![f] = InputDisable(f, @)]
     \/ /\ "Toggle" \in Inputs
        /\ flag' = [flag EXCEPT ![f] = InputToggle(f, @)]
     \/ /\ "ForceCap" \in Inputs
        /\ \E t \in Playing : flag' = [flag EXCEPT ![f] = ForceCap(f, @, t)]
  /\ UNCHANGED <<playerVars, ruleVars>>

Enter(p, f) ==
  /\ p \notin at[f] /\ alive[p] /\ team[p] \in Playing
  /\ \A t \in Playing : flag[f].touching[t][p] < MaxTouches
  /\ at' = [at EXCEPT ![f] = @ \cup {p}]
  /\ flag' = [flag EXCEPT ![f] = StartTouch(f, @, p)]
  /\ UNCHANGED <<team, alive, ruleVars>>

\* A player walks out, or a dead one stops touching: it is no longer solid.
Leave(p, f) ==
  /\ p \in at[f]
  /\ at' = [at EXCEPT ![f] = @ \ {p}]
  /\ flag' = [flag EXCEPT ![f] = EndTouch(f, @, p)]
  /\ UNCHANGED <<team, alive, ruleVars>>

ClientConnect(p) ==
  /\ team[p] = Gone
  /\ team' = [team EXCEPT ![p] = Unassigned]
  /\ alive' = [alive EXCEPT ![p] = TRUE]
  /\ UNCHANGED <<at, flag, ruleVars>>

\* ChangeTeam with the suicide that goes with it: the class menu (AttemptJoin),
\* "spectate" or, for a dead player, the autobalance (SwapPlayerTeam).
ChangeTeam(p, t) ==
  /\ team[p] \notin {Gone, t}
  /\ flag' = [f \in Flags |-> RemoveSelf(f, flag[f], p)]
  /\ team' = [team EXCEPT ![p] = t]
  /\ alive' = [alive EXCEPT ![p] = FALSE]
  /\ UNCHANGED <<at, ruleVars>>

EventKilled(p) ==
  /\ alive[p]
  /\ flag' = [f \in Flags |-> RemoveSelf(f, flag[f], p)]
  /\ alive' = [alive EXCEPT ![p] = FALSE]
  /\ UNCHANGED <<team, at, ruleVars>>

\* A wave: the dead player spawns away from the flags, after its EndTouch.
Respawn(p) ==
  /\ ~alive[p] /\ team[p] \in Playing
  /\ \A f \in Flags : KeyValues[f].hasTrigger => p \notin at[f]
  /\ alive' = [alive EXCEPT ![p] = TRUE]
  /\ at' = [f \in Flags |-> at[f] \ {p}]
  /\ UNCHANGED <<team, flag, ruleVars>>

\* RestartRound: ResetMap creates the triggers anew, ResetFlags, SwapTeams
\* (which finds the flags' lists already empty), RespawnAll.
RestartRound(swapTeams) ==
  /\ flag' = [f \in Flags |-> ResetFlag(f, flag[f])]
  /\ team' = [p \in Players |-> IF swapTeams /\ team[p] \in Playing
                                 THEN Opponent(team[p]) ELSE team[p]]
  /\ alive' = [p \in Players |-> alive[p] \/ team[p] \in Playing]
  /\ at' = [f \in Flags |-> {}]
  /\ UNCHANGED ruleVars

\* ClientDisconnect leaves the rules out once the game is over; the touch
\* links end in any case.
ClientDisconnect(p) ==
  /\ team[p] # Gone
  /\ flag' = [f \in Flags |->
        LET s == IF gameOver THEN flag[f] ELSE RemoveSelf(f, flag[f], p)
        IN  IF p \in at[f] THEN EndTouch(f, s, p) ELSE s]
  /\ team' = [team EXCEPT ![p] = Gone]
  /\ alive' = [alive EXCEPT ![p] = FALSE]
  /\ at' = [f \in Flags |-> at[f] \ {p}]
  /\ UNCHANGED ruleVars

GoToIntermission ==
  /\ ~gameOver
  /\ gameOver' = TRUE
  /\ UNCHANGED <<playerVars, flag, respawnstyle>>

SetRespawnStyle ==
  /\ respawnstyle' \in Styles \ {respawnstyle}
  /\ UNCHANGED <<playerVars, flag, gameOver>>

PlayerStep(p) ==
  \/ \E f \in Flags : Enter(p, f) \/ Leave(p, f)
  \/ ClientConnect(p)
  \/ \E t \in Playing \cup {Unassigned} : ChangeTeam(p, t)
  \/ EventKilled(p)
  \/ Respawn(p)
  \/ ClientDisconnect(p)

Next ==
  \/ Tick
  \/ \E f \in Flags : FlagThink(f) \/ FlagInput(f)
  \/ \E p \in Players : PlayerStep(p)
  \/ \E swapTeams \in BOOLEAN : RestartRound(swapTeams)
  \/ GoToIntermission
  \/ SetRespawnStyle

\* The server runs every frame and every think that is due in it; players,
\* map logic and the console owe nothing.
Fairness == WF_vars(Tick) /\ \A f \in Flags : WF_vars(FlagThink(f))

Spec == Init /\ [][Next]_vars
FairSpec == Spec /\ Fairness

-----------------------------------------------------------------------------
(* Properties.                                                             *)

\* Everybody on the overload list of a radius flag is alive and of one side,
\* the owner's if the flag has one: death, a change of team and a disconnect
\* take the player off the list, a capture or loss empties it (flag.h, notes on
\* m_vOverloadingPlayers).  It is exempt once the game is over: ClientDisconnect
\* then leaves the flags out.
Guarded(s) ==
  \E t \in Playing :
    /\ s.owner \in {t, Unassigned}
    /\ \A p \in s.overload : alive[p] /\ team[p] = t

OverloadersGuard ==
  ~gameOver => \A f \in Flags : KeyValues[f].hasTrigger \/ Guarded(flag[f])

Captured(f) == flag'[f].owner \in Playing /\ flag'[f].owner # flag[f].owner

Earned(f) == FlagThink(f) /\ Captured(f) =>
               flag'[f].stood[flag'[f].owner] >= KeyValues[f].captureTime

\* A flag that can be lost changes hands by itself only after the new owners
\* have held the ground alone and in force for the whole capture time
\* (ThinkUncapped's m_iLastTeam and m_flNextCapture against what happened on
\* the ground).
CaptureIsEarned ==
  [][\A f \in Flags : ~KeyValues[f].notUncappable => Earned(f)]_vars

\* The flags of the map as capture points.
Field == INSTANCE CapturePoint WITH
           Points <- Flags, Sides <- Playing, Nobody <- Unassigned,
           SiegeTime <- [f \in Flags |-> KeyValues[f].captureTime],
           Losable <- {f \in Flags : ~KeyValues[f].notUncappable},
           LongestWait <- IdlePeriod,
           owner <- [f \in Flags |-> flag[f].owner],
           siege <- [f \in Flags |-> flag[f].stood],
           due <- [f \in Flags |-> flag[f].nextThink]

\* CFlag keeps the promise of a capture point: whatever players, map logic and
\* rounds do in between, a think gives a flag only to the side that is there
\* after its siege, and everything else that gives it is a decree (ForceCap,
\* ResetFlag) that no siege is lost or won by.
IsACapturePoint == Field!Spec

\* Capture puts the capturing players, and nobody else, on the overload list.
CapturersAreListed ==
  [][\A f \in Flags : FlagThink(f) /\ Captured(f) =>
        flag'[f].overload = InRadius(f, flag'[f].owner)]_vars

\* While both sides have somebody at a radius flag that may take it, a think
\* leaves it to whoever has it.
ContestedFlagHolds ==
  [][\A f \in Flags :
        /\ FlagThink(f) /\ ~Idle(flag[f]) /\ ~KeyValues[f].hasTrigger
        /\ \A t \in Playing : Takers(f, flag[f], t) > 0
        => flag'[f].owner = flag[f].owner]_vars

\* A radius flag that uncaps on death has a living holder after each think for
\* as long as it has an owner (flag.cpp: "when all the people who captured the
\* flag die, it's uncapped").
HeldByTheLiving ==
  [][\A f \in Flags :
        /\ FlagThink(f) /\ ~gameOver /\ ~KeyValues[f].hasTrigger
        /\ KeyValues[f].uncapOnDeath /\ ~KeyValues[f].notUncappable
        /\ flag'[f].owner \in Playing
        => \E p \in flag'[f].overload : alive[p] /\ team[p] = flag'[f].owner]_vars

\* The periodic bonus comes a full interval after the last bonus or capture,
\* however long the flag was neutral and however the owner got it: nothing is
\* stored up (Think: the safeguard on m_flNextTeamBonus).  An idle flag does not
\* run the safeguard, so this is of flags that never idle.
NeverIdles(f) ==
  /\ Inputs \subseteq {"ForceCap"} /\ Styles \cap {2, 3, 4} = {}
  /\ ~KeyValues[f].startDisabled

BonusIsPaced ==
  [][\A f \in Flags, t \in Playing :
        /\ FlagThink(f) /\ NeverIdles(f)
        /\ flag'[f].paid[t] > (IF Captured(f) THEN 1 ELSE 0)
        => flag[f].age >= KeyValues[f].teamBonusInterval]_vars

\* A trigger's lists hold exactly the living players that touch it, if the map
\* neither disables nor enables the flag: death, team changes, round restarts
\* and both touch handlers keep them in step.
TriggerListsMatch ==
  \A f \in Flags, t \in Playing, p \in Players :
    KeyValues[f].hasTrigger /\ flag[f].active /\ Inputs \subseteq {"ForceCap"} =>
      flag[f].touching[t][p] =
        IF p \in at[f] /\ alive[p] /\ team[p] = t /\ MayTake(f, t) THEN 1 ELSE 0

\* A side that stays at a live flag alone, with as many players as the flag
\* asks for or with all it has, ends up owning it, if the map logic leaves the
\* flag alone.
HoldsGround(f, t) ==
  /\ ~Idle(flag[f]) /\ Sole(f, flag[f]) = t
  /\ \/ Takers(f, flag[f], t) >= KeyValues[f].capturePlayers
     \/ Takers(f, flag[f], t) >= Cardinality(Members(t))

SiegeSucceeds ==
  \A f \in Flags, t \in Playing :
    <>[]HoldsGround(f, t) /\ <>[][~FlagInput(f)]_vars
      => <>[](flag[f].owner = t)

=============================================================================
