------------------------------- MODULE Cannon -------------------------------
(***************************************************************************)
(* A cannon (CCannon and CCannonFire, game/server/bg2/cannon.cpp) and the  *)
(* players who press their use key at it: who controls it, who is latched  *)
(* to it (m_hUseEntity), whose weapon is put away meanwhile, and when it   *)
(* fires.                                                                  *)
(*                                                                         *)
(* A player acts in one step for each of his commands: the change of       *)
(* weapon, PreThink with the use key, and PostThink with the controls and  *)
(* the weapon in hand, in the order of the code.  The commands of several  *)
(* players interleave.  The dead and the spectators send commands too, and *)
(* PreThink looks at their use key.                                        *)
(*                                                                         *)
(* The cannon's time is kept as what is left of m_flNextAttack.            *)
(***************************************************************************)
EXTENDS Integers

CONSTANTS
  MaxClients,     \* players sit in the slots 1 .. MaxClients
  Maps,           \* what a map may make of its cannon, see MapRecord
  FireInterval,   \* 1 / m_fireRate
  SightDelay      \* 0.5 seconds after a target came into sight

Players == 1 .. MaxClients
Nobody  == 0

Up   == "up"            \* the active weapon is in sight
Down == "down"          \* it is put away: EF_NODRAW, or ACT_VM_HOLSTER
None == "none"          \* no active weapon

MapRecord ==
  [ammo_count : Nat \cup {-1},    \* key value, -1 if the cannon never runs out
   kept       : BOOLEAN]          \* a mapfilter_excluder keeps it on a new round

ASSUME CannonAssumption ==
  /\ MaxClients \in Nat
  /\ Maps \subseteq MapRecord
  /\ FireInterval \in Nat /\ SightDelay \in Nat

VARIABLES
  client,   \* the connected players
  alive,    \* IsAlive()
  map,      \* the map that is played
  cannon,   \* the cannon and the hands of the players, see CannonRecord
  since     \* time since the last shot; a history variable, read by no action

vars == <<client, alive, map, cannon, since>>

\* fired is not in the code: the last step fired the cannon.
CannonRecord ==
  [controller : Players \cup {Nobody},               \* m_hController
   using      : SUBSET Players,                      \* m_hUseEntity is the cannon
   arms       : [Players -> {Up, Down, None}],       \* GetActiveWeapon()
   dry        : [Players -> BOOLEAN],                \* it has no ammunition left
   trigger    : [Players -> BOOLEAN],                \* IN_ATTACK of m_nButtons
   ammo       : Nat \cup {-1},                       \* m_iAmmoCount
   wait       : Nat,                                 \* m_flNextAttack
   fired      : BOOLEAN]

TypeOK ==
  /\ client \subseteq Players
  /\ alive \in [Players -> BOOLEAN]
  /\ map \in Maps
  /\ cannon \in CannonRecord
  /\ since \in 0 .. FireInterval

-----------------------------------------------------------------------------
(* The controls.                                                           *)

\* Deploy of the active weapon: not for dead men, nor for an empty weapon.
Deploy(s, p) ==
  IF alive[p] /\ s.arms[p] # None /\ ~s.dry[p]
  THEN [s EXCEPT !.arms[p] = Up] ELSE s

\* Mutant of StopControl: the weapon stays where it is.
StopControlOnly(s) == [s EXCEPT !.controller = Nobody]

StopControl(s) ==
  IF s.controller = Nobody THEN s
  ELSE [Deploy(s, s.controller) EXCEPT !.controller = Nobody]

\* ClearUseEntity: with USE_OFF the cannon stops whoever controls it.
ClearUseEntity(s, p) ==
  IF p \in s.using THEN [StopControl(s) EXCEPT !.using = @ \ {p}] ELSE s

\* Mutant of StartControl: a new gunner finds the cannon loaded.
StartControlLoaded(s, p, in) ==
  IF s.controller # Nobody \/ in.use = "barred" THEN s
  ELSE [s EXCEPT !.controller = p, !.wait = 0,
                 !.arms[p] = IF @ = Up /\ ~in.locked THEN Down ELSE @]

\* Refused while somebody else is in control, and by the master of the map; the
\* weapon may refuse to be put away.
StartControl(s, p, in) ==
  IF s.controller # Nobody \/ in.use = "barred" THEN s
  ELSE [s EXCEPT !.controller = p,
                 !.arms[p] = IF @ = Up /\ ~in.locked THEN Down ELSE @]

\* CCannon::Use with the use key: latched before the controls are asked.
Use(s, p, in) ==
  IF s.controller = p THEN StopControl(s)
  ELSE StartControl([s EXCEPT !.using = @ \cup {p}], p, in)

\* The last ball of a stock takes the crew off the gun, and sets no m_flNextAttack;
\* after it, --m_iAmmoCount makes the stock unlimited.
ControllerPostFrame(s) ==
  IF s.wait > 0 \/ s.controller = Nobody \/ ~s.trigger[s.controller] THEN s
  ELSE LET shot == [s EXCEPT !.fired = TRUE,
                             !.ammo = IF @ > -1 THEN @ - 1 ELSE @]
       IN IF s.ammo = 1 THEN StopControl(shot)
          ELSE [shot EXCEPT !.wait = FireInterval]

-----------------------------------------------------------------------------
(* A player's command.                                                     *)

Inputs ==
  [attack : BOOLEAN,
   use    : {"no", "away", "here", "barred"},   \* pressed, and what it reaches
   select : BOOLEAN,     \* another weapon is taken out
   locked : BOOLEAN,     \* the weapon in hand refuses to be put away
   last   : BOOLEAN]     \* it shoots its last ball

\* Weapon_Switch to a weapon with ammunition.
Select(s, p, in) ==
  IF alive[p] /\ in.select
  THEN [s EXCEPT !.arms[p] = Up, !.dry[p] = FALSE] ELSE s

\* The use key gives up what is latched, or uses what is there.
PlayerUse(s, p, in) ==
  IF in.use = "no" THEN s
  ELSE IF p \in s.using THEN ClearUseEntity(s, p)
  ELSE IF in.use = "away" THEN s
  ELSE Use(s, p, in)

\* Mutant of Controls: a weapon in hand is no reason to leave the controls.
HoldControls(s, p) ==
  IF ~(alive[p] /\ p \in s.using) THEN s ELSE ControllerPostFrame(s)

\* PostThink: "if they've moved too far from the gun, or deployed another weapon,
\* unuse the gun"; OnControls says that nobody has moved too far.
Controls(s, p) ==
  IF ~(alive[p] /\ p \in s.using) THEN s
  ELSE IF s.arms[p] = Up THEN ClearUseEntity(s, p)
  ELSE ControllerPostFrame(s)

\* ItemPostFrame, for a player who is not latched.
ItemPostFrame(s, p, in) ==
  IF alive[p] /\ p \notin s.using /\ s.arms[p] = Up /\ in.last
  THEN [s EXCEPT !.dry[p] = TRUE] ELSE s

RunCommand(s, p, in) ==
  LET begun   == [s EXCEPT !.trigger[p] = in.attack, !.fired = FALSE]
      pressed == PlayerUse(Select(begun, p, in), p, in)
  IN  ItemPostFrame(Controls(pressed, p), p, in)

-----------------------------------------------------------------------------
(* Actions.                                                                *)

Calm(s) == [s EXCEPT !.fired = FALSE]

Init ==
  /\ client = {} /\ alive = [p \in Players |-> FALSE]
  /\ map \in Maps
  /\ cannon = [controller |-> Nobody, using |-> {},
               arms |-> [p \in Players |-> None],
               dry |-> [p \in Players |-> FALSE],
               trigger |-> [p \in Players |-> FALSE],
               ammo |-> map.ammo_count, wait |-> 0, fired |-> FALSE]
  /\ since = FireInterval

Command(p, in) ==
  /\ p \in client
  /\ cannon' = RunCommand(cannon, p, in)
  /\ since' = IF cannon'.fired THEN 0 ELSE since
  /\ UNCHANGED <<client, alive, map>>

AnyCommand(p) == \E in \in Inputs : Command(p, in)

ClientConnect(p) ==
  /\ p \notin client
  /\ client' = client \cup {p}
  /\ cannon' = Calm(cannon)
  /\ UNCHANGED <<alive, map, since>>

\* Spawn with GiveDefaultItems: what is latched stays latched.
Spawned(s, who) ==
  [s EXCEPT !.arms = [p \in Players |-> IF p \in who THEN Up ELSE @[p]],
            !.dry = [p \in Players |-> @[p] /\ p \notin who]]

\* A wave.
Respawn(p) ==
  /\ p \in client /\ ~alive[p]
  /\ alive' = [alive EXCEPT ![p] = TRUE]
  /\ cannon' = Spawned(Calm(cannon), {p})
  /\ UNCHANGED <<client, map, since>>

\* Event_Killed, also on changing sides and on becoming a spectator.
EventKilled(p) ==
  /\ alive[p]
  /\ alive' = [alive EXCEPT ![p] = FALSE]
  /\ cannon' = [ClearUseEntity(Calm(cannon), p) EXCEPT
                  !.arms[p] = None, !.dry[p] = FALSE]
  /\ UNCHANGED <<client, map, since>>

\* The slot's handles turn to NULL; nothing is stopped.
ClientDisconnect(p) ==
  /\ p \in client
  /\ client' = client \ {p}
  /\ alive' = [alive EXCEPT ![p] = FALSE]
  /\ cannon' = [Calm(cannon) EXCEPT
                  !.controller = IF @ = p THEN Nobody ELSE @,
                  !.using = @ \ {p}, !.arms[p] = None,
                  !.dry[p] = FALSE, !.trigger[p] = FALSE]
  /\ UNCHANGED <<map, since>>

\* ResetMap removes the cannon (UpdateOnRemove) and makes a new one.
Recreated(s) ==
  [StopControl(s) EXCEPT !.using = {}, !.ammo = map.ammo_count, !.wait = 0]

\* Everybody who is on a side spawns again, the living and others of the dead.
RestartRound(fighters) ==
  /\ {p \in Players : alive[p]} \subseteq fighters
  /\ alive' = [p \in Players |-> p \in fighters]
  /\ LET s == Calm(cannon)
     IN  cannon' = Spawned(IF map.kept THEN s ELSE Recreated(s), fighters)
  /\ since' = IF map.kept THEN since ELSE FireInterval
  /\ UNCHANGED <<client, map>>

\* AimFuncTankAtTarget, when the map aims a cannon without a crew.
AimAtTarget ==
  /\ cannon.controller = Nobody /\ cannon.wait = 0
  /\ cannon' = [Calm(cannon) EXCEPT !.wait = SightDelay]
  /\ UNCHANGED <<client, alive, map, since>>

Tick ==
  /\ cannon' = [Calm(cannon) EXCEPT !.wait = IF @ > 0 THEN @ - 1 ELSE @]
  /\ since' = IF since < FireInterval THEN since + 1 ELSE since
  /\ UNCHANGED <<client, alive, map>>

Next ==
  \/ \E p \in Players : AnyCommand(p) \/ ClientConnect(p) \/ Respawn(p)
  \/ \E p \in Players : EventKilled(p) \/ ClientDisconnect(p)
  \/ \E fighters \in SUBSET client : RestartRound(fighters)
  \/ AimAtTarget
  \/ Tick

\* The commands of a connected player keep coming.
Fairness == \A p \in Players : WF_vars(AnyCommand(p))

Spec == Init /\ [][Next]_vars
FairSpec == Spec /\ Fairness

-----------------------------------------------------------------------------
(* Properties.                                                             *)

\* Whoever is in control is connected and latched to the cannon, so that his own
\* use key and his death reach it; and a living man whose weapon is put away is in
\* control, or the weapon is empty: whoever is taken off the gun (by his own key,
\* another man's key, the last ball, the end of the cannon) has his weapon back
\* ("Arm player/npc weapon.").
CrewIsArmed ==
  /\ cannon.controller # Nobody =>
       /\ cannon.controller \in client
       /\ cannon.controller \in cannon.using
  /\ \A p \in Players :
       alive[p] /\ cannon.arms[p] = Down =>
         cannon.controller = p \/ cannon.dry[p]

\* Two balls are an interval apart, however often the crew changes in between
\* ("Control the firing rate."), except that the last ball of a stock sets no
\* next attack.
RateIsKept ==
  [][cannon'.fired => since = FireInterval \/ cannon.ammo = 0]_vars

\* Latched to a cannon that he does not control, with something to shoot with.
HangsOn(p) ==
  /\ alive[p] /\ p \in cannon.using
  /\ cannon.controller # p /\ ~cannon.dry[p]

\* Whoever was refused the controls or lost them is let go: his next command does
\* it, whatever it is.
NobodyHangsOn == \A p \in Players : HangsOn(p) ~> ~HangsOn(p)
=============================================================================
