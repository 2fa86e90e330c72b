# The Battle Grounds 2: the rules of the game in TLA+

This directory holds a TLA+ development of the part of The Battle Grounds 2 (a multiplayer mod on
the Source SDK 2007) that decides who holds what, who fights and who wins: capture points, capture
the flag, the rounds, tickets and scores of a match, the players' sides, classes and spawn points,
the musket and the cannon. The modules are written from the C++ source under
`src/`; `PROJECT.json` maps every definition to the lines it stands for. TLC checks the modules on
small instances, TLAPS proves theorems about them for every value of the constants.

## 1. The system

The repository is the whole SDK (about a million lines, nearly all of it Valve's). The mod's own
logic runs in the server DLL, on one thread: the engine calls `CHL2MPRules::Think` once a frame and
the `Think` of every entity whose think time has come; between them it delivers touches, console
commands, map inputs (the I/O system of the map) and the comings and goings of the players. So there
are no data races; what interleaves is *callbacks*, each of which runs to its end, on state that
several parts keep about one another by raw pointers, client slots and deadlines.

| part | state | operations | who calls it |
|---|---|---|---|
| Capture point `CFlag` (`server/bg2/flag.cpp`, `flag.h`) | owner, contender `m_iLastTeam` and its clock, overload list, trigger lists, bonus deadline, active | `Think`, `ThinkCapped`, `ThinkUncapped`, `Capture`, `ResetFlag`, inputs Enable/Disable/Toggle/ForceCap | engine, map logic, the rules at a restart |
| `flag_trigger` (`server/hl2/hl2_triggers.cpp`) | none of its own: writes the flag's lists | `StartTouch`, `EndTouch` | engine, as players move |
| Capture the flag `CtfFlag` (`server/bg2/ctfflag.cpp`), capture zones `CTriggerCTFCapture` | parent (carrier), dropped, return time, position, active; the carrier's speed modifier | `Think`, `PickUp` (inside it), `DropFlag`, `ReturnFlag`, `ResetFlag`, zone `StartTouch`, inputs | engine, map logic, player events |
| The rules `CHL2MPRules` (`shared/hl2mp/hl2mp_gamerules.cpp`) and `CTeam` (`server/team.cpp`) | the team lists, tickets and their fraction, scores, round number, pending restart and its winner, wave, round, flag and command deadlines, game over | `Think` (full caps, drains, autobalance, commands, waves, round system, limits), `RestartRound`, `SwapTeams`, `HandleScores`, `ClientDisconnected` | engine, console, `bg2_maptrigger` |
| Players `CHL2MP_Player` (`server/hl2mp/hl2mp_player.cpp`) | team, class and next class, alive, suicide pause, weapons, first-spawn allowance | `AttemptJoin`, `ChangeTeam`, `CommitSuicide`, `Event_Killed`, `Spawn`, `RemoveSelfFromFlags` | clients, the rules |
| Map reset (`ResetMap`, `mapfilter.cpp`) | recreates entities, keeps flags and spawn points | `RestartRound` | the rules |
| Spawn points (`server/bg2/spawnpoint.h`, `EntSelectSpawnPoint`, `HandleSpawnList`) | enabled, side, the first tenth of a second | Enable, Disable, Toggle, SetAmerican, SetBritish, ToggleTeam; the search for a spot | map logic, spawning players |
| Cannon `CCannon` (`server/bg2/cannon.cpp`, `cannonball.cpp`) | who controls it, ammunition, next attack; in the players, who is latched to it (`m_hUseEntity`) and whose weapon is put away | `Use`, `StartControl`, `StopControl`, `ControllerPostFrame`, `UpdateOnRemove` | the players' commands, death, the rules at a restart |
| Muskets and bayonets `CBaseBG2Weapon` (`server/bg2/weapon_bg2base.cpp` over `basecombatweapon_shared.cpp`) | ammunition, reload, the shot under way, swing, holster, sights | `ItemPostFrame`, `Fire`, `Swing`, `Reload`, `FinishReload`, `Holster`, `Deploy` | the players' commands |
| Voice commands, bots, client HUD and menus, movement, lag compensation | see `PROJECT.json` | | |

What interacts with what: a player's death, change of team or disconnect has to reach every flag
(`RemoveSelfFromFlags`, `DropFlag`) and the lists of his team; a restart of the round reaches the
flags, the sides, the scores, the tickets and every player in one call; the flags' owners are read
by the rules (`CountHeldFlags`) for full caps and ticket drains; the map's logic may enable, disable
and force flags, open, close and hand over spawn points, and end rounds at any time. A player's
command changes his weapon, uses what he looks at and then works either the cannon he is latched to
or the weapon in his hand; the latch is his, the controls are the cannon's, and the two have to agree.

### What is hard to test

- *Stale state.* A clock started in one think is compared in another (`m_flNextCapture`); the winner
  of a round is stored when the round is called and read five seconds later; trigger lists follow
  touches only while the flag is active; the bullet leaves a moment after the trigger and asks then
  which attack it was.
- *Order.* `ThinkCapped` before `ThinkUncapped`; `ResetFlags` before `SwapTeams` before
  `RespawnAll`, where everybody spawns in one frame; up to four restarts in one `Think` of the
  rules; a search that goes on after the flag it searches for has moved.
- *Every exit has to clean up.* Four ways off a flag's lists, four ways for a CTF flag to leave its
  carrier, three ways for a round to end, six ways off a cannon.
- *Several frames to one deed.* A shot, a reload and a change of weapons each take several frames and
  may begin while another is under way.
- *Limits.* The last ticket and a wave of several players; fractions of tickets; teams of odd size
  under the autobalance; a side smaller than the number of players a flag asks for; class limits
  while the players choose, die and spawn; more players than spawn points; the last cannonball.
- *Liveness.* Nobody respawns by himself: waves and rounds have to reach every dead player; a latched
  player has to come off a gun that is not his.

`hazards` in `PROJECT.json` has each of these at its line, with the property that watches it or the
reason why none does.

### What makes each part correct

- Capture points: a flag changes hands only for a side that held the ground for the whole capture
  time; a contested flag does not change hands; who is on the overload list is alive and of the
  owner's side; a flag that uncaps on death is held by a living player; bonuses are not stored up; a
  side left alone at a flag gets it.
- Capture the flag: only the living carry; no flag is lost; a touch returns; with `sv_ctf_capturestyle 2` the sides are not both without their flag;
  the slow are those who carry; a dropped flag comes home.
- Rounds: one point for one round; the point goes to the side that won when the round was called;
  scores follow the players through the swap; a reinforcement costs a ticket; drains are exact; full
  caps are full and are found; every round that is scored was called; the lists of the teams are in
  step; the match ends; nobody waits for ever; the autobalance comes to rest.
- Players and spawn points: who fights has the weapons of his own side; a limited class takes no more
  than its limit; nobody is spawned into somebody else, nor at the world's origin while there are
  points enough.
- Muskets: what fires is what was begun; no ball is made, and none lost unaccounted for; two shots are
  a reload apart; no shot and no reload hangs.
- Cannons: whoever is taken off the gun has his weapon back; the gun keeps its rate whoever fires;
  nobody stays latched to a gun he does not control.

## 2. Modules

`Flag`, `CtfFlag`, `Rounds`, `SpawnPoints`, `Musket` and `Cannon` each model one part with the events
of the other parts that reach it; `Players` composes the spawn points with those who spawn at them.
`CapturePoint` is abstract: what a capture point promises, which `Flag` implements. The `MC` modules
give the constants values for TLC; `FlagProofs`, `FlagCaptureProofs`, `FlagListsProofs`,
`CtfFlagProofs`, `RoundsProofs`, `PlayersProofs`, `MusketProofs` and `CannonProofs` hold the theorems. In all of them a
C++ object is a record, a method an operator from the old record to the new one, and a method that
calls another is written as a composition, so that the order of the calls is the order in the code.
An action is a whole callback.

Time is never stored as `curtime`: a deadline is the time left until it, a "last" time the time since.
In `Flag` and `CtfFlag` an action `Tick` lets 0.125 s pass (the think period of an active flag) and
may not pass a think that is due, because the engine runs it in that frame. In `Rounds` a frame
takes no or one second. In `Musket` and `Cannon` time passes by itself and commands come in whenever
they come in, several at one moment or none for a while, as a client sends them.

### Flag (`CFlag`, `flag_trigger`)

| TLA+ | code |
|---|---|
| `flag[f].owner`, `lastTeam`, `nextCapture`, `nextBonus`, `overload`, `touching`, `active` | `m_iTeamNum`, `m_iLastTeam`, `m_flNextCapture`, `m_flNextTeamBonus`, `m_vOverloadingPlayers`, `m_vTriggerAmericanPlayers`/`BritishPlayers`, `m_bActive` |
| `flag[f].stood`, `age`, `paid` | not in the code: what an observer of the ground sees, for the properties |
| `at[f]` | the players within the radius, or touching the trigger |
| `FlagThink` = `Think` = `Safeguard`, `TimeBonus`, `MaybeThinkCapped`, `ThinkUncapped` composed | `CFlag::Think` and what it calls, in its order |
| `FlagInput` | `InputEnable`, `InputDisable`, `InputToggle`, `ForceCap` |
| `Enter`, `Leave` | the movement of players with `StartTouch`, `EndTouch` |
| `ClientConnect`, `ChangeTeam`, `EventKilled`, `Respawn`, `ClientDisconnect` | the player events with `RemoveSelfFromFlags` |
| `RestartRound` | `ResetMap`, `ResetFlags`, `SwapTeams`, `RespawnAll` |
| `GoToIntermission`, `SetRespawnStyle` | the end of the game, `mp_respawnstyle` |

The lists of a trigger hold players by pointer and `Count()` may exceed the number of players:
`touching[t][p]` counts the entries. Outputs, sounds, HUD and the amount of points are left out.

### CtfFlag (`CtfFlag`, `CTriggerCTFCapture`)

A map is a set of places; whoever is at the place of a flag is within its radius. `Think` searches
the players in the order of their slots (a function of the slots searched so far) and goes on after a
pick-up, as the code does, with the flag where it then is; `Centre` is the place that the local
origin of a carried flag happens to be. A capture zone is an attribute of a place. `slowed[p]` stands
for the speed modifier; its amount and the class of the carrier are left out.

### Rounds (`CHL2MPRules`, `CTeam`, `bg2_maptrigger`)

`game` is one record for the rules, the teams and what they know of the players. `Frame(dt)` is one
call of `CHL2MPRules::Think`: `FlagUpdate` (full cap or ticket drain), `BalanceTeams`, `RestartMap`,
`RestartRoundCommand`, `Wave`, then `RoundSystem` and `CheckFragLimit`, each working on what the one
before left. `Think` is a set of outcomes because the autobalance picks a random player. `AttemptJoin`
is the class menu, `Spectate` and `ClientDisconnected` the two ways off the lists, `ForceWinRound` the
map's inputs, `Console` the restart commands, `FlagChange` what the flags do meanwhile (any change:
module `Flag` says which can happen). `respawnstyle` is chosen at the start and never changes, so that
one run checks several styles, each with the map, the limits and the commands that fit it.

`decided` is an observer's variable: the round being played has had its result called. Abstractions:
the variables of the server do not change in a match; class limits and the tickets' effect on bots are left out; the points CTF captures
pay are not in these scores; the restart commands are used with their delay of one second.
`ZeroedMemory = FALSE` lets the four members that the constructor forgets start with any value.

### CapturePoint and its refinement

`CapturePoint` has an owner, the siege of each side (how long it has been *seen* alone and in force)
and the time until somebody looks again. A look leaves the owner, makes the point neutral, or gives
it to the side it sees, which has then besieged the point for all of `SiegeTime` if the point is
`Losable`; the map and the round hand points out by decree. There are no clocks, contenders, lists or
bonuses in it. `Flag!Field` instantiates it with `siege` the observer's member `stood`, `due` the time
to the next think, and as points all the flags of the map; `IsACapturePoint` is its specification. A
think is a look, `InputEnable` opens, the other inputs and a restart are decrees, and what players do
between two thinks is a stutter. What it rules out is a capture by a clock that was started for
somebody else, before the ground was lost, or while the flag idled.

### Players and SpawnPoints (`CHL2MP_Player`, `CSpawnPoint`)

| TLA+ | code |
|---|---|
| `enabled`, `pointTeam`, `settling` | `m_bEnabled`, `m_iSpawnTeam`, `m_flNextSetEnabled` |
| `SpawnSpots` | `HandleSpawnList` from any random offset, and `EntSelectSpawnPoint`'s way out |
| `men.side`, `class`, `next`, `hasty` | `GetTeamNumber()`, `m_iClass`, `m_iNextClass`, `m_fNextSuicideTime` |
| `men.arms`, `place` | the side whose weapons and model he was given; where his entity is |
| `AttemptJoin`, `Spectate`, `ClientKill` | the commands "class", "spectate", "kill" |
| `Think` = `BalanceTeams`, then waves or `RestartRound` with or without `SwapTeams` | what the rules do to players in a frame |
| `Orders`, `Taken`, `Spots` | a group spawned one after the other in the order of the teams' lists, each where those before him are not |

When a wave or a restart is due is the subject of `Rounds`; here they may come in any frame, for any of
the dead, which is more than the code does. `Walk` puts a player anywhere, on spawn points too. The
points stand far enough apart for a player to be in the way of one only.

### Musket (`CBaseBG2Weapon`)

One life of one soldier with a firearm and, for some classes, a blade. `man` holds the members of the
weapons and the player's `m_flNextAttack` (`busy`), all deadlines as what is left of them, -1 for long
past. `Frame` is one call of `ItemPostFrame` with any set of buttons: the retrace of a swing, the
delayed shot, `CheckReload`, the attacks, the reload key, the sights and what happens when all buttons
are up, in that order. `SelectItem` is the change of weapon that a command makes before its frame,
whether the player is busy or not; it is `Holster`, which may refuse, and `Deploy`. `Wade` is
`SetPlayerUnderwater`. `since` is an observer's clock of the time since the last shot. `Kits` are the
equipments that the classes' weapon scripts make of these members.

### Cannon (`CCannon`)

`Command` is all of a player's command: the change of weapon, `PlayerUse`, then `PostThink` with the
controls and the weapon in hand. `controller` is the cannon's `m_hController`, `using` the players whose
`m_hUseEntity` is the cannon; that they differ is the code's design and the hazard. The dead and
spectators send commands as well. A restart of the round removes the cannon (`UpdateOnRemove`) and
makes a new one, unless the map keeps it (`mapfilter_excluder`); `Spawn` of the players follows.
`AimAtTarget` is a map that aims a cannon without a crew.

## 3. What the runs check

| run | instance | what it asks |
|---|---|---|
| `flag_radius` | 2 players, one radius flag: 2 capturers (or all the side has), capture time 1, uncaps on death; all four inputs; styles 1 and 2; fair | types; `OverloadersGuard`; the refinement `IsACapturePoint`; `ContestedFlagHolds`; `HeldByTheLiving`; `SiegeSucceeds` |
| `flag_trigger` | 2 players, a trigger flag of the British that only the Americans may take, capture time 2, bonus every 2 ticks; ForceCap | `TriggerListsMatch` against who really touches; `BonusIsPaced` |
| `ctf_two` | 2 players, a flag for each side, 3 places, capture style 2, return style 2, all four inputs | types; `CarriedByTheLiving`, `NothingLost`, `OneFlagAway` (no mutual hostage), `TouchReturns` |
| `ctf_one` | 2 players, one neutral flag, all styles, no inputs; fair | `OnlyCarriersAreSlow`; `DroppedComesHome` |
| `rounds_match` | styles 3 (2 players, `sv_restartround`, draws by the map) and 4 (1 player, 2 flags, time limit 2, `sv_restartmap`); 2 rounds of 2 s, 1 and 2 tickets, drains of 1/2 and 3/2 tickets, unset memory | types; `OnePointPerRound`, `AllowanceIsUsed`, `ScoresFollowPlayers`, `ReinforcementsArePaid`, `DrainIsExact` |
| `rounds_live` | styles 1 (1 player, 3 flags of which one does not count, autobalance), 2 and 3 (2 players); winners by the map, `fraglimit` 2; fair | `Rosters`, `DecidedRoundsOnly`, `FullcapIsFull`; under fairness `MatchEnds`, `NobodyWaitsForever`, `WipeoutRestarts`, `BalanceSettles`, `FullcapIsFound` |
| `players` | 2 players who may be exchanged, 4 spawn points (one for each side, two of the map's choice, one of them closed at first), 2 classes, no officer on a small server and one on a bigger, style 4, autobalance | `ArmedByOwnSide`, `SpotsAreKept`, `SpawnedApart`, `NobodyIsLost` |
| `musket` | an infantryman's, a rifleman's and an officer's kit; 2 balls in the pouch, times of 1 to 4 units; fair | `RightAttack`, `NoFreeBalls`, `SlowToLoad`; under fairness `NothingHangs` |
| `cannon` | 2 players; cannons without end, of 2 balls, and of 2 balls and kept by the map; interval 2; fair | `CrewIsArmed`, `RateIsKept`; under fairness `NobodyHangsOn` |
| `flag_listed` | trigger flag | violated: `Capture` lists the clients in the first slots (`flag.cpp:608`), not the capturers |
| `ctf_reset` | neutral flag, input Reset | violated: a flag that the map resets leaves its carrier slow (`ctfflag.cpp:245`) |
| `rounds_twice` | style 3, `sv_restartround` | violated: a restart leaves `m_bIsRestartingRound` set (`hl2mp_gamerules.cpp:758`) and the new round is ended with the old winner |

Every property of a passing run has a mutant in `PROJECT.json`: an operator, kept next to the one it
mutates and marked "Mutant of", that changes it as a plausible slip in that code would.

**Bounds.** Two players are enough for one on each side, two on one side, and one who comes while the
other goes; what needs a third (who guards a flag that two of the other side attack) was run with
three while the models were written and is too slow to keep. Capture times, round times and intervals of 1 or 2 units are the
smallest that tell "just begun", "running" and "expired" apart; `MaxTouches` 2 lets a trigger's list
hold a player twice. Real delays are scaled (`DecideDelay` 5 s to 1, `DrainPeriod` 10 s to 1): the code
compares each with the current time only, never with one another. Where it does compare them, in
`Musket`, the values keep the order of the real ones: a shot leaves before the gun may be put away
(`HolsterLock`) or attack again, a swing is over before the next. Deadlines that are long past are
kept at a floor (`Down`, `Elapse`): the code only asks whether they are past; for the bonus, which adds
to its deadline, the floor is one interval. `MaxScore` bounds what the map's inputs hand out; scores of
rounds are bounded by `TicketRounds` and `fraglimit`. Two balls in the pouch and two for the cannon are
one that is followed by another and one that is the last. Four spawn points are one more than two
players can be in the way of.

**Fairness.** The server runs its frames and every think that is due: weak fairness of `Tick` and
`FlagThink`, and of `Frame(1)` (a frame that lets time pass). Otherwise players, map logic and the
console owe nothing: `SiegeSucceeds` asks for the map logic to leave the flag alone and
`BalanceSettles` for the players to stop joining and leaving, since either can undo any progress; both
say so in their premise. In `Musket` and `Cannon` the commands of a connected client keep coming
(weak fairness of `Frame`, and of each player's `Command`), *whatever* is pressed: a client that sends
none times out and is disconnected. `NobodyHangsOn` therefore does not hang on anybody pressing the
right key.

`rounds_live` is of styles with waves, rounds or tickets: in style 0 (deathmatch) nothing spawns a dead
player again, and in style 2 a player whose opponents have all left waits for new ones. `BalanceSettles`
needs a tolerance of at least 2: with 1 and an odd number of players the code swaps for ever.

## 4. What is proved

`FlagProofs`, for any number of clients, flags, key values, styles and inputs (`ConstantsAssumption`):

- `TypeCorrect`: `Spec => []TypeOK`. One lemma per method: applied to a record of the right type it
  gives one. The lemma on `TimeBonus` needs that `Observe` has just cleared `paid`.
- `OverloadersGuarded`: `Spec => []OverloadersGuard`. While the game runs, whoever is on the overload
  list of a radius flag is alive and on one side, the owner's if there is one. It is inductive with
  `TypeOK`: the lemmas show that `Capture` and `ThinkCapped` list players of one side only, that the
  other methods keep owner and list or empty the list, and that death, change of team and disconnect
  take the player off every list before his team changes.

`FlagCaptureProofs`, under the same assumption:

- `ContestedHolds`: `Spec => ContestedFlagHolds`. It needs `TypeOK` only: with both sides counted
  `Sole` is `Unassigned`, so `ThinkUncapped` stops the clock, and the owner's own players keep
  `Uncaps` false.
- `CapturesAreEarned`: `Spec => CaptureIsEarned`, the same promise as the refinement below, for one flag
  and without the abstract module. The property is of the step that captures and says
  nothing of the clock before it. The invariant `Covered` does: the side that the clock runs for has
  stood for all of the capture time that is not still to come, and, if the other side owns the flag,
  it is a flag its owner may not take. Without the last part the invariant is not inductive: an owner
  alone at its flag leaves clock and contender as they are (`ThinkUncapped` returns), so the proof has
  to show that no contender is remembered then. `BusyThink` takes a think apart into `ThinkUncapped`
  of a record with the clock of before; `ThinkCovered` goes through the branches of `ThinkUncapped`.

- `FlagIsACapturePoint`: `Spec => IsACapturePoint`: for any number of flags, whatever their key values,
  `Flag` implements `CapturePoint`. The inductive invariant is that of `CapturesAreEarned` (`Clocked`: types and
  `Covered`); then each step is mapped. `ThinkIsALook` shows that what a think leaves in `stood` is
  what `CapturePoint` has as seen by one side or nobody, and that an owner it brings has stood there
  for the whole time; the other lemmas show that touches, deaths, changes of side and departures leave
  owner, `stood` and the next think alone, and that the inputs and a restart change owners only.

`FlagListsProofs`, under the same assumption:

- `ListsMatch`: `Spec => []TriggerListsMatch`. The property is inductive with `TypeOK`: an entry is made by the
  touch that begins and taken by the one that ends, by death, by a change of side and by a departure; a
  restart empties the lists and the players who stand there touch again. It says nothing of maps that
  disable a flag, and needs no exception for the end of the game.
- `LivingHolders`: `Spec => HeldByTheLiving`, from the invariant of `OverloadersGuarded` and what a think of a flag
  that uncaps on death leaves behind: nobody's, or an overload list that is not empty.
- `SiegesSucceed`: with `HoldersAreFound` and time that goes on, `Spec => SiegeSucceeds`. Once the siege stands,
  the ticks it still takes at most (`Owed`: to the next think and the capture time, over the neutral flag
  and over nobody's contender as well) fall with every tick and are kept by every other step, until the flag
  is the attackers'; from then on the holders keep it. The premise on the key values is needed. A
  trigger flag that uncaps on death looks for its holders by index (`IndexedPlayers`, `flag.cpp:608`): one
  attacker in slot 1 captures it, is not found by the next think, which makes it neutral, and captures it
  again, for ever, with points each time. TLC shows it on `flag_radius` with a trigger.
  `EmptyTotal` and `TotalStays` carry the sum over a trigger's list, by induction over the slots.
- `BonusPaced`: `Spec => BonusIsPaced`. A flag that never idles thinks in every tick, so its bonus deadline
  never falls behind; a contender is never the owner, so that a capture always gives the flag to another
  side and sets the deadline anew.

`CtfFlagProofs`, for any number of clients and flags, any map, styles and inputs (`ConstantsAssumption`: the
flags are finitely many and the camera of the intermission is not the origin of the map):

- `TypeCorrect`, `LivingCarriers` (`[]CarriedByTheLiving`), `NoneLost` (`[]NothingLost`) and `OneSideAway`
  (`[]OneFlagAway`) from one invariant: types, where the players may be (`Where`), for every flag that it is
  carried by a living man of a side it may go to or lies where it should (`Sound`), and that with capture
  style 2 flags of one side only are away (`OneSide`).
- `SlowWithReason`: `Spec => []OnlyCarriersAreSlow` for a map that sends its flags no inputs and has nobody at
  `Centre`. Both premises are needed: an input takes the flag from a carrier without a word to him
  (`ctf_reset`), and somebody at the origin takes it over in mid-search (`ctfflag.cpp:122`).
- `TouchedReturns`: `Spec => TouchReturns`.
- `DroppedFlagsComeHome`: if time goes on, `Spec => DroppedComesHome`. `WayHome` bounds the ticks that a flag on
  the ground still needs: the return time, or the next think where a flag does not wait. It falls with
  every tick, whichever way the flag is looked at, taken away or given back in between.

A think searches all slots and works on what it has itself changed, so that what it does is proved by
induction over the slots. `SearchKeeps` states it once: what holds of the flags as they are found, and
is kept by the look at each slot, holds of what the search leaves. It is proved from the least slot at
which it would fail (`LeastNumber`), because the library's induction theorems take an operator. A
pick-up keeps `OneSide` because `HomeFlagTaken` is asked of the flags as the search has left them.

`RoundsProofs`, for any number of players, any limits, commands, flags and drains:

- `PointsAreEarned`: `Spec => []OnePointPerRound`. The invariant `Sound` adds to the property what it
  rests on: scores and the round are natural numbers, and the sum of the scores is below the number
  of the *running* round until the game is over. There is one lemma per phase of `Think`: most phases
  keep the books (`SameBooks`); a swap keeps the sum; the end of a round adds the point and the
  round's number together, and ends the game instead when the last one is over (`NextRoundSound`).
  Nothing is assumed of the members the constructor forgets. The premises (a style with tickets, a
  map that ends no round) are those of the property: the map's inputs hand out points of their own.

- `TypeCorrect`, `RostersKept` (`[]Rosters`) and `AllowanceUsed` (`[]AllowanceIsUsed`) from one inductive
  invariant, `IInv`: the types, `Listed` (no list names a player twice, the two lists share nobody, whoever is
  on one is connected) and `Used` (with tickets nobody fights with his first spawn still free). It is
  stated of a record, `Fit(s, C)`, because the phases of a Think hand one another records no state shows: one
  lemma per phase says that what is fit stays fit, `ThinkFit` chains them. `Rosters` alone is not
  inductive: it counts the lists, and that a removal takes the player off needs `Distinct` (`WithoutIs`).
- `ScoresFollow`: `Spec => ScoresFollowPlayers`. The lemmas about `Changes` say which fields a phase changes
  at most, so that a frame can be read as a step: what the flags, the autobalance, the commands and the
  wave do before the round system (`MiddleChanges`), and how a frame can end (`FinishChanges`). `sv_restartmap`
  may fall into the frame that ends a round; then the round only grows if it was the first, and
  nobody has a point in that one (`Opening`).
- `RoundsAreDecided`: with clean memory and no console commands, `Spec => DecidedRoundsOnly`. `Called`: a
  result that waits to be scored has been called for the round that runs. Both premises are needed: the
  members that the constructor forgets may hold a result nobody called, and `sv_restartround` leaves a
  pending one behind (run `rounds_twice`).
- `FullcapsAreFull`: where the flags count for both sides or for none, `Spec => FullcapIsFull`. `CheckFullcap`
  compares two numbers; with such flags the side holds a subset of the flags that count, and a finite
  subset of the same size is all of them. With flags that count for one side only the numbers may agree
  by accident: the premise says what a map has to look like.
- `DrainsAreExact` and `WavesArePaid`: `Spec => DrainIsExact` and `Spec => ReinforcementsArePaid`, from
  `QuietFrame`, what a frame without a restart does to the tickets. The drain is arithmetic with a remainder
  (`DivMod`, `DrainOfIs`): whole tickets and the fraction carried over are together worth the amount less. That
  a wave never takes more than is left (`WaveIsPaid`) follows from its last payer: all others pay before
  him, and fewer of them than there are tickets.

- `NobodyWaitsLong`, `WipeoutsRestart`, `MatchesEnd` and `FullcapsAreFound`: if time goes on, `Spec` implies
  `NobodyWaitsForever`, `WipeoutRestarts` (where style 0, without waves and rounds, is not played),
  `MatchEnds` (if the console stops restarting) and `FullcapIsFound` (on maps where full caps work:
  `FullCapsWork`). `FrameRuns` says what a frame makes of the time left, from one lemma per phase:
  somebody's death is undone (`Revived`), the side has nobody to fight (`TooFewPlayers`), or the clocks go on
  (`GoesOn`). From it, `Left` bounds what a round has still to run, the delay after its call included,
  `Owed` what a death has to wait for, and `Rest` weighs the rounds to come with it. They fall with
  every counted frame and no other step raises them (`OthersRun`): a map's input or a console command can
  only end the wait. `Rest` cannot stand `sv_restartmap`, which starts the match over; hence `Quiet`.
- `BalanceSettlesDown`: with a tolerance of at least 2, `Spec => BalanceSettles`. `MoveEvens`: whoever is moved
  leaves the side that has at least two men more, and the gap of the sides falls. `Unrest` adds the
  rounds whose swap is to come, because the end of a round swaps the sides in the frame that may move a
  man, and the property counts both. `StepEases`: no other step raises it once nobody joins or leaves. With
  tickets it needs `Quiet` as well: `sv_restartmap` gives the rounds, and their swaps, back.

`PlayersProofs`, for any finite sets of clients and points, any classes, limits and styles:

- `TypeCorrect` and `ArmedCorrect`: `Spec => []ArmedByOwnSide`. The invariant `Calm` is what the property
  rests on: a suicide is refused for a while after one, so a change of sides kills only because
  `ChangeTeam` clears the pause first, and because a player who is neither on a side nor dead has
  no pause running (`JoinIsFatal`): he joins without dying and is not to be found alive with nothing.
- `SpawnsApart`: `Spec => SpawnedApart`. `SpawnApart` takes two of a group that spawn in one frame: the
  later one's spot is not among what was taken when his turn came, and the earlier one's was; one who
  does not spawn stood there before. It holds in whatever order the lists are walked.
- `NobodyLost`: `Spec => NobodyIsLost`. The invariant `Away` has empty slots stand nowhere on the map; then whoever
  crowds out a point is connected and stands on it, and nobody stands on two (`CrowdedOut`): if all
  points of a side are crowded out there are no more of them than players.
- `SpotsKept`: `Spec => SpotsAreKept`. `ClassIsFull` is asked without the player himself and he joins the class in
  the same call, so that one more than before is still within the limit (`JoinGrows`); what a restart does to
  everybody at once keeps side and class of all, or swaps somebody (`Reshuffled`).

`MusketProofs`, for any kits, balls and times within `MusketAssumption` (the delays are positive, a shot
leaves before the next attack and before the gun may be put away, a swing ends before the next attack
and before a drawn or reloaded weapon is ready):

- `TypeCorrect`, `AttackKept` (`[]RightAttack`), `BallsAccounted` (`NoFreeBalls`), `ShotsArePaced`
  (`SlowToLoad`) from one inductive invariant `Sound` of four parts: `Fires` (a shot that has yet to leave
  is in the hand, before the holster lock and before any next attack, with an empty gun that does not
  reload), `Loads` (a reload is in the hand, has a ball and keeps the player busy until it ends), `Swings`
  (a swing holds up every attack of its weapon until it is over) and `Paced` (a loaded gun has had its
  full pause; a pending shot and a reload have what is still to come of theirs). Without `Fires` neither
  `RightAttack` nor the books are inductive: another attack would overwrite `m_iLastAttack` under way.
- `NothingHangsForLong`: if time goes on and commands keep coming, `Spec => NothingHangs`. What keeps the player
  busy and what the shot still waits for fall with the ticks and are never raised under way (`Fires`,
  `Loads`); once both are over the next command, whatever it is, loads the ball or fires the shot.

`CannonProofs`, for any number of clients, maps and times:

- `TypeCorrect`; `CrewArmed` (`[]CrewIsArmed`) from `Served` (who is in control is connected and latched)
  and `Armed` (a living man with his weapon put away is in control, or it is empty), kept by
  every way on and off the gun; `RateKept` (`RateIsKept`) from `Paced`: unless the stock has just run out,
  the time since the last shot and the time to the next attack are together an interval.

- `NobodyHangsOnForLong`: if the commands of everybody connected keep coming, `Spec => NobodyHangsOn`. Any command
  of the man himself lets him go, and no step of the others leads out of the states in which it does.

**Progress without `ENABLED`.** The prover has neither `ENABLED`, and with it no weak fairness, nor induction
over the naturals in a temporal proof. The theorems of progress therefore do not say `FairSpec`; what they
use of it is spelt out in their premises:

- `Clock` and `TimePasses`: a history variable `now` counts steps that let time pass (`Tick`, `Frame(1)`) and
  grows beyond any number. In `Rounds` and `Musket` such a step is always enabled; in `Flag` and `CtfFlag` it is,
  or a think is due, which is fair itself. So a behaviour of `FairSpec`, with a step that
  changes nothing put in where nothing can change any more, has such a clock.
- `CommandsKeepComing`: the weak fairness of the commands with `ENABLED` replaced by the condition that enables
  a command which changes something (connected, in `Cannon`; busy with something that is due, in `Musket`).
- `MoveCounter` and `MovesAddUp`: `moves` counts the frames in which the autobalance moves somebody, and
  either they end or they are more than any number. It holds of every behaviour and stands for the
  induction.

Each proof has the same three parts: a number that the steps never raise and the counted steps lower, as
a lemma about one step; for any fixed deadline, that it cannot be passed (propositional temporal logic);
and that there is a deadline, because the number is one. What the runs check under `FairSpec` itself is
therefore the whole property on a small instance; what the theorems show is that the argument holds for
every value of the constants.

All properties of the passing runs are proved, those of progress under the premises above. That `FairSpec`
brings the premises about is argued here and not proved; the properties under `FairSpec` itself are what
the runs check. The three violated runs have no theorem.

## 5. Differences between code and documents

The three violated runs are the ones kept under check. These were met while modelling, by TLC or by
reading, and are recorded here so that a model that follows the code is not taken for a mistake:

- `flag.cpp:518`: on a flag that cannot be made neutral the capture clock survives while only the
  owners stand there, so attackers who retreat and come back capture at their first think (the
  comment at 288: "wait for m_iCapturePlayers(of only one team?) to stand near it for
  m_flCaptureTime seconds"). `CaptureIsEarned` and `Losable` exempt such flags.
- `hl2_triggers.cpp:983`: a player who leaves a trigger while its flag is disabled stays on the list,
  and the enabled flag may be captured with nobody there. `TriggerListsMatch` exempts maps that
  disable or enable such a flag.
- `gameinterface.cpp:2242`: a disconnect in the intermission skips `RemoveSelfFromFlags` (notes at
  `flag.h:177`: "when a player disconnects, remove from list").
- `ctfflag.cpp:122`: after a pick-up the search goes on around the local origin of a flag that now has
  a parent: a player near the origin of the map takes it over in the same think and the first stays
  slow. `ctf_one` has nobody at the origin (`Centre`).
- `hl2mp_gamerules.cpp:228`: four members are not set by the constructor; the first round may be
  ended at once. `rounds_match` starts with any values (`ZeroedMemory = FALSE`), `rounds_live` does not.
- `hl2mp_gamerules.cpp:1931`: `CheckFullcap` compares numbers of flags; with flags that count for one
  side only, one that does not count stands in for one that does.
- `hl2mp_gamerules.cpp:1976`: `mp_tickets_drain_a` is what the *Americans* lose, when the British hold more
  than half; its help (line 124) says that it is drained when the Americans hold more than half. The model
  follows the code, which the HUD follows too (`bg2_hud_main.cpp:442`). `DrainIsExact` takes no side: the
  amounts it allows (`Amounts`) are those of the code or those of the help, the same for both sides in a frame.
- `hl2mp_gamerules.cpp:116`: "0 = regular dm", but in style 0 the dead are not spawned again: the call
  of `respawn()` in `PlayerDeathThink` is commented out (`player.cpp:2189`).
- `ctfflag.cpp:232`: `m_bIsCarried` stays set after a drop; only the HUD reads it.
- `spawnpoint.h`: the comment has `Reset` called on a round restart, but spawn points are among the
  entities that `ResetMap` keeps and nothing else calls it: what the map closed stays closed.
- `spawnpoint.h`: an `info_player_american` that the map tells to change sides serves nobody:
  `EntSelectSpawnPoint` looks for the British on their own list and on the multispawns only.
- `hl2mp_player.cpp:1347`: an officer who asks for another class gives up his spot at once and goes on
  fighting as an officer until he dies, so living officers may exceed `mp_limit_off`. `SpotsAreKept`
  counts the next class, as `ClassIsFull` does.
- `weapon_bg2base.cpp`: a gun that is put away with a shot under way keeps it and fires when it is drawn
  again; `Deploy` sets the blade's next attack anew; only the weapon in hand is spoilt by water;
  every refused change of weapons during a steady reload moves `m_fNextHolster` on.
- `cannon.cpp:651`: "make myself not usable", but `IsControllable()` is always true (`cannon.h:93`): the
  spent cannon can be used, sets no next attack after its last ball, and its next shot takes the stock
  from 0 to -1, which means without end. `RateIsKept` exempts that one shot.
- `player.cpp:7128`: `Use` latches a player before the controls refuse him, and when he is let go
  (`ClearUseEntity`, USE_OFF) the gunner is taken off the gun with him. Dead men and spectators
  may do both.
- `player.cpp:4472`: "if they've moved too far from the gun", but `OnControls` is always true.
- `cannon.cpp:621`: a gunner whose musket is empty gets nothing in his hands when he is taken off
  (`Deploy` fails), stays latched, and `ControllerPostFrame` runs without a controller, which its
  assertion excludes. `CrewIsArmed` and `NobodyHangsOn` exempt empty weapons.

## 6. Not modelled

- Movement, ballistics, lag compensation, prediction, HUD, sounds and menus: numeric or display, and
  no rule reads their state. Voice commands and bots: a rate limit and random input. Engine, SDK and
  vendored code, which is nearly all of the repository: external, modelled where a part calls it.
- The composition of flags with rules: `Rounds` lets flags change as they like, which is more than `Flag`
  allows; what needs the think times of both (a full cap counted before an idle flag hides its owner)
  is not checked. Each of the two has hundreds of thousands of states on its own at the bounds below
  which its cases do not happen.
- Map reset as a part of its own: each module has what a reset does to its own entities.
- Flags, CTF flags: outputs and messages, amounts of points, the intermission of `CtfFlag`.
- Rounds: win songs, the change of level after the intermission, a change of `mp_respawnstyle` in
  mid-match (`Flag` has it).
- Players: ammunition and kits beyond whose they are, stamina, speed, the observers' cameras.
- Musket: aim, recoil, damage, stamina, the flight of the bullet, dropping a weapon, the variables
  `mp_disable_*`, `sv_infiniteammo` and `sv_turboshots` (with which a gun attacks again before its shot
  has left; `MusketAssumption` excludes it).
- Cannon: aiming and turning, the ball and its damage, sounds, the intermission.
- Branches that cannot run: the re-initialisation for `m_fNextFlagUpdate == 0` and the draw in
  `CheckFullcap`.

Hazards that no property watches, with the reason in `PROJECT.json`: a disconnect in the intermission
(`gameinterface.cpp:2242`), the first bonus of an idle flag (`flag.cpp:295`), Disable followed by ForceCap
(`flag.cpp:151`), joining a side without tickets (`hl2mp_player.cpp:1365`), scores after the last round
(`hl2mp_gamerules.cpp:437`) and the idle flags of last man standing (`hl2mp_gamerules.cpp:642`). Four more do
go wrong in the code, and the property next to them is stated around them: the lists of a disabled trigger
flag (`hl2_triggers.cpp:983`; `TriggerListsMatch`), flags that count for one side only
(`hl2mp_gamerules.cpp:1931`; `FullcapIsFull`), a tolerance below 2 (`hl2mp_gamerules.cpp:694`; `BalanceSettles`)
and the ball after the last one (`cannon.cpp:649`; `RateIsKept`).

## 7. Plan

Done: `Flag` with its three proof modules and `CapturePoint`; `CtfFlag` with `CtfFlagProofs`; `Rounds` with `RoundsProofs`;
`SpawnPoints` and `Players` with `PlayersProofs`; `Musket` with `MusketProofs`; `Cannon` with
`CannonProofs`.

What would come next, in this order:

1. `Match`: flags and rules composed, with the think times of both, and captures after the game is over.
2. `Musket` with dropped weapons and the variables that switch attacks off.
