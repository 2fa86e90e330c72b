------------------------------- MODULE Musket -------------------------------
(***************************************************************************)
(* A soldier's firearm (CBaseBG2Weapon, game/server/bg2/weapon_bg2base.cpp *)
(* over CBaseCombatWeapon, game/shared/basecombatweapon_shared.cpp) and the *)
(* blade that some classes carry beside it: the flintlock that fires a     *)
(* moment after the trigger, the slow reload, the water that spoils the    *)
(* charge, iron sights, bayonet, and the change from one weapon to the     *)
(* other at any of these moments.  One life of one soldier.                *)
(*                                                                         *)
(* The times at which something is allowed or due (m_flNext...) are kept   *)
(* as what is left of them, down to -1 for a moment that has passed.  Time *)
(* passes by itself: the client's commands come in whenever they come in.  *)
(***************************************************************************)
EXTENDS Integers

CONSTANTS
  Kits,            \* the equipment of the classes, see KitRecord
  Balls,           \* balls in the pouch at the start
  FlintlockDelay,  \* sv_flintlock_delay
  HolsterLock,     \* 0.3 seconds after a shot (Fire)
  HolsterTime,     \* m_fHolsterTime
  AttackRate,      \* m_flAttackrate
  RetraceTime,     \* GetRetraceDuration
  DrawTime,        \* SequenceDuration of drawing a weapon
  ReloadTime,      \* SequenceDuration of reloading
  SightsDelay,     \* IRONSIGHTS_ATTACK_DELAY_IN
  WetPause,        \* 0.2 seconds after a try under water
  EmptyPause,      \* 0.3 seconds after a change away from an empty gun
  Longest          \* bound on all of these times

Gun   == "gun"
Blade == "blade"
Weapons == {Gun, Blade}

Attacks == {"primary", "secondary"}     \* ATTACK_PRIMARY, ATTACK_SECONDARY
Buttons == {"attack", "attack2", "reload", "zoom"}

KitRecord ==
  [bayonet : BOOLEAN,     \* the second attack of the gun is ATTACKTYPE_STAB
   sights  : BOOLEAN,     \* m_bWeaponHasSights
   steady  : BOOLEAN,     \* m_bCantAbortReload
   blade   : BOOLEAN,     \* carries a blade too
   leaves  : BOOLEAN]     \* an empty gun is left for the blade (weapon script)

ASSUME MusketAssumption ==
  /\ Kits \subseteq KitRecord
  /\ Balls \in Nat /\ Longest \in Nat
  /\ {FlintlockDelay, HolsterLock, HolsterTime, AttackRate, RetraceTime, DrawTime,
      ReloadTime, SightsDelay, WetPause, EmptyPause} \subseteq 1 .. Longest
  /\ FlintlockDelay < AttackRate /\ FlintlockDelay <= HolsterLock
  /\ RetraceTime < AttackRate /\ RetraceTime <= DrawTime /\ RetraceTime <= ReloadTime

VARIABLES
  kit,      \* what the soldier's class carries
  man,      \* his weapons, see Man
  under,    \* m_bPlayerUnderwater
  since     \* time since his last shot; a history variable, read by no action

vars == <<kit, man, under, since>>

Timer == -1 .. Longest

Man ==
  [active   : Weapons,
   ammo     : 0 .. Balls,            \* m_iAmmo
   clip     : 0 .. 1,                \* m_iClip1 of the gun
   inReload : BOOLEAN,               \* m_bInReload of the gun
   pending  : BOOLEAN,               \* m_bShouldFireDelayed
   fire     : Timer,                 \* m_flNextDelayedFire
   clicked  : BOOLEAN,               \* m_bFireOnEmpty
   sighted  : BOOLEAN,               \* m_bIsIronsighted
   unsight  : Timer,                 \* m_flNextDisableIronsights
   busy     : Timer,                 \* m_flNextAttack of the player
   next     : [Weapons -> Timer],    \* m_flNextPrimaryAttack
   next2    : [Weapons -> Timer],    \* m_flNextSecondaryAttack
   holster  : [Weapons -> Timer],    \* m_fNextHolster
   swing    : [Weapons -> Timer],    \* m_flStopAttemptingSwing
   last     : [Weapons -> Attacks]]  \* m_iLastAttack

Shortest == FlintlockDelay + ReloadTime

TypeOK ==
  /\ kit \in Kits
  /\ man \in Man
  /\ under \in BOOLEAN
  /\ since \in 0 .. Shortest

Later(a, b) == IF a > b THEN a ELSE b
Sooner(a, b) == IF a < b THEN a ELSE b

-----------------------------------------------------------------------------
(* Sights, the change of weapons and reloading.                            *)

AttackAfter(s, d) ==
  [s EXCEPT !.next[s.active] = d, !.next2[s.active] = d]

\* EnableIronsights and DisableIronsights "make sure we don't roll back the
\* attack times".
EnableIronsights(s) ==
  [s EXCEPT !.sighted = TRUE, !.unsight = SightsDelay,
            !.next[Gun] = Later(@, SightsDelay),
            !.next2[Gun] = Later(@, SightsDelay)]

DisableIronsights(s) ==
  IF ~s.sighted THEN s
  ELSE [s EXCEPT !.sighted = FALSE,
                 !.next[Gun] = Later(@, 0),
                 !.next2[Gun] = Later(@, 0)]

HasAnyAmmo(s, w) == w = Gun => s.clip > 0 \/ s.ammo > 0

\* A gun that is taken out is neither sighted nor in a reload, whatever it was.
Deploy(s, w) ==
  [s EXCEPT !.active = w, !.busy = DrawTime,
            !.next[w] = DrawTime, !.next2[w] = DrawTime,
            !.inReload = IF w = Gun THEN FALSE ELSE @]

\* Mutant of Holster: a reload that is given up costs nothing.
HolsterForFree(s) ==
  LET down == DisableIronsights(
                [s EXCEPT !.holster[s.active] = HolsterTime])
  IN IF down.active = Gun THEN [down EXCEPT !.inReload = FALSE] ELSE down

\* Putting the weapon in hand away.  A reload that can be aborted costs its ball;
\* one that cannot refuses, after the sights and the holster time have changed.
Holster(s) ==
  LET down == DisableIronsights(
                [s EXCEPT !.holster[s.active] = HolsterTime])
  IN IF down.active = Gun /\ down.inReload /\ ~kit.steady
     THEN [down EXCEPT !.inReload = FALSE, !.ammo = Later(@ - 1, 0)]
     ELSE down

Refuses(s) == s.active = Gun /\ s.inReload /\ kit.steady

\* Weapon_Switch to the other weapon.
Switch(s, w) ==
  IF s.holster[s.active] > 0 \/ ~HasAnyAmmo(s, w) THEN s
  ELSE IF Refuses(s) THEN Holster(s)
  ELSE Deploy(Holster(s), w)

\* Mutant of Reload: the duration is asked for before the animation is started.
ReloadShortly(s) ==
  IF s.pending \/ s.ammo = 0 \/ under \/ s.clip = 1 THEN s
  ELSE DisableIronsights(
         [AttackAfter(s, DrawTime) EXCEPT !.inReload = TRUE, !.busy = DrawTime])

\* A gun that has still to fire, no balls, water and a full clip refuse.
Reload(s) ==
  IF s.pending \/ s.ammo = 0 \/ under \/ s.clip = 1 THEN s
  ELSE DisableIronsights(
         [AttackAfter(s, ReloadTime) EXCEPT !.inReload = TRUE, !.busy = ReloadTime])

\* Mutant of CheckReload: the reload goes on.
CheckReloadForever(s) ==
  IF ~(s.active = Gun /\ s.inReload /\ s.next[Gun] <= 0) THEN s
  ELSE LET primary == Sooner(1 - s.clip, s.ammo)
       IN [AttackAfter(s, 0) EXCEPT !.clip = @ + primary, !.ammo = @ - primary]

\* CheckReload and FinishReload, for a weapon that does not reload singly.
CheckReload(s) ==
  IF ~(s.active = Gun /\ s.inReload /\ s.next[Gun] <= 0) THEN s
  ELSE LET primary == Sooner(1 - s.clip, s.ammo)
       IN [AttackAfter(s, 0) EXCEPT !.inReload = FALSE,
                                    !.clip = @ + primary, !.ammo = @ - primary]

\* With no ammunition at all the blade may come out; nothing reloads by itself
\* (m_bDontAutoreload).
ReloadOrSwitchWeapons(s) ==
  LET calm == [s EXCEPT !.clicked = FALSE]
      out  == IF /\ kit.blade /\ kit.leaves /\ ~HasAnyAmmo(s, s.active)
                 /\ s.next[Gun] < 0 /\ s.next2[Gun] < 0
              THEN Switch(calm, Blade) ELSE calm
  IN IF out.active = s.active THEN out
     ELSE [out EXCEPT !.next[Gun] = EmptyPause]

-----------------------------------------------------------------------------
(* Attacks.                                                                *)

\* GetAttackType
Firearm(w, a) == w = Gun /\ a = "primary"
Melee(w, a)   == (w = Blade /\ a = "primary") \/ (w = Gun /\ a = "secondary" /\ kit.bayonet)

\* Mutant of Fire: the second attack is not held up.
FireThenStab(s) ==
  IF under THEN AttackAfter(s, WetPause)
  ELSE [s EXCEPT
          !.next[Gun] = AttackRate,
          !.clip = @ - 1, !.holster[Gun] = HolsterLock,
          !.pending = TRUE, !.fire = FlintlockDelay]

\* Fire: the ball leaves the clip at the trigger and the barrel later.
Fire(s) ==
  IF under THEN AttackAfter(s, WetPause)
  ELSE [AttackAfter(s, AttackRate) EXCEPT
          !.clip = @ - 1, !.holster[Gun] = HolsterLock,
          !.pending = TRUE, !.fire = FlintlockDelay]

\* The first try of a swing; it is tried again for a while unless it hits.
Swing(s, hit) ==
  [AttackAfter(s, AttackRate) EXCEPT
     !.swing[s.active] = IF hit THEN 0 ELSE RetraceTime]

DoAttack(s, a, in) ==
  LET t == [s EXCEPT !.last[s.active] = a]
  IN IF "reload" \in in.buttons \/ (s.active = Gun /\ s.inReload) THEN s
     ELSE IF Melee(s.active, a) /\ ~in.duck THEN Swing(t, in.hit)
     ELSE IF Firearm(s.active, a) THEN Fire(t)
     ELSE t

SecondaryAttack(s, in) == IF s.sighted THEN s ELSE DoAttack(s, "secondary", in)

\* A try with an empty gun clicks; the next one may take out the blade
\* (HandleFireOnEmpty).
PrimaryAttack(s, in) ==
  IF s.active = Gun /\ s.clip = 0
  THEN IF s.clicked THEN ReloadOrSwitchWeapons(s) ELSE [s EXCEPT !.clicked = TRUE]
  ELSE DoAttack(s, "primary", in)

-----------------------------------------------------------------------------
(* ItemPostFrame of the weapon in hand, first BG2's and then the base      *)
(* class's, with what the player presses and what his weapon meets.        *)

Inputs == [buttons : SUBSET Buttons, duck : BOOLEAN, hit : BOOLEAN]

\* A swing goes on until it hits something or its man turns too fast.
Retrace(s, in) ==
  IF s.swing[s.active] > 0 /\ in.hit THEN [s EXCEPT !.swing[s.active] = 0]
  ELSE s

DelayedFire(s) ==
  IF s.active = Gun /\ s.pending /\ s.fire <= 0 THEN [s EXCEPT !.pending = FALSE] ELSE s

Attack(s, in) ==
  IF "attack2" \in in.buttons /\ s.next2[s.active] <= 0 THEN SecondaryAttack(s, in)
  ELSE IF "attack" \in in.buttons /\ s.next[s.active] <= 0 THEN PrimaryAttack(s, in)
  ELSE s

ReloadPressed(s, in) ==
  IF "reload" \in in.buttons /\ s.active = Gun /\ ~s.inReload THEN Reload(s) ELSE s

Sights(s, in) ==
  IF ~(s.active = Gun /\ kit.sights /\ ~s.inReload) THEN s
  ELSE IF "zoom" \in in.buttons
       THEN IF ~s.sighted /\ s.next[Gun] < 0 /\ s.next2[Gun] < 0
            THEN EnableIronsights(s) ELSE s
       ELSE IF s.unsight < 0 THEN DisableIronsights(s) ELSE s

Released(s, in) ==
  IF in.buttons \cap {"attack", "attack2", "reload"} = {}
  THEN ReloadOrSwitchWeapons(s) ELSE s

\* Under water a second attack ends the frame (m_bAltFiresUnderwater).
ItemPostFrame(s, in) ==
  LET r == CheckReload(DelayedFire(Retrace(s, in)))
  IN IF under /\ "attack2" \in in.buttons /\ r.next2[r.active] <= 0
     THEN [r EXCEPT !.next[r.active] = WetPause]
     ELSE Released(Sights(ReloadPressed(Attack(r, in), in), in), in)

-----------------------------------------------------------------------------
(* The soldier.                                                            *)

Init ==
  /\ kit \in Kits
  /\ man = [active |-> Gun, ammo |-> Balls, clip |-> 1, inReload |-> FALSE,
            pending |-> FALSE, fire |-> -1, clicked |-> FALSE, sighted |-> FALSE,
            unsight |-> -1, busy |-> DrawTime,
            next |-> [w \in Weapons |-> IF w = Gun THEN DrawTime ELSE -1],
            next2 |-> [w \in Weapons |-> IF w = Gun THEN DrawTime ELSE -1],
            holster |-> [w \in Weapons |-> -1], swing |-> [w \in Weapons |-> -1],
            last |-> [w \in Weapons |-> "primary"]]
  /\ under = FALSE
  /\ since = Shortest

Shot == man'.pending /\ ~man.pending

\* A command of the client, unless its player is busy with his weapon
\* (CBasePlayer::ItemPostFrame).
Frame ==
  /\ man.busy <= 0
  /\ \E in \in Inputs : man' = ItemPostFrame(man, in)
  /\ since' = IF Shot THEN 0 ELSE since
  /\ UNCHANGED <<kit, under>>

\* The weapon that a command selects, before the frame of that command and
\* whether the player is busy or not (CPlayerMove::RunCommand).
SelectItem ==
  /\ kit.blade
  /\ \E w \in Weapons \ {man.active} : man' = Switch(man, w)
  /\ UNCHANGED <<kit, under, since>>

\* The head goes under water or comes out of it (SetPlayerUnderwater).
Wade ==
  /\ under' = ~under
  /\ man' = IF man.active = Gun THEN [man EXCEPT !.clip = 0] ELSE man
  /\ UNCHANGED <<kit, since>>

Elapse(t) == IF t < 0 THEN t ELSE t - 1

Tick ==
  /\ man' = [man EXCEPT !.fire = Elapse(@), !.unsight = Elapse(@), !.busy = Elapse(@),
                        !.next = [w \in Weapons |-> Elapse(@[w])],
                        !.next2 = [w \in Weapons |-> Elapse(@[w])],
                        !.holster = [w \in Weapons |-> Elapse(@[w])],
                        !.swing = [w \in Weapons |-> Elapse(@[w])]]
  /\ since' = Sooner(since + 1, Shortest)
  /\ UNCHANGED <<kit, under>>

Next == Frame \/ SelectItem \/ Wade \/ Tick

Spec == Init /\ [][Next]_vars

\* Time passes and the client sends commands.
FairSpec == Spec /\ WF_vars(Tick) /\ WF_vars(Frame)

-----------------------------------------------------------------------------
(* Properties.                                                             *)

\* What fires or strikes later is still what was begun: nothing between the
\* trigger and the bullet, or between the first and the last try of a swing,
\* has changed the attack that both are told by (m_iLastAttack, read by
\* FireBullets and by the retrace long after DoAttack set it).
RightAttack ==
  /\ man.pending => Firearm(Gun, man.last[Gun])
  /\ \A w \in Weapons : man.swing[w] > 0 => Melee(w, man.last[w])

\* The balls that a soldier still has to fire.
Stock(s) == s.ammo + s.clip + (IF s.pending THEN 1 ELSE 0)

Flew    == man.pending /\ ~man'.pending
Spoiled == under' # under
Spilled == man.inReload /\ man'.active # man.active

\* No ball comes from nowhere, and one goes only as the ball that flies, in the
\* water, or with a reload that the soldier gives up, whichever weapon he has
\* taken out and put away since he pulled the trigger (Fire, FinishReload,
\* Holster, m_bShouldFireDelayed).
NoFreeBalls ==
  [][Stock(man') = Stock(man) - (IF Flew THEN 1 ELSE 0)
                              - (IF Spoiled /\ man'.clip # man.clip THEN 1 ELSE 0)
                              - (IF Spilled THEN 1 ELSE 0)]_vars

\* Between two shots of a gun there is a whole reload and the delay of its
\* lock, whatever the soldier does with his weapons in between ("Keep people
\* from switching weapons right after shooting").
SlowToLoad == [][Shot => since = Shortest]_vars

\* A reload ends, and a shot whose trigger was pulled is fired or put away with
\* its gun.
NothingHangs ==
  /\ man.inReload ~> ~man.inReload
  /\ man.pending /\ man.active = Gun ~> ~man.pending \/ man.active = Blade
=============================================================================
