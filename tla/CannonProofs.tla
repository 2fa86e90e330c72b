---------------------------- MODULE CannonProofs ----------------------------
(***************************************************************************)
(* Proofs about Cannon: for any number of clients, maps and times, the     *)
(* members keep their types (TypeCorrect), whoever is taken off the gun    *)
(* has his weapon back (CrewArmed), a cannon fires no faster than its      *)
(* rate, whoever serves it (RateKept), and nobody whose commands keep      *)
(* coming hangs on to it (NobodyHangsOnForLong).                           *)
(*                                                                         *)
(* Every method is an operator on the cannon's record, so each has a lemma *)
(* of its own: the record it returns is well typed and keeps Crew.  The    *)
(* rate needs an invariant on the clock: what has passed since the last    *)
(* shot and what is left of m_flNextAttack together are an interval, but   *)
(* after the last ball of a stock.                                         *)
(***************************************************************************)
EXTENDS Cannon, TLAPS

Served(s, cl) ==
  s.controller # Nobody => s.controller \in cl /\ s.controller \in s.using

Armed(s, al) ==
  \A p \in Players :
    /\ al[p] /\ s.arms[p] = Down => s.controller = p \/ s.dry[p]
    /\ al[p] => s.arms[p] # None

Crew(s, al, cl) == Served(s, cl) /\ Armed(s, al)

Paced(s, n) == s.ammo # 0 => n + s.wait >= FireInterval

IInv ==
  /\ TypeOK
  /\ \A p \in Players : alive[p] => p \in client
  /\ Crew(cannon, alive, client)
  /\ Paced(cannon, since)

Typed(s) == alive \in [Players -> BOOLEAN] /\ s \in CannonRecord

\* The members that only the controls change are as they were.
SameGun(s, t) ==
  /\ t.dry = s.dry /\ t.trigger = s.trigger
  /\ t.ammo = s.ammo /\ t.wait = s.wait /\ t.fired = s.fired

LEMMA PlayersAreNumbers == Nobody \notin Players
  BY CannonAssumption DEF Nobody, Players

-----------------------------------------------------------------------------
(* The methods.                                                            *)

\* Deploy changes one weapon, and only by bringing it up.
LEMMA DeployFacts ==
  ASSUME NEW s, NEW p \in Players, Typed(s)
  PROVE  LET t == Deploy(s, p)
         IN /\ t \in CannonRecord
            /\ t.controller = s.controller /\ t.using = s.using /\ SameGun(s, t)
            /\ \A q \in Players : q # p => t.arms[q] = s.arms[q]
            /\ alive[p] /\ ~s.dry[p] => t.arms[p] # Down
            /\ t.arms[p] \in {s.arms[p], Up}
<1> DEFINE t == Deploy(s, p)
           arms == [s.arms EXCEPT ![p] = Up]
<1>1. arms \in [Players -> {Up, Down, None}] /\ arms[p] = Up
      /\ \A q \in Players : q # p => arms[q] = s.arms[q]
  BY DEF Typed, CannonRecord
<1>2. CASE alive[p] /\ s.arms[p] # None /\ ~s.dry[p]
  <2>1. t = [s EXCEPT !.arms = arms]
    BY <1>2 DEF Deploy, Typed, CannonRecord
  <2> HIDE DEF t, arms
  <2>2. t \in CannonRecord /\ t.arms = arms /\ t.controller = s.controller
        /\ t.using = s.using /\ SameGun(s, t)
    BY <2>1, <1>1 DEF Typed, CannonRecord, SameGun
  <2> QED
    BY <2>2, <1>1 DEF t, Up, Down
<1>3. CASE ~(alive[p] /\ s.arms[p] # None /\ ~s.dry[p])
  <2>1. t = s
    BY <1>3 DEF Deploy
  <2> QED
    BY <2>1, <1>3 DEF Typed, SameGun, None, Down
<1> QED
  BY <1>2, <1>3

\* StopControl leaves nobody in control, and the gunner armed.
LEMMA StopControlFacts ==
  ASSUME NEW s, NEW cl, Typed(s), Crew(s, alive, cl)
  PROVE  LET t == StopControl(s)
         IN /\ t \in CannonRecord /\ t.controller = Nobody /\ t.using = s.using
            /\ SameGun(s, t) /\ Crew(t, alive, cl)
<1> DEFINE t == StopControl(s)
<1>1. CASE s.controller = Nobody
  BY <1>1 DEF StopControl, Typed, SameGun
<1>2. CASE s.controller # Nobody
  <2> DEFINE c == s.controller
             d == Deploy(s, c)
  <2>1. c \in Players
    BY <1>2 DEF Typed, CannonRecord
  <2>2. /\ d \in CannonRecord
        /\ d.controller = s.controller /\ d.using = s.using /\ SameGun(s, d)
        /\ \A q \in Players : q # c => d.arms[q] = s.arms[q]
        /\ alive[c] /\ ~s.dry[c] => d.arms[c] # Down
        /\ d.arms[c] \in {s.arms[c], Up}
    BY <2>1, DeployFacts
  <2>3. t = [d EXCEPT !.controller = Nobody]
    BY <1>2 DEF StopControl
  <2> HIDE DEF t, d, c
  <2>4. /\ t \in CannonRecord /\ t.controller = Nobody /\ t.using = d.using
        /\ t.arms = d.arms /\ SameGun(d, t)
    BY <2>2, <2>3 DEF CannonRecord, SameGun
  <2>5. SameGun(s, t)
    BY <2>2, <2>4 DEF SameGun
  <2>6. Armed(t, alive)
    <3> SUFFICES ASSUME NEW p \in Players, alive[p]
                 PROVE  (t.arms[p] = Down => t.dry[p]) /\ t.arms[p] # None
      BY DEF Armed
    <3>1. /\ s.arms[p] # None
          /\ s.arms[p] = Down => s.controller = p \/ s.dry[p]
      BY DEF Crew, Armed
    <3>2. CASE p = c
      BY <3>1, <3>2, <2>2, <2>4, <2>5 DEF SameGun, Up, None
    <3>3. CASE p # c
      <4>1. t.arms[p] = s.arms[p]
        BY <3>3, <2>2, <2>4
      <4> QED
        BY <4>1, <3>1, <3>3, <2>5 DEF SameGun, c
    <3> QED
      BY <3>2, <3>3
  <2> QED
    BY <2>2, <2>4, <2>5, <2>6 DEF Crew, Served, t
<1> QED
  BY <1>1, <1>2

LEMMA ClearUseEntityFacts ==
  ASSUME NEW s, NEW cl, NEW p \in Players, Typed(s), Crew(s, alive, cl)
  PROVE  LET t == ClearUseEntity(s, p)
         IN /\ t \in CannonRecord /\ SameGun(s, t) /\ Crew(t, alive, cl)
            /\ t.controller # p /\ p \notin t.using
            /\ t.controller \in {s.controller, Nobody}
<1> DEFINE t == ClearUseEntity(s, p)
           d == StopControl(s)
<1>1. CASE p \in s.using
  <2>1. /\ d \in CannonRecord /\ d.controller = Nobody /\ d.using = s.using
        /\ SameGun(s, d) /\ Crew(d, alive, cl)
    BY StopControlFacts
  <2>2. t = [d EXCEPT !.using = @ \ {p}]
    BY <1>1 DEF ClearUseEntity
  <2> HIDE DEF t, d
  <2>3. /\ t \in CannonRecord /\ t.controller = Nobody /\ t.arms = d.arms
        /\ SameGun(d, t) /\ t.using = d.using \ {p}
    BY <2>1, <2>2 DEF CannonRecord, SameGun
  <2>4. SameGun(s, t)
    BY <2>1, <2>3 DEF SameGun
  <2>5. Crew(t, alive, cl)
    BY <2>1, <2>3 DEF Crew, Served, Armed, SameGun
  <2> QED
    BY <2>3, <2>4, <2>5, PlayersAreNumbers DEF t
<1>2. CASE p \notin s.using
  <2>1. t = s
    BY <1>2 DEF ClearUseEntity
  <2>2. s.controller # p
    BY <1>2, PlayersAreNumbers DEF Crew, Served
  <2> QED
    BY <2>1, <2>2, <1>2 DEF Typed, SameGun
<1> QED
  BY <1>1, <1>2

LEMMA StartControlFacts ==
  ASSUME NEW s, NEW cl, NEW p \in Players, NEW in \in Inputs, p \in cl,
         Typed(s), Crew(s, alive, cl), p \in s.using
  PROVE  LET t == StartControl(s, p, in)
         IN t \in CannonRecord /\ SameGun(s, t) /\ Crew(t, alive, cl)
<1> DEFINE t == StartControl(s, p, in)
<1>1. CASE s.controller # Nobody \/ in.use = "barred"
  BY <1>1 DEF StartControl, Typed, SameGun
<1>2. CASE ~(s.controller # Nobody \/ in.use = "barred")
  <2> DEFINE hand == IF s.arms[p] = Up /\ ~in.locked THEN Down ELSE s.arms[p]
             arms == [s.arms EXCEPT ![p] = hand]
  <2>1. arms \in [Players -> {Up, Down, None}]
        /\ \A q \in Players : q # p => arms[q] = s.arms[q]
    BY DEF Typed, CannonRecord
  <2>5. s.arms[p] # None => arms[p] # None
    BY DEF Typed, CannonRecord, Down, None
  <2>2. t = [s EXCEPT !.controller = p, !.arms = arms]
    BY <1>2 DEF StartControl, Typed, CannonRecord
  <2> HIDE DEF t, arms
  <2>3. /\ t \in CannonRecord /\ t.controller = p /\ t.using = s.using
        /\ t.arms = arms /\ SameGun(s, t)
    BY <2>1, <2>2 DEF Typed, CannonRecord, SameGun
  <2>4. Armed(t, alive)
    BY <1>2, <2>1, <2>3, <2>5, PlayersAreNumbers DEF Crew, Armed, SameGun
  <2> QED
    BY <2>3, <2>4 DEF Crew, Served, t
<1> QED
  BY <1>1, <1>2

LEMMA UseFacts ==
  ASSUME NEW s, NEW cl, NEW p \in Players, NEW in \in Inputs, p \in cl,
         Typed(s), Crew(s, alive, cl)
  PROVE  LET t == Use(s, p, in)
         IN t \in CannonRecord /\ SameGun(s, t) /\ Crew(t, alive, cl)
<1>1. CASE s.controller = p
  BY <1>1, StopControlFacts DEF Use
<1>2. CASE s.controller # p
  <2> DEFINE d == [s EXCEPT !.using = @ \cup {p}]
  <2>1. /\ d \in CannonRecord /\ d.controller = s.controller /\ d.arms = s.arms
        /\ d.using = s.using \cup {p} /\ SameGun(s, d)
    BY DEF Typed, CannonRecord, SameGun
  <2>2. Use(s, p, in) = StartControl(d, p, in)
    BY <1>2 DEF Use
  <2> HIDE DEF d
  <2>3. Crew(d, alive, cl) /\ p \in d.using
    BY <2>1 DEF Crew, Served, Armed, SameGun
  <2>4. Typed(d)
    BY <2>1 DEF Typed
  <2>5. LET t == StartControl(d, p, in)
        IN t \in CannonRecord /\ SameGun(d, t) /\ Crew(t, alive, cl)
    BY <2>3, <2>4, StartControlFacts
  <2> QED
    BY <2>1, <2>2, <2>5 DEF SameGun
<1> QED
  BY <1>1, <1>2

LEMMA PlayerUseFacts ==
  ASSUME NEW s, NEW cl, NEW p \in Players, NEW in \in Inputs, p \in cl,
         Typed(s), Crew(s, alive, cl)
  PROVE  LET t == PlayerUse(s, p, in)
         IN t \in CannonRecord /\ SameGun(s, t) /\ Crew(t, alive, cl)
<1>1. CASE in.use = "no" \/ (p \notin s.using /\ in.use = "away")
  BY <1>1 DEF PlayerUse, Typed, SameGun
<1>2. CASE in.use # "no" /\ p \in s.using
  BY <1>2, ClearUseEntityFacts DEF PlayerUse
<1>3. CASE in.use # "no" /\ p \notin s.using /\ in.use # "away"
  BY <1>3, UseFacts DEF PlayerUse
<1> QED
  BY <1>1, <1>2, <1>3

\* What the controls do to the clock: a shot is fired only when the wait is over,
\* and starts a new one unless it was the last.
Shot(s, t) ==
  IF t.fired /\ ~s.fired
  THEN s.wait = 0 /\ (t.ammo = 0 \/ t.wait = FireInterval)
  ELSE t.ammo = s.ammo /\ t.wait = s.wait /\ t.fired = s.fired

LEMMA ControllerPostFrameFacts ==
  ASSUME NEW s, NEW cl, Typed(s), Crew(s, alive, cl), ~s.fired
  PROVE  LET t == ControllerPostFrame(s)
         IN /\ t \in CannonRecord /\ Crew(t, alive, cl)
            /\ t.using = s.using /\ Shot(s, t)
<1> DEFINE t == ControllerPostFrame(s)
           quiet == s.wait > 0 \/ s.controller = Nobody \/ ~s.trigger[s.controller]
<1>1. CASE quiet
  BY <1>1 DEF ControllerPostFrame, Typed, Shot
<1>2. CASE ~quiet
  <2> DEFINE ammo == IF s.ammo > -1 THEN s.ammo - 1 ELSE s.ammo
             d == [s EXCEPT !.fired = TRUE, !.ammo = ammo]
  <2>1. s.wait = 0
    BY <1>2 DEF Typed, CannonRecord
  <2>2. ammo \in Nat \cup {-1}
    BY DEF Typed, CannonRecord
  <2>3. d = [s EXCEPT !.fired = TRUE, !.ammo = IF @ > -1 THEN @ - 1 ELSE @]
    BY DEF Typed, CannonRecord
  <2>4. t = IF s.ammo = 1 THEN StopControl(d) ELSE [d EXCEPT !.wait = FireInterval]
    BY <1>2, <2>3 DEF ControllerPostFrame
  <2>5. s.ammo = 1 => ammo = 0
    OBVIOUS
  <2> HIDE DEF ammo
  <2>6. /\ d \in CannonRecord /\ d.fired = TRUE /\ d.ammo = ammo /\ d.wait = s.wait
        /\ d.controller = s.controller /\ d.using = s.using /\ d.arms = s.arms
        /\ d.dry = s.dry
    BY <2>2 DEF Typed, CannonRecord
  <2> HIDE DEF d
  <2>7. Typed(d) /\ Crew(d, alive, cl)
    BY <2>6 DEF Typed, Crew, Served, Armed
  <2>8. CASE s.ammo = 1
    <3>1. LET e == StopControl(d)
          IN /\ e \in CannonRecord /\ e.using = d.using /\ SameGun(d, e)
             /\ Crew(e, alive, cl)
      BY <2>7, StopControlFacts
    <3> QED
      BY <2>1, <2>4, <2>5, <2>6, <2>8, <3>1 DEF SameGun, Shot
  <2>9. CASE s.ammo # 1
    <3>1. t = [d EXCEPT !.wait = FireInterval]
      BY <2>4, <2>9
    <3> HIDE DEF t
    <3>2. /\ t \in CannonRecord /\ t.wait = FireInterval /\ t.fired = d.fired
          /\ t.controller = d.controller /\ t.using = d.using /\ t.arms = d.arms
          /\ t.dry = d.dry
      BY <3>1, <2>6, CannonAssumption DEF CannonRecord
    <3>3. Crew(t, alive, cl)
      BY <3>2, <2>7 DEF Crew, Served, Armed
    <3> QED
      BY <3>2, <3>3, <2>1, <2>6 DEF Shot, t
  <2> QED
    BY <2>8, <2>9
<1> QED
  BY <1>1, <1>2

LEMMA ControlsFacts ==
  ASSUME NEW s, NEW cl, NEW p \in Players, Typed(s), Crew(s, alive, cl), ~s.fired
  PROVE  LET t == Controls(s, p)
         IN t \in CannonRecord /\ Crew(t, alive, cl) /\ Shot(s, t)
<1>1. CASE ~(alive[p] /\ p \in s.using)
  BY <1>1 DEF Controls, Typed, Shot
<1>2. CASE alive[p] /\ p \in s.using /\ s.arms[p] = Up
  BY <1>2, ClearUseEntityFacts DEF Controls, SameGun, Shot
<1>3. CASE alive[p] /\ p \in s.using /\ s.arms[p] # Up
  BY <1>3, ControllerPostFrameFacts DEF Controls
<1> QED
  BY <1>1, <1>2, <1>3

LEMMA ItemPostFrameFacts ==
  ASSUME NEW s, NEW cl, NEW p \in Players, NEW in \in Inputs,
         Typed(s), Crew(s, alive, cl)
  PROVE  LET t == ItemPostFrame(s, p, in)
         IN /\ t \in CannonRecord /\ Crew(t, alive, cl)
            /\ t.ammo = s.ammo /\ t.wait = s.wait /\ t.fired = s.fired
<1> DEFINE t == ItemPostFrame(s, p, in)
           spends == alive[p] /\ p \notin s.using /\ s.arms[p] = Up /\ in.last
<1>1. CASE spends
  <2> DEFINE dry == [s.dry EXCEPT ![p] = TRUE]
  <2>1. dry \in [Players -> BOOLEAN]
        /\ \A q \in Players : s.dry[q] => dry[q]
    BY DEF Typed, CannonRecord
  <2>2. t = [s EXCEPT !.dry = dry]
    BY <1>1 DEF ItemPostFrame, Typed, CannonRecord
  <2> HIDE DEF t, dry
  <2>3. /\ t \in CannonRecord /\ t.dry = dry /\ t.controller = s.controller
        /\ t.using = s.using /\ t.arms = s.arms
        /\ t.ammo = s.ammo /\ t.wait = s.wait /\ t.fired = s.fired
    BY <2>1, <2>2 DEF Typed, CannonRecord
  <2> QED
    BY <2>1, <2>3 DEF Crew, Served, Armed, t
<1>2. CASE ~spends
  BY <1>2 DEF ItemPostFrame, Typed
<1> QED
  BY <1>1, <1>2

LEMMA SelectFacts ==
  ASSUME NEW s, NEW cl, NEW p \in Players, NEW in \in Inputs,
         Typed(s), Crew(s, alive, cl)
  PROVE  LET t == Select(s, p, in)
         IN /\ t \in CannonRecord /\ Crew(t, alive, cl)
            /\ t.ammo = s.ammo /\ t.wait = s.wait /\ t.fired = s.fired
<1> DEFINE t == Select(s, p, in)
<1>1. CASE alive[p] /\ in.select
  <2> DEFINE arms == [s.arms EXCEPT ![p] = Up]
             dry == [s.dry EXCEPT ![p] = FALSE]
  <2>1. /\ arms \in [Players -> {Up, Down, None}] /\ dry \in [Players -> BOOLEAN]
        /\ arms[p] \notin {Down, None}
        /\ \A q \in Players : q # p => arms[q] = s.arms[q] /\ dry[q] = s.dry[q]
    BY DEF Typed, CannonRecord, Up, Down, None
  <2>2. t = [s EXCEPT !.arms = arms, !.dry = dry]
    BY <1>1 DEF Select, Typed, CannonRecord
  <2> HIDE DEF t, arms, dry
  <2>3. /\ t \in CannonRecord /\ t.arms = arms /\ t.dry = dry
        /\ t.controller = s.controller /\ t.using = s.using
        /\ t.ammo = s.ammo /\ t.wait = s.wait /\ t.fired = s.fired
    BY <2>1, <2>2 DEF Typed, CannonRecord
  <2> QED
    BY <2>1, <2>3 DEF Crew, Served, Armed, t
<1>2. CASE ~(alive[p] /\ in.select)
  BY <1>2 DEF Select, Typed
<1> QED
  BY <1>1, <1>2

\* A whole command.
LEMMA RunCommandFacts ==
  ASSUME NEW s, NEW cl, NEW p \in Players, NEW in \in Inputs, p \in cl,
         Typed(s), Crew(s, alive, cl)
  PROVE  LET t == RunCommand(s, p, in)
         IN /\ t \in CannonRecord /\ Crew(t, alive, cl)
            /\ IF t.fired THEN s.wait = 0 /\ (t.ammo = 0 \/ t.wait = FireInterval)
               ELSE t.ammo = s.ammo /\ t.wait = s.wait
<1> DEFINE trigger == [s.trigger EXCEPT ![p] = in.attack]
           begun   == [s EXCEPT !.trigger = trigger, !.fired = FALSE]
           picked  == Select(begun, p, in)
           pressed == PlayerUse(picked, p, in)
           served  == Controls(pressed, p)
<1>1. RunCommand(s, p, in) = ItemPostFrame(served, p, in)
  BY DEF RunCommand, Typed, CannonRecord
<1>2. trigger \in [Players -> BOOLEAN]
  BY DEF Typed, CannonRecord, Inputs
<1> HIDE DEF trigger
<1>3. /\ begun \in CannonRecord /\ ~begun.fired
      /\ begun.ammo = s.ammo /\ begun.wait = s.wait
      /\ begun.controller = s.controller /\ begun.using = s.using
      /\ begun.arms = s.arms /\ begun.dry = s.dry
  BY <1>2 DEF Typed, CannonRecord
<1> HIDE DEF begun
<1>4. Typed(begun) /\ Crew(begun, alive, cl)
  BY <1>3 DEF Typed, Crew, Served, Armed
<1>5. /\ picked \in CannonRecord /\ Crew(picked, alive, cl)
      /\ picked.ammo = s.ammo /\ picked.wait = s.wait /\ ~picked.fired
  BY <1>3, <1>4, SelectFacts
<1> HIDE DEF picked
<1>6. /\ pressed \in CannonRecord /\ Crew(pressed, alive, cl)
      /\ pressed.ammo = s.ammo /\ pressed.wait = s.wait /\ ~pressed.fired
  BY <1>4, <1>5, PlayerUseFacts DEF Typed, SameGun
<1> HIDE DEF pressed
<1>7. served \in CannonRecord /\ Crew(served, alive, cl) /\ Shot(pressed, served)
  BY <1>4, <1>6, ControlsFacts DEF Typed
<1> HIDE DEF served
<1>8. LET t == ItemPostFrame(served, p, in)
      IN /\ t \in CannonRecord /\ Crew(t, alive, cl)
         /\ t.ammo = served.ammo /\ t.wait = served.wait /\ t.fired = served.fired
  BY <1>4, <1>7, ItemPostFrameFacts DEF Typed
<1> QED
  BY <1>1, <1>6, <1>7, <1>8 DEF Shot

-----------------------------------------------------------------------------
(* The actions.                                                            *)

LEMMA CalmFacts ==
  ASSUME NEW s \in CannonRecord
  PROVE  LET t == Calm(s)
         IN /\ t \in CannonRecord /\ ~t.fired
            /\ t.controller = s.controller /\ t.using = s.using
            /\ t.arms = s.arms /\ t.dry = s.dry /\ t.trigger = s.trigger
            /\ t.ammo = s.ammo /\ t.wait = s.wait
  BY DEF Calm, CannonRecord

\* Those who spawn have a weapon in sight.
LEMMA SpawnedFacts ==
  ASSUME NEW s \in CannonRecord, NEW who \in SUBSET Players
  PROVE  LET t == Spawned(s, who)
         IN /\ t \in CannonRecord
            /\ t.controller = s.controller /\ t.using = s.using
            /\ t.ammo = s.ammo /\ t.wait = s.wait /\ t.fired = s.fired
            /\ \A p \in who : t.arms[p] \notin {Down, None}
            /\ \A p \in Players \ who : t.arms[p] = s.arms[p] /\ t.dry[p] = s.dry[p]
<1> DEFINE arms == [p \in Players |-> IF p \in who THEN Up ELSE s.arms[p]]
           dry == [p \in Players |-> s.dry[p] /\ p \notin who]
           t == Spawned(s, who)
<1>1. arms \in [Players -> {Up, Down, None}]
  BY DEF CannonRecord
<1>2. dry \in [Players -> BOOLEAN]
  OBVIOUS
<1>3. \A p \in who : arms[p] \notin {Down, None}
  BY DEF Up, Down, None
<1>4. \A p \in Players \ who : arms[p] = s.arms[p] /\ dry[p] = s.dry[p]
  <2>1. s.dry \in [Players -> BOOLEAN]
    BY DEF CannonRecord
  <2> QED
    BY <2>1
<1>5. t = [s EXCEPT !.arms = arms, !.dry = dry]
  BY DEF Spawned, CannonRecord
<1> HIDE DEF arms, dry, t
<1>6. /\ t \in CannonRecord /\ t.arms = arms /\ t.dry = dry
      /\ t.controller = s.controller /\ t.using = s.using
      /\ t.ammo = s.ammo /\ t.wait = s.wait /\ t.fired = s.fired
  BY <1>1, <1>2, <1>5 DEF CannonRecord
<1> QED
  BY <1>3, <1>4, <1>6 DEF t

\* The invariant of the next state, part by part.
LEMMA NextState ==
  ASSUME client' \subseteq Players, alive' \in [Players -> BOOLEAN], map' \in Maps,
         cannon' \in CannonRecord, since' \in 0 .. FireInterval,
         \A p \in Players : alive'[p] => p \in client',
         Crew(cannon', alive', client'), Paced(cannon', since')
  PROVE  IInv'
  BY DEF IInv, TypeOK, CannonRecord, Players, Crew, Served, Armed, Paced

LEMMA InitOK == Init => IInv
<1> SUFFICES ASSUME Init PROVE IInv
  OBVIOUS
<1>1. map.ammo_count \in Nat \cup {-1}
  BY CannonAssumption DEF Init, MapRecord
<1>2. cannon \in CannonRecord
  BY <1>1, PlayersAreNumbers DEF Init, CannonRecord
<1>3. TypeOK
  BY <1>2, CannonAssumption DEF Init, TypeOK
<1>4. Crew(cannon, alive, client)
  BY DEF Init, Crew, Served, Armed
<1>5. Paced(cannon, since)
  BY CannonAssumption DEF Init, Paced
<1> QED
  BY <1>3, <1>4, <1>5 DEF IInv, Init

LEMMA CommandOK ==
  ASSUME IInv, NEW p \in Players, NEW in \in Inputs, Command(p, in)
  PROVE  IInv' /\ (cannon'.fired => since = FireInterval \/ cannon.ammo = 0)
<1>1. Typed(cannon) /\ Crew(cannon, alive, client) /\ Paced(cannon, since)
  BY DEF IInv, TypeOK, Typed
<1>2. /\ cannon' \in CannonRecord /\ Crew(cannon', alive, client)
      /\ IF cannon'.fired
         THEN cannon.wait = 0 /\ (cannon'.ammo = 0 \/ cannon'.wait = FireInterval)
         ELSE cannon'.ammo = cannon.ammo /\ cannon'.wait = cannon.wait
  BY <1>1, RunCommandFacts DEF Command
<1>3. since \in 0 .. FireInterval /\ FireInterval \in Nat
  BY CannonAssumption DEF IInv, TypeOK
<1>4. since' \in 0 .. FireInterval
  BY <1>3 DEF Command
<1>5. Paced(cannon', since')
  BY <1>1, <1>2, <1>3 DEF Command, Paced
<1>6. IInv'
  BY <1>2, <1>4, <1>5, NextState DEF Command, IInv, TypeOK
<1>7. cannon'.fired => since = FireInterval \/ cannon.ammo = 0
  BY <1>1, <1>2, <1>3 DEF Paced
<1> QED
  BY <1>6, <1>7

LEMMA ClientConnectOK ==
  ASSUME IInv, NEW p \in Players, ClientConnect(p)
  PROVE  IInv' /\ ~cannon'.fired
<1>1. cannon' \in CannonRecord /\ ~cannon'.fired
      /\ cannon'.controller = cannon.controller /\ cannon'.using = cannon.using
      /\ cannon'.arms = cannon.arms /\ cannon'.dry = cannon.dry
      /\ cannon'.ammo = cannon.ammo /\ cannon'.wait = cannon.wait
  BY CalmFacts DEF ClientConnect, IInv, TypeOK
<1>2. Crew(cannon', alive', client') /\ Paced(cannon', since')
  BY <1>1 DEF ClientConnect, IInv, Crew, Served, Armed, Paced
<1> QED
  BY <1>1, <1>2, NextState DEF ClientConnect, IInv, TypeOK

LEMMA RespawnOK ==
  ASSUME IInv, NEW p \in Players, Respawn(p)
  PROVE  IInv' /\ ~cannon'.fired
<1> DEFINE s == Calm(cannon)
<1>1. /\ s \in CannonRecord /\ ~s.fired
      /\ s.controller = cannon.controller /\ s.using = cannon.using
      /\ s.arms = cannon.arms /\ s.dry = cannon.dry
      /\ s.ammo = cannon.ammo /\ s.wait = cannon.wait
  BY CalmFacts DEF IInv, TypeOK
<1>2. cannon' = Spawned(s, {p})
  BY DEF Respawn
<1> HIDE DEF s
<1>3. /\ cannon' \in CannonRecord
      /\ cannon'.controller = s.controller /\ cannon'.using = s.using
      /\ cannon'.ammo = s.ammo /\ cannon'.wait = s.wait /\ cannon'.fired = s.fired
      /\ \A q \in {p} : cannon'.arms[q] \notin {Down, None}
      /\ \A q \in Players \ {p} : cannon'.arms[q] = s.arms[q] /\ cannon'.dry[q] = s.dry[q]
  BY <1>1, <1>2, SpawnedFacts
<1>4. /\ alive' \in [Players -> BOOLEAN]
      /\ \A q \in Players \ {p} : alive'[q] = alive[q]
  BY DEF Respawn, IInv, TypeOK
<1>5. Armed(cannon', alive')
  BY <1>1, <1>3, <1>4 DEF Armed, IInv, Crew
<1>6. Served(cannon', client') /\ Paced(cannon', since')
  BY <1>1, <1>3 DEF Respawn, Served, Paced, IInv, Crew
<1>7. \A q \in Players : alive'[q] => q \in client'
  BY <1>4 DEF Respawn, IInv
<1> QED
  BY <1>1, <1>3, <1>4, <1>5, <1>6, <1>7, NextState DEF Respawn, IInv, TypeOK, Crew

\* A dead man keeps neither the controls nor the latch.
LEMMA EventKilledOK ==
  ASSUME IInv, NEW p \in Players, EventKilled(p)
  PROVE  IInv' /\ ~cannon'.fired
<1> DEFINE s == Calm(cannon)
           t == ClearUseEntity(s, p)
           arms == [t.arms EXCEPT ![p] = None]
           dry == [t.dry EXCEPT ![p] = FALSE]
<1>1. /\ s \in CannonRecord /\ ~s.fired
      /\ s.controller = cannon.controller /\ s.using = cannon.using
      /\ s.arms = cannon.arms /\ s.dry = cannon.dry
      /\ s.ammo = cannon.ammo /\ s.wait = cannon.wait
  BY CalmFacts DEF IInv, TypeOK
<1>2. cannon' = [t EXCEPT !.arms[p] = None, !.dry[p] = FALSE]
  BY DEF EventKilled
<1> HIDE DEF s
<1>3. Typed(s) /\ Crew(s, alive, client)
  BY <1>1 DEF IInv, TypeOK, Typed, Crew, Served, Armed
<1>4. /\ t \in CannonRecord /\ SameGun(s, t) /\ Crew(t, alive, client)
      /\ t.controller # p /\ p \notin t.using
  BY <1>3, ClearUseEntityFacts
<1> HIDE DEF t
<1>5. /\ arms \in [Players -> {Up, Down, None}] /\ dry \in [Players -> BOOLEAN]
      /\ \A q \in Players \ {p} : arms[q] = t.arms[q] /\ dry[q] = t.dry[q]
  BY <1>4 DEF CannonRecord
<1>6. cannon' = [t EXCEPT !.arms = arms, !.dry = dry]
  BY <1>2, <1>4 DEF CannonRecord
<1> HIDE DEF arms, dry
<1>7. /\ cannon' \in CannonRecord /\ cannon'.arms = arms /\ cannon'.dry = dry
      /\ cannon'.controller = t.controller /\ cannon'.using = t.using
      /\ cannon'.ammo = t.ammo /\ cannon'.wait = t.wait /\ cannon'.fired = t.fired
  BY <1>4, <1>5, <1>6 DEF CannonRecord
<1>8. /\ alive' \in [Players -> BOOLEAN] /\ ~alive'[p]
      /\ \A q \in Players \ {p} : alive'[q] = alive[q]
  BY DEF EventKilled, IInv, TypeOK
<1>9. Armed(cannon', alive')
  BY <1>4, <1>5, <1>7, <1>8 DEF Armed, Crew
<1>10. Served(cannon', client') /\ Paced(cannon', since')
  BY <1>1, <1>4, <1>7 DEF EventKilled, Served, Paced, IInv, Crew, SameGun
<1>11. \A q \in Players : alive'[q] => q \in client'
  BY <1>8 DEF EventKilled, IInv
<1>12. ~cannon'.fired
  BY <1>1, <1>4, <1>7 DEF SameGun
<1> QED
  BY <1>7, <1>8, <1>9, <1>10, <1>11, <1>12, NextState
     DEF EventKilled, IInv, TypeOK, Crew

LEMMA ClientDisconnectOK ==
  ASSUME IInv, NEW p \in Players, ClientDisconnect(p)
  PROVE  IInv' /\ ~cannon'.fired
<1> DEFINE s == Calm(cannon)
           c == IF s.controller = p THEN Nobody ELSE s.controller
           arms == [s.arms EXCEPT ![p] = None]
           dry == [s.dry EXCEPT ![p] = FALSE]
           trigger == [s.trigger EXCEPT ![p] = FALSE]
<1>1. /\ s \in CannonRecord /\ ~s.fired
      /\ s.controller = cannon.controller /\ s.using = cannon.using
      /\ s.arms = cannon.arms /\ s.dry = cannon.dry
      /\ s.ammo = cannon.ammo /\ s.wait = cannon.wait
  BY CalmFacts DEF IInv, TypeOK
<1>2. cannon' = [s EXCEPT !.controller = IF @ = p THEN Nobody ELSE @,
                          !.using = @ \ {p}, !.arms[p] = None,
                          !.dry[p] = FALSE, !.trigger[p] = FALSE]
  BY DEF ClientDisconnect
<1> HIDE DEF s
<1>3. /\ c \in Players \cup {Nobody}
      /\ arms \in [Players -> {Up, Down, None}] /\ dry \in [Players -> BOOLEAN]
      /\ trigger \in [Players -> BOOLEAN]
      /\ \A q \in Players \ {p} : arms[q] = s.arms[q] /\ dry[q] = s.dry[q]
  BY <1>1 DEF CannonRecord
<1>4. cannon' = [s EXCEPT !.controller = c, !.using = @ \ {p}, !.arms = arms,
                          !.dry = dry, !.trigger = trigger]
  BY <1>1, <1>2 DEF CannonRecord
<1>5. c # p /\ (c # Nobody => c = s.controller)
  BY PlayersAreNumbers
<1> HIDE DEF arms, dry, trigger, c
<1>6. /\ cannon' \in CannonRecord /\ cannon'.arms = arms /\ cannon'.dry = dry
      /\ cannon'.controller = c /\ cannon'.using = s.using \ {p}
      /\ cannon'.ammo = s.ammo /\ cannon'.wait = s.wait /\ cannon'.fired = s.fired
  BY <1>1, <1>3, <1>4 DEF CannonRecord
<1>7. /\ alive' \in [Players -> BOOLEAN] /\ ~alive'[p]
      /\ \A q \in Players \ {p} : alive'[q] = alive[q]
  BY DEF ClientDisconnect, IInv, TypeOK
<1>8. Armed(cannon', alive')
  <2> SUFFICES ASSUME NEW q \in Players, alive'[q]
               PROVE  /\ cannon'.arms[q] = Down => cannon'.controller = q \/ cannon'.dry[q]
                      /\ cannon'.arms[q] # None
    BY DEF Armed
  <2>1. q # p
    BY <1>7
  <2>2. cannon'.arms[q] = cannon.arms[q] /\ alive[q]
    BY <1>1, <1>3, <1>6, <1>7, <2>1
  <2>3. /\ cannon.arms[q] = Down => cannon.controller = q \/ cannon.dry[q]
        /\ cannon.arms[q] # None
    BY <2>2 DEF IInv, Crew, Armed
  <2> QED
    BY <1>1, <1>3, <1>6, <2>1, <2>2, <2>3 DEF c
<1>9. Served(cannon', client') /\ Paced(cannon', since')
  BY <1>1, <1>5, <1>6 DEF ClientDisconnect, Served, Paced, IInv, Crew
<1>10. \A q \in Players : alive'[q] => q \in client'
  BY <1>7 DEF ClientDisconnect, IInv
<1> QED
  BY <1>1, <1>6, <1>7, <1>8, <1>9, <1>10, NextState
     DEF ClientDisconnect, IInv, TypeOK, Crew

\* A new cannon has nobody at its controls and waits for nothing.
LEMMA RecreatedFacts ==
  ASSUME NEW s, NEW cl, Typed(s), Crew(s, alive, cl), map \in Maps
  PROVE  LET t == Recreated(s)
         IN /\ t \in CannonRecord /\ t.controller = Nobody /\ t.wait = 0
            /\ t.fired = s.fired
<1> DEFINE d == StopControl(s)
           t == Recreated(s)
<1>1. d \in CannonRecord /\ d.controller = Nobody /\ SameGun(s, d)
  BY StopControlFacts
<1>2. t = [d EXCEPT !.using = {}, !.ammo = map.ammo_count, !.wait = 0]
  BY DEF Recreated
<1>3. map.ammo_count \in Nat \cup {-1}
  BY CannonAssumption DEF MapRecord
<1> HIDE DEF d, t
<1>4. /\ t \in CannonRecord /\ t.controller = d.controller /\ t.wait = 0
      /\ t.fired = d.fired
  BY <1>1, <1>2, <1>3 DEF CannonRecord
<1> QED
  BY <1>1, <1>4 DEF SameGun, t

LEMMA RestartRoundOK ==
  ASSUME IInv, NEW fighters \in SUBSET client, RestartRound(fighters)
  PROVE  IInv' /\ ~cannon'.fired
<1> DEFINE s == Calm(cannon)
           t == IF map.kept THEN s ELSE Recreated(s)
<1>1. /\ s \in CannonRecord /\ ~s.fired
      /\ s.controller = cannon.controller /\ s.using = cannon.using
      /\ s.arms = cannon.arms /\ s.dry = cannon.dry
      /\ s.ammo = cannon.ammo /\ s.wait = cannon.wait
  BY CalmFacts DEF IInv, TypeOK
<1>2. cannon' = Spawned(t, fighters)
  BY DEF RestartRound
<1> HIDE DEF s
<1>3. Typed(s) /\ Crew(s, alive, client)
  BY <1>1 DEF IInv, TypeOK, Typed, Crew, Served, Armed
<1>4. /\ t \in CannonRecord /\ ~t.fired /\ Served(t, client) /\ Paced(t, since')
  <2>1. CASE map.kept
    BY <1>1, <1>3, <2>1 DEF RestartRound, Crew, Paced, IInv
  <2>2. CASE ~map.kept
    <3>1. LET d == Recreated(s)
          IN /\ d \in CannonRecord /\ d.controller = Nobody /\ d.wait = 0
             /\ d.fired = s.fired
      BY <1>3, RecreatedFacts DEF IInv, TypeOK
    <3>2. since' = FireInterval /\ FireInterval \in Nat
      BY <2>2, CannonAssumption DEF RestartRound
    <3> QED
      BY <1>1, <2>2, <3>1, <3>2 DEF Served, Paced
  <2> QED
    BY <2>1, <2>2
<1> HIDE DEF t
<1>5. fighters \in SUBSET Players
  BY DEF IInv, TypeOK
<1>6. /\ cannon' \in CannonRecord
      /\ cannon'.controller = t.controller /\ cannon'.using = t.using
      /\ cannon'.ammo = t.ammo /\ cannon'.wait = t.wait /\ cannon'.fired = t.fired
      /\ \A q \in fighters : cannon'.arms[q] \notin {Down, None}
  BY <1>2, <1>4, <1>5, SpawnedFacts
<1>7. /\ alive' \in [Players -> BOOLEAN]
      /\ \A q \in Players : alive'[q] => q \in fighters
  <2>1. alive' = [q \in Players |-> q \in fighters]
    BY DEF RestartRound
  <2>2. [q \in Players |-> q \in fighters] \in [Players -> BOOLEAN]
    OBVIOUS
  <2>3. \A q \in Players : [r \in Players |-> r \in fighters][q] => q \in fighters
    BY Zenon
  <2> QED
    BY <2>1, <2>2, <2>3, Zenon
<1>8. Armed(cannon', alive')
  BY <1>6, <1>7 DEF Armed
<1>9. Served(cannon', client') /\ Paced(cannon', since')
  BY <1>4, <1>6 DEF RestartRound, Served, Paced
<1>10. since' \in 0 .. FireInterval
  BY CannonAssumption DEF RestartRound, IInv, TypeOK
<1> QED
  BY <1>4, <1>6, <1>7, <1>8, <1>9, <1>10, NextState
     DEF RestartRound, IInv, TypeOK, Crew

\* The clock: a longer wait, or time that passes.
LEMMA ClockOK ==
  ASSUME IInv, AimAtTarget \/ Tick
  PROVE  IInv' /\ ~cannon'.fired
<1> DEFINE s == Calm(cannon)
           w == IF cannon.wait > 0 THEN cannon.wait - 1 ELSE cannon.wait
<1>1. /\ s \in CannonRecord /\ ~s.fired
      /\ s.controller = cannon.controller /\ s.using = cannon.using
      /\ s.arms = cannon.arms /\ s.dry = cannon.dry
      /\ s.ammo = cannon.ammo /\ s.wait = cannon.wait
  BY CalmFacts DEF IInv, TypeOK
<1>2. cannon.wait \in Nat /\ since \in 0 .. FireInterval /\ FireInterval \in Nat
      /\ SightDelay \in Nat
  BY CannonAssumption DEF IInv, TypeOK, CannonRecord
<1>3. CASE AimAtTarget
  <2>1. cannon' = [s EXCEPT !.wait = SightDelay]
    BY <1>3 DEF AimAtTarget
  <2> HIDE DEF s
  <2>2. /\ cannon' \in CannonRecord /\ ~cannon'.fired
        /\ cannon'.controller = cannon.controller /\ cannon'.using = cannon.using
        /\ cannon'.arms = cannon.arms /\ cannon'.dry = cannon.dry
        /\ cannon'.ammo = cannon.ammo /\ cannon'.wait = SightDelay
    BY <1>1, <1>2, <2>1 DEF CannonRecord
  <2>3. Paced(cannon', since')
    BY <1>2, <1>3, <2>2 DEF AimAtTarget, Paced, IInv
  <2>4. Crew(cannon', alive', client')
    BY <1>3, <2>2 DEF AimAtTarget, Crew, Served, Armed, IInv
  <2> QED
    BY <1>3, <2>2, <2>3, <2>4, NextState DEF AimAtTarget, IInv, TypeOK
<1>4. CASE Tick
  <2>1. cannon' = [s EXCEPT !.wait = w]
    BY <1>1, <1>4 DEF Tick
  <2>2. w \in Nat
    BY <1>2
  <2> HIDE DEF s
  <2>3. /\ cannon' \in CannonRecord /\ ~cannon'.fired
        /\ cannon'.controller = cannon.controller /\ cannon'.using = cannon.using
        /\ cannon'.arms = cannon.arms /\ cannon'.dry = cannon.dry
        /\ cannon'.ammo = cannon.ammo /\ cannon'.wait = w
    BY <1>1, <2>1, <2>2 DEF CannonRecord
  <2>4. since' \in 0 .. FireInterval /\ Paced(cannon', since')
    BY <1>2, <1>4, <2>3 DEF Tick, Paced, IInv
  <2>5. Crew(cannon', alive', client')
    BY <1>4, <2>3 DEF Tick, Crew, Served, Armed, IInv
  <2> QED
    BY <1>4, <2>3, <2>4, <2>5, NextState DEF Tick, IInv, TypeOK
<1> QED
  BY <1>3, <1>4

Step == cannon'.fired => since = FireInterval \/ cannon.ammo = 0

LEMMA NextOK ==
  ASSUME IInv, [Next]_vars
  PROVE  IInv' /\ [Step]_vars
<1>1. CASE UNCHANGED vars
  BY <1>1 DEF vars, IInv, TypeOK, CannonRecord, Players, Crew, Served, Armed, Paced
<1>2. ASSUME NEW p \in Players, AnyCommand(p)
      PROVE  IInv' /\ Step
  BY <1>2, CommandOK DEF AnyCommand, Step
<1>3. ASSUME NEW p \in Players, ClientConnect(p) \/ Respawn(p)
      PROVE  IInv' /\ Step
  BY <1>3, ClientConnectOK, RespawnOK DEF Step
<1>4. ASSUME NEW p \in Players, EventKilled(p) \/ ClientDisconnect(p)
      PROVE  IInv' /\ Step
  BY <1>4, EventKilledOK, ClientDisconnectOK DEF Step
<1>5. ASSUME NEW fighters \in SUBSET client, RestartRound(fighters)
      PROVE  IInv' /\ Step
  BY <1>5, RestartRoundOK DEF Step
<1>6. ASSUME AimAtTarget \/ Tick
      PROVE  IInv' /\ Step
  BY <1>6, ClockOK DEF Step
<1> QED
  BY <1>1, <1>2, <1>3, <1>4, <1>5, <1>6 DEF Next

-----------------------------------------------------------------------------
(* Letting go.                                                             *)

\* The other half of a command: a living man who is latched without being in
\* control, and has something to shoot with, is let go, whatever he presses.  His
\* weapon is in sight (Crew), so that the controls send him away if the use key
\* has not.
LEMMA CommandLetsGo ==
  ASSUME NEW s, NEW cl, NEW p \in Players, NEW in \in Inputs,
         Typed(s), Crew(s, alive, cl),
         alive[p], p \in s.using, s.controller # p, ~s.dry[p]
  PROVE  p \notin RunCommand(s, p, in).using
<1> DEFINE trigger == [s.trigger EXCEPT ![p] = in.attack]
           begun   == [s EXCEPT !.trigger = trigger, !.fired = FALSE]
           picked  == Select(begun, p, in)
           pressed == PlayerUse(picked, p, in)
           served  == Controls(pressed, p)
<1>1. RunCommand(s, p, in) = ItemPostFrame(served, p, in)
  BY DEF RunCommand, Typed, CannonRecord
<1>2. trigger \in [Players -> BOOLEAN]
  BY DEF Typed, CannonRecord, Inputs
<1> HIDE DEF trigger
<1>3. /\ begun \in CannonRecord
      /\ begun.controller = s.controller /\ begun.using = s.using
      /\ begun.arms = s.arms /\ begun.dry = s.dry
  BY <1>2 DEF Typed, CannonRecord
<1> HIDE DEF begun
<1>4. Typed(begun) /\ Crew(begun, alive, cl)
  BY <1>3 DEF Typed, Crew, Served, Armed
<1>5. picked \in CannonRecord /\ Crew(picked, alive, cl)
  BY <1>4, SelectFacts
<1>6. picked.using = s.using /\ picked.controller = s.controller /\ ~picked.dry[p]
  BY <1>3, <1>4 DEF Select, Typed, CannonRecord
<1> HIDE DEF picked
<1>7. Typed(picked)
  BY <1>4, <1>5 DEF Typed
<1>8. p \notin served.using
  <2>1. CASE in.use # "no"
    <3>1. p \notin pressed.using
      BY <1>5, <1>6, <1>7, <2>1, ClearUseEntityFacts DEF PlayerUse
    <3> QED
      BY <3>1 DEF Controls
  <2>2. CASE in.use = "no"
    <3>1. pressed = picked
      BY <2>2 DEF PlayerUse
    <3>2. picked.arms[p] = Up
      BY <1>5, <1>6, <1>7 DEF Crew, Armed, Typed, CannonRecord
    <3>3. served = ClearUseEntity(picked, p)
      BY <1>6, <3>1, <3>2 DEF Controls
    <3> QED
      BY <1>5, <1>7, <3>3, ClearUseEntityFacts
  <2> QED
    BY <2>1, <2>2
<1>9. ItemPostFrame(served, p, in).using = served.using
      \/ ItemPostFrame(served, p, in) = served
  BY DEF ItemPostFrame
<1> QED
  BY <1>1, <1>8, <1>9

\* The commands of p keep coming while he is connected.  It is the weak fairness
\* of his commands with its ENABLED spelt out: a connected player can always send
\* a command that changes something, if only his attack button.
CommandsKeepComing(p) == []<>(p \notin client) \/ []<><<AnyCommand(p)>>_vars

LEMMA AnyCommandLetsGo ==
  ASSUME IInv, NEW p \in Players, HangsOn(p), AnyCommand(p)
  PROVE  ~HangsOn(p)'
<1> PICK in \in Inputs : Command(p, in)
  BY DEF AnyCommand
<1>1. p \notin RunCommand(cannon, p, in).using
  BY CommandLetsGo DEF IInv, TypeOK, Typed, HangsOn
<1> QED
  BY <1>1 DEF Command, HangsOn

-----------------------------------------------------------------------------
(* The theorems.                                                           *)

LEMMA Invariance == Spec => []IInv
<1>1. IInv /\ [Next]_vars => IInv'
  BY NextOK
<1> QED
  BY InitOK, <1>1, PTL DEF Spec

\* The members keep their types.
THEOREM TypeCorrect == Spec => []TypeOK
<1>1. IInv => TypeOK
  BY DEF IInv
<1> QED
  BY Invariance, <1>1, PTL

\* Whoever is taken off the gun, by whatever way and by whoever, has his weapon
\* back, and whoever serves it can be taken off it.
THEOREM CrewArmed == Spec => []CrewIsArmed
<1>1. IInv => CrewIsArmed
  BY DEF IInv, Crew, Served, Armed, CrewIsArmed
<1> QED
  BY Invariance, <1>1, PTL

\* The cannon keeps to its rate, whoever serves it.
THEOREM RateKept == Spec => RateIsKept
<1>1. IInv /\ [Next]_vars => [Step]_vars
  BY NextOK
<1>2. [Step]_vars => [cannon'.fired => since = FireInterval \/ cannon.ammo = 0]_vars
  BY DEF Step
<1> QED
  BY Invariance, <1>1, <1>2, PTL DEF Spec, RateIsKept

\* Nobody hangs on to a cannon that he does not control, if those who are connected
\* send their commands: any command of the man himself lets him go, and nothing
\* the others do can make a command of his miss.
THEOREM NobodyHangsOnForLong ==
  Spec /\ (\A p \in Players : CommandsKeepComing(p)) => NobodyHangsOn
<1> SUFFICES ASSUME NEW p \in Players
             PROVE  Spec /\ CommandsKeepComing(p) => (HangsOn(p) ~> ~HangsOn(p))
  BY DEF NobodyHangsOn
<1>1. IInv /\ HangsOn(p) => ~(p \notin client)
  BY DEF IInv, HangsOn
<1>2. IInv /\ HangsOn(p) /\ <<AnyCommand(p)>>_vars => ~HangsOn(p)'
  BY AnyCommandLetsGo
<1> QED
  BY Invariance, <1>1, <1>2, PTL DEF CommandsKeepComing
=============================================================================
