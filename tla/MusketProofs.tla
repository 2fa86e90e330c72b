---------------------------- MODULE MusketProofs ----------------------------
(***************************************************************************)
(* Proofs about Musket: its types, that a delayed attack is the one that   *)
(* was begun, where the balls go, the pace of the shots, and, against a    *)
(* clock that counts the ticks, that nothing begun hangs.                  *)
(***************************************************************************)
EXTENDS Musket, TLAPS

\* What is left to wait for.
Wait(t) == IF t > 0 THEN t ELSE 0

\* A shot under way comes before anything else that the gun may do.
Fires(s) ==
  s.pending => /\ ~s.inReload /\ s.clip = 0 /\ s.last[Gun] = "primary"
               /\ s.fire <= s.holster[Gun]
               /\ s.fire > 0 => /\ s.active = Gun
                                /\ s.next[Gun] > s.fire /\ s.next2[Gun] > s.fire

\* A reload under way keeps the player busy, has a ball to load and room for it.
Loads(s) ==
  s.inReload => /\ s.active = Gun /\ ~s.sighted /\ s.ammo > 0 /\ s.clip = 0
                /\ s.next[Gun] > 0 => s.busy >= s.next[Gun]

\* A swing under way holds up the attacks of its weapon.
Swings(s) ==
  \A w \in Weapons :
    s.swing[w] > 0 => /\ s.swing[w] <= RetraceTime /\ Melee(w, s.last[w])
                      /\ s.next[w] >= s.swing[w] /\ s.next2[w] >= s.swing[w]

\* What the time n since the last shot says of the gun.
Paced(s, n) ==
  /\ s.clip = 1 => n = Shortest
  /\ n + (IF s.pending THEN Wait(s.fire) ELSE 0) >= FlintlockDelay
  /\ s.inReload => n + Wait(s.next[Gun]) >= Shortest

Sound(s, n) == Fires(s) /\ Loads(s) /\ Swings(s) /\ Paced(s, n)

IInv == TypeOK /\ Sound(man, since)

-----------------------------------------------------------------------------
LEMMA Durations ==
  /\ Balls \in Nat /\ Longest \in Nat
  /\ FlintlockDelay \in 1 .. Longest /\ HolsterLock \in 1 .. Longest
  /\ HolsterTime \in 1 .. Longest /\ AttackRate \in 1 .. Longest
  /\ RetraceTime \in 1 .. Longest /\ DrawTime \in 1 .. Longest
  /\ ReloadTime \in 1 .. Longest /\ SightsDelay \in 1 .. Longest
  /\ WetPause \in 1 .. Longest /\ EmptyPause \in 1 .. Longest
  /\ 0 \in Timer /\ -1 \in Timer
  /\ \A d \in 1 .. Longest : d \in Timer
  /\ Shortest \in Nat /\ Shortest = FlintlockDelay + ReloadTime
BY MusketAssumption DEF Timer, Shortest

LEMMA ManFields ==
  ASSUME NEW s \in Man
  PROVE  /\ s.active \in Weapons /\ s.ammo \in 0 .. Balls /\ s.clip \in 0 .. 1
         /\ s.inReload \in BOOLEAN /\ s.pending \in BOOLEAN /\ s.clicked \in BOOLEAN
         /\ s.sighted \in BOOLEAN
         /\ s.fire \in Timer /\ s.unsight \in Timer /\ s.busy \in Timer
         /\ s.next \in [Weapons -> Timer] /\ s.next2 \in [Weapons -> Timer]
         /\ s.holster \in [Weapons -> Timer] /\ s.swing \in [Weapons -> Timer]
         /\ s.last \in [Weapons -> Attacks]
BY DEF Man

LEMMA AttackAfterFields ==
  ASSUME NEW s \in Man, NEW d \in Timer
  PROVE  /\ AttackAfter(s, d) \in Man
         /\ AttackAfter(s, d).next = [s.next EXCEPT ![s.active] = d]
         /\ AttackAfter(s, d).next2 = [s.next2 EXCEPT ![s.active] = d]
         /\ AttackAfter(s, d).active = s.active
         /\ AttackAfter(s, d).ammo = s.ammo
         /\ AttackAfter(s, d).clip = s.clip
         /\ AttackAfter(s, d).inReload = s.inReload
         /\ AttackAfter(s, d).pending = s.pending
         /\ AttackAfter(s, d).fire = s.fire
         /\ AttackAfter(s, d).clicked = s.clicked
         /\ AttackAfter(s, d).sighted = s.sighted
         /\ AttackAfter(s, d).unsight = s.unsight
         /\ AttackAfter(s, d).busy = s.busy
         /\ AttackAfter(s, d).holster = s.holster
         /\ AttackAfter(s, d).swing = s.swing
         /\ AttackAfter(s, d).last = s.last
BY DEF AttackAfter, Man

LEMMA DisableFields ==
  ASSUME NEW s \in Man
  PROVE  LET t == DisableIronsights(s)
         IN /\ t \in Man /\ t.sighted = FALSE
            /\ \A w \in Weapons :
                 /\ t.next[w] \in {s.next[w], Later(s.next[w], 0)}
                 /\ t.next2[w] \in {s.next2[w], Later(s.next2[w], 0)}
            /\ t.active = s.active /\ t.ammo = s.ammo /\ t.clip = s.clip
            /\ t.inReload = s.inReload /\ t.pending = s.pending /\ t.fire = s.fire
            /\ t.busy = s.busy /\ t.holster = s.holster
            /\ t.swing = s.swing /\ t.last = s.last
            /\ ~s.sighted => t = s
<1> DEFINE p == [s.next EXCEPT ![Gun] = Later(s.next[Gun], 0)]
           q == [s.next2 EXCEPT ![Gun] = Later(s.next2[Gun], 0)]
           t == [s EXCEPT !.sighted = FALSE, !.next = p, !.next2 = q]
<1>1. /\ p \in [Weapons -> Timer] /\ q \in [Weapons -> Timer]
      /\ \A w \in Weapons : p[w] \in {s.next[w], Later(s.next[w], 0)}
      /\ \A w \in Weapons : q[w] \in {s.next2[w], Later(s.next2[w], 0)}
  BY ManFields, Durations DEF Later, Weapons, Timer
<1>2. t = [s EXCEPT !.sighted = FALSE, !.next[Gun] = Later(@, 0),
                    !.next2[Gun] = Later(@, 0)]
  BY DEF t, p, q
<1> HIDE DEF p, q
<1>3. /\ t \in Man /\ t.next = p /\ t.next2 = q /\ t.sighted = FALSE
      /\ t.active = s.active /\ t.ammo = s.ammo /\ t.clip = s.clip
      /\ t.inReload = s.inReload /\ t.pending = s.pending /\ t.fire = s.fire
      /\ t.busy = s.busy /\ t.holster = s.holster /\ t.swing = s.swing /\ t.last = s.last
  BY <1>1 DEF Man
<1> HIDE DEF t
<1>4. CASE s.sighted
  BY <1>1, <1>2, <1>3, <1>4 DEF DisableIronsights
<1>5. CASE ~s.sighted
  BY <1>5, ManFields DEF DisableIronsights
<1> QED
  BY <1>4, <1>5

\* Attack times that are put off disturb nothing.
LEMMA PutOff ==
  ASSUME NEW s \in Man, NEW t \in Man, NEW n \in 0 .. Shortest, Sound(s, n),
         ~s.inReload,
         \A w \in Weapons : t.next[w] >= s.next[w] /\ t.next2[w] >= s.next2[w],
         t.active = s.active, t.clip = s.clip, t.inReload = s.inReload,
         t.pending = s.pending, t.fire = s.fire, t.holster = s.holster,
         t.swing = s.swing, t.last = s.last
  PROVE  Sound(t, n)
BY ManFields, Durations DEF Sound, Fires, Loads, Swings, Paced, Wait, Weapons, Timer

LEMMA DisableSound ==
  ASSUME NEW s \in Man, NEW n \in 0 .. Shortest, Sound(s, n)
  PROVE  DisableIronsights(s) \in Man /\ Sound(DisableIronsights(s), n)
<1> DEFINE t == DisableIronsights(s)
<1>1. CASE s.inReload
  <2>1. ~s.sighted
    BY <1>1 DEF Sound, Loads
  <2> QED
    BY <2>1, DisableFields
<1>2. CASE ~s.inReload
  <2>1. /\ t \in Man /\ t.active = s.active /\ t.clip = s.clip /\ t.inReload = s.inReload
        /\ t.pending = s.pending /\ t.fire = s.fire /\ t.holster = s.holster
        /\ t.swing = s.swing /\ t.last = s.last
    BY DisableFields
  <2>2. \A w \in Weapons : t.next[w] >= s.next[w] /\ t.next2[w] >= s.next2[w]
    <3> TAKE w \in Weapons
    <3>1. /\ t.next[w] \in {s.next[w], Later(s.next[w], 0)}
          /\ t.next2[w] \in {s.next2[w], Later(s.next2[w], 0)}
      BY DisableFields
    <3>2. s.next[w] \in Int /\ s.next2[w] \in Int
      BY ManFields, Durations DEF Timer
    <3> HIDE DEF t
    <3> QED
      BY <3>1, <3>2 DEF Later
  <2> HIDE DEF t
  <2>3. Sound(t, n)
    BY <1>2, <2>1, <2>2, PutOff
  <2> QED
    BY <2>1, <2>3 DEF t
<1> QED
  BY <1>1, <1>2

LEMMA DeploySound ==
  ASSUME NEW s \in Man, NEW n \in 0 .. Shortest, Sound(s, n), NEW w \in Weapons,
         ~s.inReload, s.pending => s.fire <= 0
  PROVE  LET t == Deploy(s, w)
         IN /\ t \in Man /\ Sound(t, n)
            /\ t.active = w /\ t.ammo = s.ammo /\ t.clip = s.clip
            /\ t.inReload = FALSE /\ t.pending = s.pending /\ t.fire = s.fire
            /\ t.swing = s.swing
<1> DEFINE p == [s.next EXCEPT ![w] = DrawTime]
           q == [s.next2 EXCEPT ![w] = DrawTime]
           t == [s EXCEPT !.active = w, !.busy = DrawTime, !.next = p, !.next2 = q,
                          !.inReload = FALSE]
<1>1. /\ p \in [Weapons -> Timer] /\ q \in [Weapons -> Timer]
      /\ \A v \in Weapons : p[v] = (IF v = w THEN DrawTime ELSE s.next[v])
      /\ \A v \in Weapons : q[v] = (IF v = w THEN DrawTime ELSE s.next2[v])
      /\ DrawTime \in Timer
  BY ManFields, Durations
<1>2. Deploy(s, w) = t
  BY DEF Deploy, Man, t, p, q
<1> HIDE DEF p, q
<1>3. /\ t \in Man /\ t.next = p /\ t.next2 = q /\ t.inReload = FALSE /\ t.active = w
      /\ t.ammo = s.ammo /\ t.clip = s.clip /\ t.pending = s.pending /\ t.fire = s.fire
      /\ t.holster = s.holster /\ t.swing = s.swing /\ t.last = s.last
  BY <1>1 DEF Man
<1> HIDE DEF t
<1>4. Sound(t, n)
  BY <1>1, <1>3, ManFields, Durations, MusketAssumption
     DEF Sound, Fires, Loads, Swings, Paced, Wait, Weapons, Timer
<1> QED
  BY <1>2, <1>3, <1>4

LEMMA HolsterSound ==
  ASSUME TypeOK, NEW s \in Man, NEW n \in 0 .. Shortest, Sound(s, n),
         s.holster[s.active] <= 0
  PROVE  LET t == Holster(s)
         IN /\ t \in Man /\ Sound(t, n)
            /\ t.active = s.active /\ t.clip = s.clip /\ t.pending = s.pending
            /\ t.fire = s.fire /\ (s.pending => s.fire <= 0) /\ t.swing = s.swing
            /\ t.ammo = (IF s.inReload /\ ~kit.steady THEN s.ammo - 1 ELSE s.ammo)
            /\ t.inReload = (s.inReload /\ kit.steady)
<1> DEFINE h == [s.holster EXCEPT ![s.active] = HolsterTime]
           u == [s EXCEPT !.holster = h]
           d == DisableIronsights(u)
           t == [d EXCEPT !.inReload = FALSE, !.ammo = Later(@ - 1, 0)]
<1>1. /\ h \in [Weapons -> Timer]
      /\ \A v \in Weapons : h[v] = (IF v = s.active THEN HolsterTime ELSE s.holster[v])
  BY ManFields, Durations
<1>2. u = [s EXCEPT !.holster[s.active] = HolsterTime]
  BY DEF u, h
<1>3. s.pending => s.fire <= 0
  BY ManFields, Durations DEF Sound, Fires, Weapons, Timer
<1> HIDE DEF h
<1>4. /\ u \in Man /\ u.holster = h /\ u.active = s.active /\ u.ammo = s.ammo
      /\ u.clip = s.clip /\ u.inReload = s.inReload /\ u.pending = s.pending
      /\ u.fire = s.fire /\ u.swing = s.swing /\ u.last = s.last /\ u.next = s.next
      /\ u.next2 = s.next2 /\ u.busy = s.busy /\ u.sighted = s.sighted
  BY <1>1 DEF Man
<1> HIDE DEF u
<1>5. Sound(u, n)
  BY <1>1, <1>3, <1>4, ManFields, Durations
     DEF Sound, Fires, Loads, Swings, Paced, Wait, Weapons, Timer
<1>6. d \in Man /\ Sound(d, n) /\ d.active = s.active /\ d.ammo = s.ammo
      /\ d.clip = s.clip /\ d.inReload = s.inReload /\ d.pending = s.pending
      /\ d.fire = s.fire /\ d.swing = s.swing
  BY <1>4, <1>5, DisableFields, DisableSound
<1>7. Holster(s) = IF d.active = Gun /\ d.inReload /\ ~kit.steady THEN t ELSE d
  BY <1>2 DEF Holster
<1> HIDE DEF d
<1>8. CASE s.inReload /\ ~kit.steady
  <2>1. s.active = Gun /\ s.ammo \in 1 .. Balls
    BY <1>8, ManFields, Durations DEF Sound, Loads
  <2>2. Later(d.ammo - 1, 0) = s.ammo - 1 /\ s.ammo - 1 \in 0 .. Balls
    BY <1>6, <2>1, Durations DEF Later
  <2>3. t \in Man /\ t.inReload = FALSE /\ t.ammo = s.ammo - 1
        /\ t.active = d.active /\ t.clip = d.clip /\ t.pending = d.pending
        /\ t.fire = d.fire /\ t.next = d.next /\ t.next2 = d.next2 /\ t.busy = d.busy
        /\ t.holster = d.holster /\ t.swing = d.swing /\ t.last = d.last
    BY <1>6, <2>2 DEF Man
  <2> HIDE DEF t
  <2>4. Sound(t, n)
    BY <1>6, <2>3 DEF Sound, Fires, Loads, Swings, Paced
  <2>5. Holster(s) = t
    BY <1>6, <1>7, <1>8, <2>1
  <2> QED
    BY <1>3, <1>6, <1>8, <2>3, <2>4, <2>5
<1>9. CASE ~(s.inReload /\ ~kit.steady)
  <2>1. Holster(s) = d
    BY <1>6, <1>7, <1>9
  <2>2. kit.steady \in BOOLEAN /\ s.inReload \in BOOLEAN
    BY MusketAssumption, ManFields DEF TypeOK, KitRecord
  <2> QED
    BY <1>3, <1>6, <1>9, <2>1, <2>2
<1> QED
  BY <1>8, <1>9

LEMMA SwitchSound ==
  ASSUME TypeOK, NEW s \in Man, NEW n \in 0 .. Shortest, Sound(s, n),
         NEW w \in Weapons, w # s.active
  PROVE  LET t == Switch(s, w)
         IN /\ t \in Man /\ Sound(t, n)
            /\ t.clip = s.clip /\ t.pending = s.pending /\ t.swing = s.swing
            /\ ~s.inReload => ~t.inReload
            /\ t.active = s.active => t.ammo = s.ammo
            /\ t.active # s.active =>
                 t.ammo = (IF s.inReload THEN s.ammo - 1 ELSE s.ammo)
<1> DEFINE h == Holster(s)
<1>1. CASE s.holster[s.active] > 0 \/ ~HasAnyAmmo(s, w)
  BY <1>1 DEF Switch
<1>2. CASE ~(s.holster[s.active] > 0 \/ ~HasAnyAmmo(s, w))
  <2>1. s.holster[s.active] <= 0
    BY <1>2, ManFields DEF Timer
  <2>2. /\ h \in Man /\ Sound(h, n)
        /\ h.active = s.active /\ h.clip = s.clip /\ h.pending = s.pending
        /\ h.fire = s.fire /\ (s.pending => s.fire <= 0) /\ h.swing = s.swing
        /\ h.ammo = (IF s.inReload /\ ~kit.steady THEN s.ammo - 1 ELSE s.ammo)
        /\ h.inReload = (s.inReload /\ kit.steady)
    BY <2>1, HolsterSound
  <2>3. s.inReload => s.active = Gun
    BY DEF Sound, Loads
  <2>4. CASE Refuses(s)
    <3>1. Switch(s, w) = h
      BY <1>2, <2>4 DEF Switch
    <3> QED
      BY <2>2, <2>4, <3>1 DEF Refuses
  <2>5. CASE ~Refuses(s)
    <3>1. Switch(s, w) = Deploy(h, w)
      BY <1>2, <2>5 DEF Switch
    <3>2. h.inReload = FALSE /\ h.ammo = (IF s.inReload THEN s.ammo - 1 ELSE s.ammo)
      BY <2>2, <2>3, <2>5 DEF Refuses
    <3> HIDE DEF h
    <3>4. ~h.inReload /\ (h.pending => h.fire <= 0) /\ h \in Man /\ Sound(h, n)
      BY <2>2, <3>2
    <3>3. LET t == Deploy(h, w)
          IN /\ t \in Man /\ Sound(t, n)
             /\ t.active = w /\ t.ammo = h.ammo /\ t.clip = h.clip
             /\ t.pending = h.pending /\ t.swing = h.swing /\ t.inReload = FALSE
      BY <3>4, DeploySound
    <3> QED
      BY <2>2, <3>1, <3>2, <3>3
  <2> QED
    BY <2>4, <2>5
<1> QED
  BY <1>1, <1>2

LEMMA EnableSound ==
  ASSUME NEW s \in Man, NEW n \in 0 .. Shortest, Sound(s, n), ~s.inReload
  PROVE  LET t == EnableIronsights(s)
         IN /\ t \in Man /\ Sound(t, n)
            /\ t.active = s.active /\ t.ammo = s.ammo /\ t.clip = s.clip
            /\ t.pending = s.pending /\ t.inReload = s.inReload
<1> DEFINE p == [s.next EXCEPT ![Gun] = Later(s.next[Gun], SightsDelay)]
           q == [s.next2 EXCEPT ![Gun] = Later(s.next2[Gun], SightsDelay)]
           t == [s EXCEPT !.sighted = TRUE, !.unsight = SightsDelay,
                          !.next = p, !.next2 = q]
<1>1. /\ p \in [Weapons -> Timer] /\ q \in [Weapons -> Timer]
      /\ \A w \in Weapons : p[w] >= s.next[w] /\ q[w] >= s.next2[w]
      /\ SightsDelay \in Timer
  BY ManFields, Durations DEF Later, Weapons, Timer
<1>2. EnableIronsights(s) = t
  BY DEF EnableIronsights, t, p, q
<1> HIDE DEF p, q
<1>3. /\ t \in Man /\ t.next = p /\ t.next2 = q /\ t.active = s.active
      /\ t.ammo = s.ammo /\ t.clip = s.clip /\ t.inReload = s.inReload
      /\ t.pending = s.pending /\ t.fire = s.fire /\ t.holster = s.holster
      /\ t.swing = s.swing /\ t.last = s.last
  BY <1>1 DEF Man
<1> HIDE DEF t
<1>4. Sound(t, n)
  BY <1>1, <1>3, PutOff
<1> QED
  BY <1>2, <1>3, <1>4

LEMMA ReloadSound ==
  ASSUME NEW s \in Man, NEW n \in 0 .. Shortest, Sound(s, n), s.active = Gun,
         ~s.inReload
  PROVE  LET t == Reload(s)
         IN /\ t \in Man /\ Sound(t, n)
            /\ t.active = s.active /\ t.ammo = s.ammo /\ t.clip = s.clip
            /\ t.pending = s.pending
<1> DEFINE u == AttackAfter(s, ReloadTime)
           v == [u EXCEPT !.inReload = TRUE, !.busy = ReloadTime]
           t == DisableIronsights(v)
<1>1. CASE s.pending \/ s.ammo = 0 \/ under \/ s.clip = 1
  BY <1>1 DEF Reload
<1>2. CASE ~(s.pending \/ s.ammo = 0 \/ under \/ s.clip = 1)
  <2>1. Reload(s) = t
    BY <1>2 DEF Reload
  <2>2. /\ u \in Man /\ u.next = [s.next EXCEPT ![s.active] = ReloadTime]
        /\ u.next2 = [s.next2 EXCEPT ![s.active] = ReloadTime]
        /\ u.active = s.active /\ u.ammo = s.ammo /\ u.clip = s.clip
        /\ u.pending = s.pending /\ u.fire = s.fire /\ u.holster = s.holster
        /\ u.swing = s.swing /\ u.last = s.last
    BY AttackAfterFields, Durations
  <2> HIDE DEF u
  <2>3. /\ v \in Man /\ v.next = u.next /\ v.next2 = u.next2 /\ v.inReload = TRUE
        /\ v.active = s.active /\ v.ammo = s.ammo /\ v.clip = s.clip
        /\ v.pending = s.pending /\ v.fire = s.fire /\ v.holster = s.holster
        /\ v.swing = s.swing /\ v.last = s.last /\ v.busy = ReloadTime
    BY <2>2, Durations DEF Man
  <2> HIDE DEF v
  <2>4. /\ t \in Man /\ t.sighted = FALSE
        /\ \A w \in Weapons :
             /\ t.next[w] \in {v.next[w], Later(v.next[w], 0)}
             /\ t.next2[w] \in {v.next2[w], Later(v.next2[w], 0)}
        /\ t.active = v.active /\ t.ammo = v.ammo /\ t.clip = v.clip
        /\ t.inReload = v.inReload /\ t.pending = v.pending /\ t.fire = v.fire
        /\ t.busy = v.busy /\ t.holster = v.holster
        /\ t.swing = v.swing /\ t.last = v.last
    BY <2>3, DisableFields
  <2> HIDE DEF t
  <2>5. /\ v.next[Gun] = ReloadTime /\ v.next2[Gun] = ReloadTime
        /\ v.next[Blade] = s.next[Blade] /\ v.next2[Blade] = s.next2[Blade]
    BY <2>2, <2>3, ManFields DEF Weapons, Gun, Blade
  <2>6. /\ t.next[Gun] = ReloadTime
        /\ t.next2[Gun] = ReloadTime
        /\ t.next[Blade] >= s.next[Blade] /\ t.next2[Blade] >= s.next2[Blade]
    <3>1. /\ s.next[Blade] \in Int /\ s.next2[Blade] \in Int /\ ReloadTime \in Nat
          /\ Gun \in Weapons /\ Blade \in Weapons
      BY ManFields, Durations DEF Weapons, Timer
    <3> QED
      BY <2>4, <2>5, <3>1 DEF Later
  <2>7. n >= FlintlockDelay /\ s.ammo > 0 /\ s.clip = 0 /\ ~s.pending
    BY <1>2, ManFields, Durations DEF Sound, Paced
  <2>8. Sound(t, n)
    <3>1. Fires(t)
      BY <2>3, <2>4, <2>7 DEF Fires
    <3>2. Loads(t)
      BY <2>3, <2>4, <2>6, <2>7, Durations DEF Loads
    <3>3. Swings(t)
      BY <2>3, <2>4, <2>6, ManFields, Durations, MusketAssumption
         DEF Sound, Swings, Weapons, Timer
    <3>4. Paced(t, n)
      BY <2>3, <2>4, <2>6, <2>7, Durations DEF Paced, Wait
    <3> QED
      BY <3>1, <3>2, <3>3, <3>4 DEF Sound
  <2> QED
    BY <2>1, <2>3, <2>4, <2>8
<1> QED
  BY <1>1, <1>2

LEMMA CheckReloadSound ==
  ASSUME NEW s \in Man, NEW n \in 0 .. Shortest, Sound(s, n)
  PROVE  LET t == CheckReload(s)
         IN /\ t \in Man /\ Sound(t, n)
            /\ t.active = s.active /\ t.pending = s.pending
            /\ t.ammo + t.clip = s.ammo + s.clip
            /\ s.inReload /\ s.busy <= 0 => ~t.inReload /\ t.clip = 1
            /\ ~s.inReload => t = s
<1> DEFINE u == AttackAfter(s, 0)
           a == s.ammo - 1
           t == [u EXCEPT !.inReload = FALSE, !.clip = 1, !.ammo = a]
<1>1. CASE ~(s.active = Gun /\ s.inReload /\ s.next[Gun] <= 0)
  BY <1>1, ManFields DEF CheckReload, Sound, Loads, Weapons, Timer
<1>2. CASE s.active = Gun /\ s.inReload /\ s.next[Gun] <= 0
  <2>1. s.clip = 0 /\ s.ammo \in 1 .. Balls /\ ~s.pending /\ n = Shortest
    BY <1>2, ManFields, Durations DEF Sound, Loads, Fires, Paced, Wait, Weapons, Timer
  <2>2. /\ u \in Man /\ u.next = [s.next EXCEPT ![s.active] = 0]
        /\ u.next2 = [s.next2 EXCEPT ![s.active] = 0]
        /\ u.active = s.active /\ u.ammo = s.ammo /\ u.clip = s.clip
        /\ u.pending = s.pending /\ u.fire = s.fire /\ u.holster = s.holster
        /\ u.swing = s.swing /\ u.last = s.last
    BY AttackAfterFields, Durations
  <2> HIDE DEF u
  <2>3. a \in 0 .. Balls /\ 1 \in 0 .. 1 /\ a = s.ammo - 1
    BY <2>1, Durations
  <2> HIDE DEF a
  <2>4. /\ t \in Man /\ t.next = u.next /\ t.next2 = u.next2 /\ t.inReload = FALSE
        /\ t.active = s.active /\ t.ammo = a /\ t.clip = 1
        /\ t.pending = s.pending /\ t.fire = s.fire /\ t.holster = s.holster
        /\ t.swing = s.swing /\ t.last = s.last
    BY <2>2, <2>3 DEF Man
  <2>5. CheckReload(s) = t
    <3>1. Sooner(1 - s.clip, s.ammo) = 1
      BY <2>1 DEF Sooner
    <3>2. CheckReload(s) = [u EXCEPT !.inReload = FALSE, !.clip = u.clip + 1,
                                     !.ammo = u.ammo - 1]
      BY <1>2, <3>1 DEF CheckReload, u
    <3>3. u.clip + 1 = 1 /\ u.ammo - 1 = a
      BY <2>1, <2>2, <2>3
    <3> QED
      BY <3>2, <3>3
  <2> HIDE DEF t
  <2>6. Sound(t, n)
    <3>1. Fires(t) /\ Loads(t)
      BY <2>1, <2>4 DEF Fires, Loads
    <3>2. Swings(t)
      BY <1>2, <2>2, <2>4, ManFields, Durations DEF Sound, Swings, Weapons, Timer
    <3>3. Paced(t, n)
      BY <2>1, <2>4, Durations DEF Paced, Wait
    <3> QED
      BY <3>1, <3>2, <3>3 DEF Sound
  <2>7. t.ammo + t.clip = s.ammo + s.clip
    BY <2>1, <2>3, <2>4
  <2> QED
    BY <1>2, <2>4, <2>5, <2>6, <2>7
<1> QED
  BY <1>1, <1>2

-----------------------------------------------------------------------------
(* Attacks, of a soldier whose weapon in hand has nothing under way.        *)

Ready(s) ==
  ~s.inReload /\ ~(s.pending /\ s.active = Gun) /\ s.swing[s.active] <= 0

LEMMA DueIsReady ==
  ASSUME NEW s \in Man, NEW n \in 0 .. Shortest, Sound(s, n), ~s.inReload,
         s.pending /\ s.active = Gun => s.fire > 0,
         s.next[s.active] <= 0 \/ s.next2[s.active] <= 0
  PROVE  Ready(s)
BY ManFields, Durations DEF Sound, Fires, Swings, Ready, Weapons, Timer

\* Only the attack times of the weapon in hand change.
LEMMA Paused ==
  ASSUME NEW s \in Man, NEW t \in Man, NEW n \in 0 .. Shortest, Sound(s, n), Ready(s),
         \A w \in Weapons \ {s.active} : t.next[w] = s.next[w] /\ t.next2[w] = s.next2[w],
         t.active = s.active, t.clip = s.clip, t.inReload = s.inReload,
         t.pending = s.pending, t.fire = s.fire, t.holster = s.holster,
         t.swing = s.swing, t.last = s.last
  PROVE  Sound(t, n)
BY ManFields, Durations
   DEF Ready, Sound, Fires, Loads, Swings, Paced, Wait, Weapons, Timer

LEMMA AttackAfterSound ==
  ASSUME NEW s \in Man, NEW n \in 0 .. Shortest, Sound(s, n), Ready(s), NEW d \in Timer
  PROVE  Sound(AttackAfter(s, d), n)
<1> DEFINE t == AttackAfter(s, d)
<1>1. /\ t \in Man /\ t.next = [s.next EXCEPT ![s.active] = d]
      /\ t.next2 = [s.next2 EXCEPT ![s.active] = d]
      /\ t.active = s.active /\ t.clip = s.clip /\ t.inReload = s.inReload
      /\ t.pending = s.pending /\ t.fire = s.fire /\ t.holster = s.holster
      /\ t.swing = s.swing /\ t.last = s.last
  BY AttackAfterFields
<1> HIDE DEF t
<1>2. \A w \in Weapons \ {s.active} : t.next[w] = s.next[w] /\ t.next2[w] = s.next2[w]
  BY <1>1, ManFields
<1>3. Sound(t, n)
  BY <1>1, <1>2, Paused
<1> QED
  BY <1>3 DEF t

LEMMA LastSound ==
  ASSUME NEW s \in Man, NEW n \in 0 .. Shortest, Sound(s, n), Ready(s), NEW a \in Attacks
  PROVE  LET t == [s EXCEPT !.last[s.active] = a]
         IN /\ t \in Man /\ Sound(t, n) /\ Ready(t) /\ t.last[s.active] = a
            /\ t.active = s.active /\ t.ammo = s.ammo /\ t.clip = s.clip
            /\ t.pending = s.pending
<1> DEFINE l == [s.last EXCEPT ![s.active] = a]
           t == [s EXCEPT !.last = l]
<1>1. /\ l \in [Weapons -> Attacks] /\ l[s.active] = a
      /\ \A w \in Weapons \ {s.active} : l[w] = s.last[w]
  BY ManFields
<1>2. t = [s EXCEPT !.last[s.active] = a]
  BY DEF t, l
<1> HIDE DEF l
<1>3. /\ t \in Man /\ t.last = l /\ t.active = s.active /\ t.ammo = s.ammo
      /\ t.clip = s.clip /\ t.inReload = s.inReload /\ t.pending = s.pending
      /\ t.fire = s.fire /\ t.swing = s.swing /\ t.next = s.next /\ t.next2 = s.next2
      /\ t.busy = s.busy /\ t.sighted = s.sighted /\ t.holster = s.holster
  BY <1>1 DEF Man
<1> HIDE DEF t
<1>4. Sound(t, n)
  BY <1>1, <1>3, ManFields, Durations
     DEF Ready, Sound, Fires, Loads, Swings, Paced, Wait, Weapons, Timer
<1> QED
  BY <1>1, <1>2, <1>3, <1>4 DEF Ready

\* What an attack comes to: nothing that counts, or the trigger of a shot.
Turns(s, t, n) ==
  /\ t \in Man /\ Stock(t) = Stock(s) /\ ~t.inReload
  /\ \/ t.pending = s.pending /\ Sound(t, n)
     \/ ~s.pending /\ t.pending /\ s.clip = 1 /\ Sound(t, 0)
  /\ t.active # s.active => s.active = Gun /\ s.clip = 0

LEMMA SwingTurns ==
  ASSUME NEW s \in Man, NEW n \in 0 .. Shortest, Sound(s, n), Ready(s),
         NEW hit \in BOOLEAN, Melee(s.active, s.last[s.active])
  PROVE  Turns(s, Swing(s, hit), n)
<1> DEFINE u == AttackAfter(s, AttackRate)
           x == IF hit THEN 0 ELSE RetraceTime
           g == [s.swing EXCEPT ![s.active] = x]
           t == [u EXCEPT !.swing = g]
<1>1. /\ g \in [Weapons -> Timer] /\ g[s.active] = x /\ x \in {0, RetraceTime}
      /\ \A w \in Weapons \ {s.active} : g[w] = s.swing[w]
  BY ManFields, Durations
<1>2. /\ u \in Man /\ u.next = [s.next EXCEPT ![s.active] = AttackRate]
      /\ u.next2 = [s.next2 EXCEPT ![s.active] = AttackRate]
      /\ u.active = s.active /\ u.ammo = s.ammo /\ u.clip = s.clip
      /\ u.inReload = s.inReload /\ u.pending = s.pending /\ u.fire = s.fire
      /\ u.swing = s.swing /\ u.last = s.last /\ u.holster = s.holster
  BY AttackAfterFields, Durations
<1>3. Sound(u, n)
  BY AttackAfterSound, Durations
<1>4. Swing(s, hit) = t
  BY <1>2 DEF Swing
<1> HIDE DEF g, u
<1>5. /\ t \in Man /\ t.swing = g /\ t.active = s.active /\ t.ammo = s.ammo
      /\ t.clip = s.clip /\ t.inReload = s.inReload /\ t.pending = s.pending
      /\ t.fire = s.fire /\ t.next = u.next /\ t.next2 = u.next2 /\ t.last = s.last
      /\ t.holster = s.holster /\ t.busy = u.busy /\ t.sighted = u.sighted
  BY <1>1, <1>2 DEF Man
<1> HIDE DEF t
<1>6. Sound(t, n)
  <2>1. Fires(t) /\ Paced(t, n)
    BY <1>2, <1>3, <1>5 DEF Sound, Fires, Paced
  <2>2. Loads(t)
    BY <1>5 DEF Ready, Loads
  <2>3. Swings(t)
    <3> SUFFICES ASSUME NEW w \in Weapons, t.swing[w] > 0
                 PROVE  /\ t.swing[w] <= RetraceTime /\ Melee(w, t.last[w])
                        /\ t.next[w] >= t.swing[w] /\ t.next2[w] >= t.swing[w]
      BY DEF Swings
    <3>1. CASE w = s.active
      <4>1. t.next[w] = AttackRate /\ t.next2[w] = AttackRate
        BY <1>2, <1>5, <3>1, ManFields
      <4>2. t.swing[w] \in {0, RetraceTime}
        BY <1>1, <1>5, <3>1
      <4> QED
        BY <1>5, <3>1, <4>1, <4>2, Durations, MusketAssumption
    <3>2. CASE w # s.active
      BY <1>1, <1>2, <1>3, <1>5, <3>2 DEF Sound, Swings
    <3> QED
      BY <3>1, <3>2
  <2> QED
    BY <2>1, <2>2, <2>3 DEF Sound
<1> QED
  BY <1>4, <1>5, <1>6 DEF Turns, Stock, Ready

LEMMA FireTurns ==
  ASSUME NEW s \in Man, NEW n \in 0 .. Shortest, Sound(s, n), Ready(s),
         s.active = Gun, s.clip = 1, s.last[Gun] = "primary"
  PROVE  Turns(s, Fire(s), n)
<1> DEFINE u == AttackAfter(s, AttackRate)
           h == [s.holster EXCEPT ![Gun] = HolsterLock]
           t == [u EXCEPT !.clip = 0, !.holster = h, !.pending = TRUE,
                          !.fire = FlintlockDelay]
<1>1. CASE under
  <2>1. Fire(s) = AttackAfter(s, WetPause)
    BY <1>1 DEF Fire
  <2>2. LET v == AttackAfter(s, WetPause)
        IN /\ v \in Man /\ v.active = s.active /\ v.ammo = s.ammo /\ v.clip = s.clip
           /\ v.inReload = s.inReload /\ v.pending = s.pending
    BY AttackAfterFields, Durations
  <2>3. Sound(AttackAfter(s, WetPause), n)
    BY AttackAfterSound, Durations
  <2> QED
    BY <2>1, <2>2, <2>3 DEF Turns, Stock, Ready
<1>2. CASE ~under
  <2>1. /\ h \in [Weapons -> Timer] /\ h[Gun] = HolsterLock
        /\ FlintlockDelay \in Timer /\ 0 \in 0 .. 1
    BY ManFields, Durations DEF Weapons
  <2>2. /\ u \in Man /\ u.next = [s.next EXCEPT ![s.active] = AttackRate]
        /\ u.next2 = [s.next2 EXCEPT ![s.active] = AttackRate]
        /\ u.active = s.active /\ u.ammo = s.ammo /\ u.clip = s.clip
        /\ u.inReload = s.inReload /\ u.swing = s.swing /\ u.last = s.last
        /\ u.holster = s.holster
    BY AttackAfterFields, Durations
  <2>3. Fire(s) = t
    <3>1. u.clip - 1 = 0 /\ u.holster = s.holster
      BY <2>2
    <3>2. Fire(s) = [u EXCEPT !.clip = u.clip - 1,
                              !.holster = [u.holster EXCEPT ![Gun] = HolsterLock],
                              !.pending = TRUE, !.fire = FlintlockDelay]
      BY <1>2 DEF Fire
    <3> QED
      BY <3>1, <3>2
  <2> HIDE DEF h, u
  <2>4. /\ t \in Man /\ t.holster = h /\ t.active = Gun /\ t.ammo = s.ammo
        /\ t.clip = 0 /\ t.inReload = s.inReload /\ t.pending = TRUE
        /\ t.fire = FlintlockDelay /\ t.next = u.next /\ t.next2 = u.next2
        /\ t.swing = s.swing /\ t.last = s.last
    BY <2>1, <2>2 DEF Man
  <2> HIDE DEF t
  <2>5. /\ t.next[Gun] = AttackRate /\ t.next2[Gun] = AttackRate
        /\ t.next[Blade] = s.next[Blade] /\ t.next2[Blade] = s.next2[Blade]
    BY <2>2, <2>4, ManFields DEF Weapons, Gun, Blade
  <2>6. Sound(t, 0)
    <3>1. Fires(t) /\ Loads(t)
      BY <2>1, <2>4, <2>5, Durations, MusketAssumption DEF Fires, Loads, Ready
    <3>2. Swings(t)
      BY <2>4, <2>5, ManFields, Durations DEF Sound, Swings, Ready, Weapons, Timer
    <3>3. Paced(t, 0)
      BY <2>4, Durations DEF Paced, Wait, Ready
    <3> QED
      BY <3>1, <3>2, <3>3 DEF Sound
  <2>7. ~s.pending /\ ~t.inReload
    BY <2>4 DEF Ready
  <2>8. Stock(t) = Stock(s)
    BY <2>4, <2>7, ManFields, Durations DEF Stock
  <2> QED
    BY <2>3, <2>4, <2>6, <2>7, <2>8 DEF Turns
<1> QED
  BY <1>1, <1>2

LEMMA DoAttackTurns ==
  ASSUME NEW s \in Man, NEW n \in 0 .. Shortest, Sound(s, n), Ready(s),
         NEW a \in Attacks, NEW in \in Inputs, a = "primary" /\ s.active = Gun => s.clip = 1
  PROVE  Turns(s, DoAttack(s, a, in), n)
<1> DEFINE t == [s EXCEPT !.last[s.active] = a]
<1>1. /\ t \in Man /\ Sound(t, n) /\ Ready(t) /\ t.last[s.active] = a
      /\ t.active = s.active /\ t.ammo = s.ammo /\ t.clip = s.clip
      /\ t.pending = s.pending
  BY LastSound
<1>2. DoAttack(s, a, in) =
        IF "reload" \in in.buttons \/ (s.active = Gun /\ s.inReload) THEN s
        ELSE IF Melee(s.active, a) /\ ~in.duck THEN Swing(t, in.hit)
        ELSE IF Firearm(s.active, a) THEN Fire(t)
        ELSE t
  BY DEF DoAttack
<1> HIDE DEF t
<1>3. Turns(s, s, n) /\ Turns(s, t, n)
  BY <1>1 DEF Turns, Stock, Ready
<1>4. CASE Melee(s.active, a)
  <2>1. Turns(t, Swing(t, in.hit), n)
    BY <1>1, <1>4, SwingTurns DEF Inputs
  <2>2. Turns(s, Swing(t, in.hit), n)
    BY <1>1, <2>1 DEF Turns, Stock
  <2> QED
    BY <1>2, <1>3, <1>4, <2>2 DEF Melee, Firearm, Gun, Blade
<1>5. CASE ~Melee(s.active, a) /\ Firearm(s.active, a)
  <2>1. t.active = Gun /\ t.clip = 1 /\ t.last[Gun] = "primary"
    BY <1>1, <1>5 DEF Firearm
  <2>2. Turns(t, Fire(t), n)
    BY <1>1, <2>1, FireTurns
  <2>3. Turns(s, Fire(t), n)
    BY <1>1, <2>2 DEF Turns, Stock
  <2> QED
    BY <1>2, <1>3, <1>5, <2>3
<1>6. CASE ~Melee(s.active, a) /\ ~Firearm(s.active, a)
  BY <1>2, <1>3, <1>6
<1> QED
  BY <1>4, <1>5, <1>6

Quiet(s, t, n) ==
  /\ t \in Man /\ Sound(t, n) /\ t.pending = s.pending /\ Stock(t) = Stock(s)
  /\ ~t.inReload
  /\ t.active # s.active => s.active = Gun /\ s.clip = 0

LEMMA ReloadOrSwitchQuiet ==
  ASSUME TypeOK, NEW s \in Man, NEW n \in 0 .. Shortest, Sound(s, n), ~s.inReload
  PROVE  Quiet(s, ReloadOrSwitchWeapons(s), n)
<1> DEFINE calm  == [s EXCEPT !.clicked = FALSE]
           away  == /\ kit.blade /\ kit.leaves /\ ~HasAnyAmmo(s, s.active)
                    /\ s.next[Gun] < 0 /\ s.next2[Gun] < 0
           out   == Switch(calm, Blade)
           p     == [out.next EXCEPT ![Gun] = EmptyPause]
           t     == [out EXCEPT !.next = p]
<1>1. /\ calm \in Man /\ calm.active = s.active /\ calm.ammo = s.ammo
      /\ calm.clip = s.clip /\ calm.inReload = s.inReload /\ calm.pending = s.pending
      /\ calm.fire = s.fire /\ calm.next = s.next /\ calm.next2 = s.next2
      /\ calm.swing = s.swing /\ calm.holster = s.holster /\ calm.last = s.last
      /\ calm.sighted = s.sighted /\ calm.busy = s.busy
  BY DEF Man
<1> HIDE DEF calm
<1>2. Sound(calm, n)
  BY <1>1 DEF Sound, Fires, Loads, Swings, Paced
<1>3. Quiet(s, calm, n)
  BY <1>1, <1>2 DEF Quiet, Stock
<1>4. CASE away
  <2>1. s.active = Gun /\ s.clip = 0 /\ s.next[Gun] < 0
    BY <1>4, ManFields DEF HasAnyAmmo
  <2>2. /\ out \in Man /\ Sound(out, n) /\ out.clip = s.clip /\ out.pending = s.pending
        /\ out.swing = s.swing /\ ~out.inReload /\ out.ammo = s.ammo
        /\ out.active \in Weapons
    <3>1. Blade \in Weapons /\ Blade # calm.active
      BY <1>1, <2>1 DEF Weapons, Gun, Blade
    <3>2. /\ out \in Man /\ Sound(out, n)
          /\ out.clip = calm.clip /\ out.pending = calm.pending /\ out.swing = calm.swing
          /\ ~calm.inReload => ~out.inReload
          /\ out.active = calm.active => out.ammo = calm.ammo
          /\ out.active # calm.active =>
               out.ammo = (IF calm.inReload THEN calm.ammo - 1 ELSE calm.ammo)
      BY <1>1, <1>2, <3>1, SwitchSound
    <3> HIDE DEF out
    <3> QED
      BY <1>1, <3>2, ManFields
  <2>3. ReloadOrSwitchWeapons(s) = IF out.active = s.active THEN out ELSE t
    BY <1>4 DEF ReloadOrSwitchWeapons, calm
  <2>4. /\ p \in [Weapons -> Timer] /\ p[Blade] = out.next[Blade] /\ p[Gun] = EmptyPause
    <3> HIDE DEF out
    <3> QED
      BY <2>2, ManFields, Durations DEF Weapons, Gun, Blade
  <2> HIDE DEF out, p
  <2>5. /\ t \in Man /\ t.next = p /\ t.next2 = out.next2 /\ t.active = out.active
        /\ t.ammo = out.ammo /\ t.clip = out.clip /\ t.inReload = out.inReload
        /\ t.pending = out.pending /\ t.fire = out.fire /\ t.swing = out.swing
        /\ t.holster = out.holster /\ t.last = out.last
    BY <2>2, <2>4 DEF Man
  <2> HIDE DEF t
  <2>6. CASE out.active = s.active
    BY <2>1, <2>2, <2>3, <2>6 DEF Quiet, Stock
  <2>7. CASE out.active # s.active
    <3>1. out.swing[Gun] <= 0
      BY <2>1, <2>2, ManFields DEF Sound, Swings, Weapons, Timer
    <3>2. Sound(t, n)
      <4>1. Fires(t) /\ Loads(t)
        BY <2>1, <2>2, <2>5, <2>7 DEF Sound, Fires, Loads
      <4>2. Swings(t)
        BY <2>2, <2>4, <2>5, <3>1, ManFields DEF Sound, Swings, Weapons, Timer
      <4>3. Paced(t, n)
        BY <2>2, <2>5 DEF Sound, Paced
      <4> QED
        BY <4>1, <4>2, <4>3 DEF Sound
    <3> QED
      BY <2>1, <2>2, <2>3, <2>5, <2>7, <3>2 DEF Quiet, Stock
  <2> QED
    BY <2>6, <2>7
<1>5. CASE ~away
  <2>1. ReloadOrSwitchWeapons(s) = calm
    BY <1>1, <1>5 DEF ReloadOrSwitchWeapons, calm
  <2> QED
    BY <1>3, <2>1
<1> QED
  BY <1>4, <1>5

LEMMA AttackTurns ==
  ASSUME TypeOK, NEW s \in Man, NEW n \in 0 .. Shortest, Sound(s, n), ~s.inReload,
         s.pending /\ s.active = Gun => s.fire > 0, NEW in \in Inputs
  PROVE  Turns(s, Attack(s, in), n)
<1>1. Turns(s, s, n)
  BY DEF Turns
<1>2. CASE "attack2" \in in.buttons /\ s.next2[s.active] <= 0
  <2>1. Ready(s)
    BY <1>2, DueIsReady
  <2>2. Turns(s, DoAttack(s, "secondary", in), n)
    BY <2>1, DoAttackTurns DEF Attacks
  <2> QED
    BY <1>1, <1>2, <2>2 DEF Attack, SecondaryAttack
<1>3. CASE /\ ~("attack2" \in in.buttons /\ s.next2[s.active] <= 0)
           /\ "attack" \in in.buttons /\ s.next[s.active] <= 0
  <2>1. Ready(s)
    BY <1>3, DueIsReady
  <2>2. Attack(s, in) = PrimaryAttack(s, in)
    BY <1>3 DEF Attack
  <2>3. CASE s.active = Gun /\ s.clip = 0
    <3> DEFINE t == [s EXCEPT !.clicked = TRUE]
    <3>1. /\ t \in Man /\ t.active = s.active /\ t.ammo = s.ammo /\ t.clip = s.clip
          /\ t.inReload = s.inReload /\ t.pending = s.pending /\ t.fire = s.fire
          /\ t.next = s.next /\ t.next2 = s.next2 /\ t.swing = s.swing
          /\ t.holster = s.holster /\ t.last = s.last
      BY DEF Man
    <3>2. PrimaryAttack(s, in) = IF s.clicked THEN ReloadOrSwitchWeapons(s) ELSE t
      BY <2>3 DEF PrimaryAttack
    <3> HIDE DEF t
    <3>3. Sound(t, n)
      BY <3>1 DEF Sound, Fires, Loads, Swings, Paced
    <3>4. Turns(s, t, n)
      BY <3>1, <3>3 DEF Turns, Stock
    <3> QED
      BY <2>2, <3>2, <3>4, ReloadOrSwitchQuiet DEF Turns, Quiet
  <2>4. CASE ~(s.active = Gun /\ s.clip = 0)
    <3>1. s.active = Gun => s.clip = 1
      BY <2>4, ManFields
    <3>2. Turns(s, DoAttack(s, "primary", in), n)
      BY <2>1, <3>1, DoAttackTurns DEF Attacks
    <3> QED
      BY <2>2, <2>4, <3>2 DEF PrimaryAttack
  <2> QED
    BY <2>3, <2>4
<1>4. CASE /\ ~("attack2" \in in.buttons /\ s.next2[s.active] <= 0)
           /\ ~("attack" \in in.buttons /\ s.next[s.active] <= 0)
  BY <1>1, <1>4 DEF Attack
<1> QED
  BY <1>2, <1>3, <1>4

-----------------------------------------------------------------------------
(* A frame.                                                                *)

\* The rest of a frame, after the attack.
LEMMA RestSound ==
  ASSUME TypeOK, NEW s \in Man, NEW n \in 0 .. Shortest, Sound(s, n), ~s.inReload,
         NEW in \in Inputs
  PROVE  LET t == Released(Sights(ReloadPressed(s, in), in), in)
         IN /\ t \in Man /\ Sound(t, n) /\ t.pending = s.pending /\ Stock(t) = Stock(s)
            /\ t.active # s.active =>
                 /\ s.active = Gun /\ s.clip = 0
                 /\ in.buttons \cap {"attack", "attack2", "reload"} = {}
<1> DEFINE p == ReloadPressed(s, in)
           v == Sights(p, in)
           t == Released(v, in)
<1>1. /\ p \in Man /\ Sound(p, n) /\ p.active = s.active /\ p.ammo = s.ammo
      /\ p.clip = s.clip /\ p.pending = s.pending
      /\ "reload" \notin in.buttons => p = s
  BY ReloadSound DEF ReloadPressed
<1> HIDE DEF p
<1>2. /\ v \in Man /\ Sound(v, n) /\ v.active = s.active /\ v.ammo = s.ammo
      /\ v.clip = s.clip /\ v.pending = s.pending
      /\ p.inReload <=> v.inReload
  <2>1. LET d == DisableIronsights(p)
        IN /\ d \in Man /\ Sound(d, n) /\ d.active = p.active /\ d.ammo = p.ammo
           /\ d.clip = p.clip /\ d.pending = p.pending /\ d.inReload = p.inReload
    BY <1>1, DisableFields, DisableSound
  <2>2. ~p.inReload =>
        LET d == EnableIronsights(p)
        IN /\ d \in Man /\ Sound(d, n) /\ d.active = p.active /\ d.ammo = p.ammo
           /\ d.clip = p.clip /\ d.pending = p.pending /\ d.inReload = p.inReload
    BY <1>1, EnableSound
  <2>3. \/ v = p
        \/ v = DisableIronsights(p)
        \/ ~p.inReload /\ v = EnableIronsights(p)
    BY DEF Sights
  <2> HIDE DEF v
  <2> QED
    BY <1>1, <2>1, <2>2, <2>3
<1> HIDE DEF v
<1>3. CASE in.buttons \cap {"attack", "attack2", "reload"} = {}
  <2>1. ~v.inReload
    BY <1>1, <1>2, <1>3
  <2>2. Quiet(v, ReloadOrSwitchWeapons(v), n)
    BY <1>2, <2>1, ReloadOrSwitchQuiet
  <2>3. t = ReloadOrSwitchWeapons(v)
    BY <1>3 DEF Released
  <2> HIDE DEF t
  <2>4. Quiet(v, t, n) /\ Stock(v) = Stock(s)
    BY <1>2, <2>2, <2>3 DEF Stock
  <2>5. t \in Man /\ Sound(t, n) /\ t.pending = s.pending /\ Stock(t) = Stock(s)
        /\ (t.active # s.active => s.active = Gun /\ s.clip = 0)
    BY <1>2, <2>4 DEF Quiet
  <2> QED
    BY <1>3, <2>5 DEF t, v, p
<1>4. CASE in.buttons \cap {"attack", "attack2", "reload"} # {}
  <2>1. t = v
    BY <1>4 DEF Released
  <2> HIDE DEF t
  <2>2. t \in Man /\ Sound(t, n) /\ t.pending = s.pending /\ Stock(t) = Stock(s)
        /\ t.active = s.active
    BY <1>2, <2>1 DEF Stock
  <2> QED
    BY <2>2 DEF t, v, p
<1> QED
  BY <1>3, <1>4

\* The start of a frame, before the attack: the shot that is due flies, and a
\* reload that has had its time is over.
LEMMA StartSound ==
  ASSUME NEW s \in Man, NEW n \in 0 .. Shortest, Sound(s, n), s.busy <= 0,
         NEW in \in Inputs
  PROVE  LET r == CheckReload(DelayedFire(Retrace(s, in)))
         IN /\ r \in Man /\ Sound(r, n) /\ ~r.inReload /\ r.active = s.active
            /\ Stock(r) = Stock(s) - (IF s.pending /\ ~r.pending THEN 1 ELSE 0)
            /\ r.pending => s.pending
            /\ r.pending /\ r.active = Gun => r.fire > 0
            /\ s.inReload => r.clip = 1
            /\ s.pending => r.clip = 0 /\ r.fire = s.fire /\ r.busy = s.busy
<1> DEFINE g == [s.swing EXCEPT ![s.active] = 0]
           z == [s EXCEPT !.swing = g]
           u == Retrace(s, in)
           f == [u EXCEPT !.pending = FALSE]
           d == DelayedFire(u)
           r == CheckReload(d)
<1>1. /\ g \in [Weapons -> Timer] /\ g[s.active] = 0
      /\ \A w \in Weapons \ {s.active} : g[w] = s.swing[w]
  BY ManFields, Durations
<1>2. u = z \/ u = s
  BY DEF Retrace
<1> HIDE DEF g
<1>3. /\ z \in Man /\ z.swing = g /\ z.active = s.active /\ z.ammo = s.ammo
      /\ z.clip = s.clip /\ z.inReload = s.inReload /\ z.pending = s.pending
      /\ z.fire = s.fire /\ z.next = s.next /\ z.next2 = s.next2 /\ z.last = s.last
      /\ z.holster = s.holster /\ z.busy = s.busy /\ z.sighted = s.sighted
  BY <1>1 DEF Man
<1> HIDE DEF z
<1>4. Sound(z, n)
  <2>1. Swings(z)
    BY <1>1, <1>3, ManFields DEF Sound, Swings, Timer
  <2> QED
    BY <1>3, <2>1 DEF Sound, Fires, Loads, Paced
<1>5. /\ u \in Man /\ Sound(u, n) /\ u.active = s.active /\ u.ammo = s.ammo
      /\ u.clip = s.clip /\ u.inReload = s.inReload /\ u.pending = s.pending
      /\ u.fire = s.fire /\ u.busy = s.busy
  BY <1>2, <1>3, <1>4
<1>6. d = IF u.active = Gun /\ u.pending /\ u.fire <= 0 THEN f ELSE u
  BY DEF DelayedFire
<1> HIDE DEF u
<1>7. /\ f \in Man /\ f.pending = FALSE /\ f.active = u.active /\ f.ammo = u.ammo
      /\ f.clip = u.clip /\ f.inReload = u.inReload
      /\ f.fire = u.fire /\ f.next = u.next /\ f.next2 = u.next2 /\ f.last = u.last
      /\ f.holster = u.holster /\ f.busy = u.busy /\ f.sighted = u.sighted
      /\ f.swing = u.swing
  BY <1>5 DEF Man
<1> HIDE DEF f, d
<1>8. u.pending /\ u.fire <= 0 => Sound(f, n)
  BY <1>5, <1>7, ManFields, Durations
     DEF Sound, Fires, Loads, Swings, Paced, Wait, Timer
<1>9. /\ d \in Man /\ Sound(d, n) /\ d.active = s.active /\ d.ammo = s.ammo
      /\ d.clip = s.clip /\ d.inReload = s.inReload /\ d.busy = s.busy
      /\ d.fire = s.fire
      /\ d.pending => s.pending
      /\ d.pending /\ d.active = Gun => d.fire > 0
  BY <1>5, <1>6, <1>7, <1>8, ManFields DEF Timer
<1>10. /\ r \in Man /\ Sound(r, n) /\ r.active = d.active /\ r.pending = d.pending
       /\ r.ammo + r.clip = d.ammo + d.clip
       /\ d.inReload /\ d.busy <= 0 => ~r.inReload /\ r.clip = 1
       /\ ~d.inReload => r = d
  BY <1>9, CheckReloadSound
<1>11. s.pending => ~s.inReload /\ s.clip = 0
  BY DEF Sound, Fires
<1> HIDE DEF r
<1>12. ~r.inReload
  BY <1>9, <1>10
<1>13. r.pending /\ r.active = Gun => r.fire > 0
  <2>1. r.pending => ~s.inReload
    BY <1>9, <1>10, <1>11
  <2> QED
    BY <1>9, <1>10, <2>1
<1>14. Stock(r) = Stock(s) - (IF s.pending /\ ~r.pending THEN 1 ELSE 0)
  BY <1>9, <1>10, ManFields, Durations DEF Stock
<1>15. /\ s.inReload => r.clip = 1
       /\ s.pending => r.clip = 0 /\ r.fire = s.fire /\ r.busy = s.busy
  BY <1>9, <1>10, <1>11
<1> QED
  BY <1>9, <1>10, <1>12, <1>13, <1>14, <1>15 DEF r, d, u

LEMMA FrameSound ==
  ASSUME TypeOK, NEW s \in Man, NEW n \in 0 .. Shortest, Sound(s, n), s.busy <= 0,
         NEW in \in Inputs
  PROVE  LET t == ItemPostFrame(s, in)
         IN /\ t \in Man
            /\ ~s.pending /\ t.pending => n = Shortest /\ Sound(t, 0)
            /\ ~(~s.pending /\ t.pending) => Sound(t, n)
            /\ Stock(t) = Stock(s) - (IF s.pending /\ ~t.pending THEN 1 ELSE 0)
            /\ s.inReload => t.active = s.active
<1> DEFINE r == CheckReload(DelayedFire(Retrace(s, in)))
           a == Attack(r, in)
           t == Released(Sights(ReloadPressed(a, in), in), in)
           p == [r.next EXCEPT ![r.active] = WetPause]
           w == [r EXCEPT !.next = p]
           wet == under /\ "attack2" \in in.buttons /\ r.next2[r.active] <= 0
<1>1. /\ r \in Man /\ Sound(r, n) /\ ~r.inReload /\ r.active = s.active
      /\ Stock(r) = Stock(s) - (IF s.pending /\ ~r.pending THEN 1 ELSE 0)
      /\ r.pending => s.pending
      /\ r.pending /\ r.active = Gun => r.fire > 0
      /\ s.inReload => r.clip = 1
      /\ s.pending => r.clip = 0
  BY StartSound
<1>2. ItemPostFrame(s, in) = IF wet THEN w ELSE t
  BY DEF ItemPostFrame
<1> HIDE DEF r
<1>3. CASE wet
  <2>1. Ready(r)
    BY <1>1, <1>3, DueIsReady
  <2>2. /\ p \in [Weapons -> Timer]
        /\ \A v \in Weapons \ {r.active} : p[v] = r.next[v]
    BY <1>1, ManFields, Durations
  <2> HIDE DEF p
  <2>3. /\ w \in Man /\ w.next = p /\ w.next2 = r.next2 /\ w.active = r.active
        /\ w.ammo = r.ammo /\ w.clip = r.clip /\ w.inReload = r.inReload
        /\ w.pending = r.pending /\ w.fire = r.fire /\ w.holster = r.holster
        /\ w.swing = r.swing /\ w.last = r.last
    BY <1>1, <2>2 DEF Man
  <2> HIDE DEF w
  <2>4. Sound(w, n)
    BY <1>1, <2>1, <2>2, <2>3, Paused
  <2>5. Stock(w) = Stock(r)
    BY <2>3 DEF Stock
  <2>6. ItemPostFrame(s, in) = w
    BY <1>2, <1>3
  <2> QED
    BY <1>1, <2>3, <2>4, <2>5, <2>6
<1>4. CASE ~wet
  <2>1. Turns(r, a, n)
    BY <1>1, AttackTurns
  <2>2. in.buttons \cap {"attack", "attack2", "reload"} = {} => a = r
    BY DEF Attack
  <2> HIDE DEF a
  <2> DEFINE m == IF ~r.pending /\ a.pending THEN 0 ELSE n
  <2>3. /\ a \in Man /\ Sound(a, m) /\ ~a.inReload /\ Stock(a) = Stock(r)
        /\ ~r.pending /\ a.pending => r.clip = 1
        /\ r.pending => a.pending
        /\ a.active # r.active => r.clip = 0
        /\ m \in 0 .. Shortest
    BY <2>1, Durations DEF Turns
  <2> HIDE DEF m
  <2>4. /\ t \in Man /\ Sound(t, m) /\ t.pending = a.pending /\ Stock(t) = Stock(a)
        /\ t.active # a.active =>
             a.clip = 0 /\ in.buttons \cap {"attack", "attack2", "reload"} = {}
    BY <2>3, RestSound
  <2> HIDE DEF t
  <2>5. ~s.pending /\ t.pending => n = Shortest /\ m = 0
    <3> SUFFICES ASSUME ~s.pending, t.pending PROVE n = Shortest /\ m = 0
      OBVIOUS
    <3>1. ~r.pending /\ a.pending
      BY <1>1, <2>4
    <3>2. r.clip = 1
      BY <2>3, <3>1
    <3> QED
      BY <1>1, <3>1, <3>2 DEF m, Sound, Paced
  <2>6. ~(~s.pending /\ t.pending) => m = n
    <3> SUFFICES ASSUME ~(~s.pending /\ t.pending), ~r.pending, a.pending PROVE FALSE
      BY DEF m
    <3>1. s.pending
      BY <2>4
    <3>2. r.clip = 0 /\ r.clip = 1
      BY <1>1, <2>3, <3>1
    <3> QED
      BY <3>2
  <2>7. s.pending /\ ~t.pending <=> s.pending /\ ~r.pending
    <3>1. s.pending /\ ~r.pending => ~a.pending
      BY <1>1, <2>3
    <3> QED
      BY <2>3, <2>4, <3>1
  <2>8. Stock(t) = Stock(s) - (IF s.pending /\ ~t.pending THEN 1 ELSE 0)
    BY <1>1, <2>3, <2>4, <2>7
  <2>9. s.inReload => t.active = s.active
    <3> SUFFICES ASSUME s.inReload PROVE t.active = s.active
      OBVIOUS
    <3>1. r.clip = 1 /\ a.active = r.active /\ r.active = s.active
      BY <1>1, <2>3
    <3>2. ASSUME t.active # a.active PROVE FALSE
      BY <2>2, <2>4, <3>1, <3>2
    <3> QED
      BY <3>1, <3>2
  <2>10. ItemPostFrame(s, in) = t
    BY <1>2, <1>4
  <2> QED
    BY <2>4, <2>5, <2>6, <2>8, <2>9, <2>10
<1> QED
  BY <1>3, <1>4

-----------------------------------------------------------------------------
(* The steps of the specification.                                         *)

LEMMA NextState ==
  ASSUME TypeOK, kit' = kit, man' \in Man, since' \in 0 .. Shortest,
         under' \in BOOLEAN, Sound(man', since')
  PROVE  IInv'
<1>1. Sound(man, since)'
  BY DEF Sound, Fires, Loads, Swings, Paced, Melee
<1>2. TypeOK'
  BY DEF TypeOK
<1> QED
  BY <1>1, <1>2 DEF IInv

LEMMA WadeSound ==
  ASSUME IInv, Wade
  PROVE  IInv' /\ ~Shot /\ Stock(man') = Stock(man) - (IF man'.clip # man.clip THEN 1 ELSE 0)
         /\ man'.active = man.active /\ man'.pending = man.pending
<1> DEFINE w == [man EXCEPT !.clip = 0]
<1>1. man \in Man /\ since \in 0 .. Shortest /\ Sound(man, since) /\ kit \in Kits
      /\ under \in BOOLEAN
  BY DEF IInv, TypeOK
<1>2. /\ w \in Man /\ w.active = man.active /\ w.ammo = man.ammo /\ w.clip = 0
      /\ w.inReload = man.inReload /\ w.pending = man.pending /\ w.fire = man.fire
      /\ w.next = man.next /\ w.next2 = man.next2 /\ w.swing = man.swing
      /\ w.holster = man.holster /\ w.last = man.last /\ w.busy = man.busy
      /\ w.sighted = man.sighted
  BY <1>1, Durations DEF Man
<1>3. Sound(w, since)
  BY <1>1, <1>2 DEF Sound, Fires, Loads, Swings, Paced
<1>4. man' \in {man, w} /\ since' = since /\ kit' = kit /\ under' = ~under
  BY DEF Wade
<1> HIDE DEF w
<1>5. man' \in Man /\ Sound(man', since')
  BY <1>1, <1>2, <1>3, <1>4
<1>6. IInv'
  BY <1>1, <1>4, <1>5, NextState DEF IInv
<1>7. Stock(man') = Stock(man) - (IF man'.clip # man.clip THEN 1 ELSE 0)
  BY <1>1, <1>2, <1>4, ManFields, Durations DEF Stock
<1>8. man'.active = man.active /\ man'.pending = man.pending
  BY <1>2, <1>4
<1> QED
  BY <1>6, <1>7, <1>8 DEF Shot

LEMMA TickSound ==
  ASSUME IInv, Tick
  PROVE  IInv' /\ Stock(man') = Stock(man) /\ man'.active = man.active
         /\ man'.pending = man.pending
<1> DEFINE nx == [w \in Weapons |-> Elapse(man.next[w])]
           n2 == [w \in Weapons |-> Elapse(man.next2[w])]
           ho == [w \in Weapons |-> Elapse(man.holster[w])]
           sw == [w \in Weapons |-> Elapse(man.swing[w])]
           fi == Elapse(man.fire)
           un == Elapse(man.unsight)
           bu == Elapse(man.busy)
           t  == [man EXCEPT !.fire = fi, !.unsight = un, !.busy = bu, !.next = nx,
                             !.next2 = n2, !.holster = ho, !.swing = sw]
           n  == Sooner(since + 1, Shortest)
<1>1. man \in Man /\ since \in 0 .. Shortest /\ Sound(man, since) /\ kit \in Kits
      /\ under \in BOOLEAN
  BY DEF IInv, TypeOK
<1>2. \A d \in Timer : /\ Elapse(d) \in Timer
                       /\ d > 0 => Elapse(d) = d - 1
                       /\ d <= 0 => Elapse(d) = -1
  BY Durations DEF Elapse, Timer
<1>3. /\ nx \in [Weapons -> Timer] /\ n2 \in [Weapons -> Timer]
      /\ ho \in [Weapons -> Timer] /\ sw \in [Weapons -> Timer]
      /\ fi \in Timer /\ un \in Timer /\ bu \in Timer
  BY <1>1, <1>2, ManFields
<1>4. man' = t
  BY DEF Tick, t, nx, n2, ho, sw, fi, un, bu
<1>5. \A w \in Weapons : /\ nx[w] = Elapse(man.next[w]) /\ n2[w] = Elapse(man.next2[w])
                         /\ ho[w] = Elapse(man.holster[w])
                         /\ sw[w] = Elapse(man.swing[w])
  OBVIOUS
<1>6. fi = Elapse(man.fire) /\ bu = Elapse(man.busy)
  OBVIOUS
<1>7. since' = n /\ kit' = kit /\ under' = under
  BY DEF Tick
<1>8. n \in 0 .. Shortest /\ (n = since + 1 \/ n = Shortest) /\ n >= since
  BY <1>1, Durations DEF Sooner
<1> HIDE DEF nx, n2, ho, sw, fi, un, bu, n
<1>9. /\ t \in Man /\ t.next = nx /\ t.next2 = n2 /\ t.holster = ho /\ t.swing = sw
      /\ t.fire = fi /\ t.busy = bu /\ t.active = man.active /\ t.ammo = man.ammo
      /\ t.clip = man.clip /\ t.inReload = man.inReload /\ t.pending = man.pending
      /\ t.last = man.last /\ t.sighted = man.sighted
  BY <1>1, <1>3 DEF Man
<1> HIDE DEF t
<1>10. Gun \in Weapons
  BY DEF Weapons
<1>11. Fires(t)
  BY <1>1, <1>2, <1>3, <1>5, <1>6, <1>9, <1>10, ManFields DEF Sound, Fires, Timer
<1>12. Loads(t)
  BY <1>1, <1>2, <1>3, <1>5, <1>6, <1>9, <1>10, ManFields DEF Sound, Loads, Timer
<1>13. Swings(t)
  <2> SUFFICES ASSUME NEW w \in Weapons, sw[w] > 0
               PROVE  /\ sw[w] <= RetraceTime /\ Melee(w, man.last[w])
                      /\ nx[w] >= sw[w] /\ n2[w] >= sw[w]
    BY <1>9 DEF Swings
  <2>1. man.swing[w] > 0 /\ sw[w] = man.swing[w] - 1
    BY <1>1, <1>2, <1>5, ManFields DEF Timer
  <2>2. /\ man.swing[w] <= RetraceTime /\ Melee(w, man.last[w])
        /\ man.next[w] >= man.swing[w] /\ man.next2[w] >= man.swing[w]
    BY <1>1, <2>1 DEF Sound, Swings
  <2>3. nx[w] = man.next[w] - 1 /\ n2[w] = man.next2[w] - 1
    BY <1>1, <1>2, <1>5, <2>1, <2>2, ManFields DEF Timer
  <2> QED
    BY <1>1, <2>1, <2>2, <2>3, ManFields, Durations DEF Timer
<1>14. Paced(t, n)
  <2>1. t.clip = 1 => n = Shortest
    BY <1>1, <1>8, <1>9, Durations DEF Sound, Paced
  <2>2. n + (IF t.pending THEN Wait(t.fire) ELSE 0) >= FlintlockDelay
    BY <1>1, <1>2, <1>6, <1>8, <1>9, ManFields, Durations DEF Sound, Paced, Wait, Timer
  <2>3. t.inReload => n + Wait(t.next[Gun]) >= Shortest
    BY <1>1, <1>2, <1>5, <1>8, <1>9, <1>10, ManFields, Durations
       DEF Sound, Paced, Wait, Timer
  <2> QED
    BY <2>1, <2>2, <2>3 DEF Paced
<1>15. IInv'
  <2>1. Sound(man', since')
    BY <1>4, <1>7, <1>11, <1>12, <1>13, <1>14 DEF Sound
  <2>2. man' \in Man /\ since' \in 0 .. Shortest /\ kit' = kit /\ under' \in BOOLEAN
    BY <1>1, <1>4, <1>7, <1>8, <1>9
  <2> QED
    BY <2>1, <2>2, NextState DEF IInv
<1>16. Stock(man') = Stock(man) /\ man'.active = man.active /\ man'.pending = man.pending
  BY <1>4, <1>9 DEF Stock
<1> QED
  BY <1>15, <1>16

LEMMA SelectSound ==
  ASSUME IInv, SelectItem
  PROVE  /\ IInv' /\ man'.pending = man.pending /\ man'.clip = man.clip /\ under' = under
         /\ Stock(man') = Stock(man)
                          - (IF man.inReload /\ man'.active # man.active THEN 1 ELSE 0)
<1>1. man \in Man /\ since \in 0 .. Shortest /\ Sound(man, since) /\ kit \in Kits
      /\ under \in BOOLEAN /\ TypeOK
  BY DEF IInv, TypeOK
<1>2. PICK w \in Weapons \ {man.active} : man' = Switch(man, w)
  BY DEF SelectItem
<1>3. /\ man' \in Man /\ Sound(man', since)
      /\ man'.clip = man.clip /\ man'.pending = man.pending
      /\ man'.active = man.active => man'.ammo = man.ammo
      /\ man'.active # man.active =>
           man'.ammo = (IF man.inReload THEN man.ammo - 1 ELSE man.ammo)
  BY <1>1, <1>2, SwitchSound
<1>4. kit' = kit /\ under' = under /\ since' = since
  BY DEF SelectItem
<1>5. IInv'
  BY <1>1, <1>3, <1>4, NextState DEF IInv
<1>6. Stock(man') = Stock(man)
                    - (IF man.inReload /\ man'.active # man.active THEN 1 ELSE 0)
  BY <1>1, <1>3, ManFields, Durations DEF Stock
<1> QED
  BY <1>3, <1>4, <1>5, <1>6

LEMMA FrameStep ==
  ASSUME IInv, Frame
  PROVE  /\ IInv' /\ under' = under
         /\ Shot => since = Shortest
         /\ Stock(man') = Stock(man) - (IF man.pending /\ ~man'.pending THEN 1 ELSE 0)
         /\ man.inReload => man'.active = man.active
<1>1. man \in Man /\ since \in 0 .. Shortest /\ Sound(man, since) /\ kit \in Kits
      /\ under \in BOOLEAN /\ TypeOK /\ man.busy <= 0
  BY DEF IInv, TypeOK, Frame
<1>2. PICK in \in Inputs : man' = ItemPostFrame(man, in)
  BY DEF Frame
<1>3. /\ man' \in Man
      /\ ~man.pending /\ man'.pending => since = Shortest /\ Sound(man', 0)
      /\ ~(~man.pending /\ man'.pending) => Sound(man', since)
      /\ Stock(man') = Stock(man) - (IF man.pending /\ ~man'.pending THEN 1 ELSE 0)
      /\ man.inReload => man'.active = man.active
  BY <1>1, <1>2, FrameSound
<1>4. since' = (IF Shot THEN 0 ELSE since) /\ kit' = kit /\ under' = under
  BY DEF Frame
<1>5. since' \in 0 .. Shortest /\ Sound(man', since')
  <2>1. CASE Shot
    BY <1>3, <1>4, <2>1, Durations DEF Shot
  <2>2. CASE ~Shot
    BY <1>1, <1>3, <1>4, <2>2 DEF Shot
  <2> QED
    BY <2>1, <2>2
<1>6. IInv'
  BY <1>1, <1>3, <1>4, <1>5, NextState DEF IInv
<1> QED
  BY <1>3, <1>4, <1>6 DEF Shot

LEMMA InitSound == Init => IInv
<1> SUFFICES ASSUME Init PROVE IInv
  OBVIOUS
<1> DEFINE f == [w \in Weapons |-> IF w = Gun THEN DrawTime ELSE -1]
           e == [w \in Weapons |-> -1]
           l == [w \in Weapons |-> "primary"]
<1>1. /\ f \in [Weapons -> Timer] /\ e \in [Weapons -> Timer]
      /\ l \in [Weapons -> Attacks] /\ -1 \in Timer /\ DrawTime \in Timer
      /\ Balls \in 0 .. Balls /\ Gun \in Weapons
      /\ \A w \in Weapons : e[w] = -1
  BY Durations DEF Attacks, Weapons
<1>2. man = [active |-> Gun, ammo |-> Balls, clip |-> 1, inReload |-> FALSE,
             pending |-> FALSE, fire |-> -1, clicked |-> FALSE, sighted |-> FALSE,
             unsight |-> -1, busy |-> DrawTime, next |-> f, next2 |-> f,
             holster |-> e, swing |-> e, last |-> l]
  BY DEF Init
<1> HIDE DEF f, e, l
<1>3. man \in Man
  BY <1>1, <1>2 DEF Man
<1>4. Sound(man, Shortest)
  BY <1>1, <1>2, Durations DEF Sound, Fires, Loads, Swings, Paced
<1> QED
  <2>1. kit \in Kits /\ under \in BOOLEAN /\ since = Shortest
    BY DEF Init
  <2>2. since \in 0 .. Shortest
    BY <2>1, Durations
  <2>3. Sound(man, since)
    BY <1>4, <2>1
  <2> QED
    BY <1>3, <2>1, <2>2, <2>3 DEF IInv, TypeOK

LEMMA Inductive == IInv /\ [Next]_vars => IInv'
<1> SUFFICES ASSUME IInv, [Next]_vars PROVE IInv'
  OBVIOUS
<1>1. CASE Frame
  BY <1>1, FrameStep
<1>2. CASE SelectItem
  BY <1>2, SelectSound
<1>3. CASE Wade
  BY <1>3, WadeSound
<1>4. CASE Tick
  BY <1>4, TickSound
<1>5. CASE UNCHANGED vars
  <2>1. kit' = kit /\ man' = man /\ under' = under /\ since' = since
    BY <1>5 DEF vars
  <2>2. TypeOK /\ Sound(man', since')
    BY <2>1 DEF IInv
  <2> QED
    BY <2>1, <2>2, NextState DEF TypeOK
<1> QED
  BY <1>1, <1>2, <1>3, <1>4, <1>5 DEF Next

\* Every variable keeps its type: the soldier has never more balls than he was
\* given, and his gun holds one at most.
THEOREM TypeCorrect == Spec => []TypeOK
<1>1. IInv => TypeOK
  BY DEF IInv
<1> QED
  BY <1>1, InitSound, Inductive, PTL DEF Spec

\* The attack that a late shot or a repeated swing is told by is the one begun.
THEOREM AttackKept == Spec => []RightAttack
<1>1. IInv => RightAttack
  BY DEF IInv, Sound, Fires, Swings, RightAttack, Firearm
<1> QED
  BY <1>1, InitSound, Inductive, PTL DEF Spec

\* Every ball is accounted for.
THEOREM BallsAccounted == Spec => NoFreeBalls
<1> DEFINE Step == Stock(man') = Stock(man) - (IF Flew THEN 1 ELSE 0)
                                 - (IF Spoiled /\ man'.clip # man.clip THEN 1 ELSE 0)
                                 - (IF Spilled THEN 1 ELSE 0)
<1>1. ASSUME IInv, Next PROVE Step
  <2>0. Stock(man) \in Int
    BY <1>1, ManFields, Durations DEF IInv, TypeOK, Stock
  <2>1. CASE Frame
    <3>1. ~Spoiled /\ ~Spilled
      BY <1>1, <2>1, FrameStep DEF Spoiled, Spilled
    <3>2. Stock(man') = Stock(man) - (IF Flew THEN 1 ELSE 0)
      BY <1>1, <2>1, FrameStep DEF Flew
    <3> QED
      BY <2>0, <3>1, <3>2
  <2>2. CASE SelectItem
    <3>1. ~Spoiled /\ ~Flew
      BY <1>1, <2>2, SelectSound DEF Spoiled, Flew
    <3>2. Stock(man') = Stock(man) - (IF Spilled THEN 1 ELSE 0)
      BY <1>1, <2>2, SelectSound DEF Spilled
    <3> QED
      BY <2>0, <3>1, <3>2
  <2>3. CASE Wade
    <3>1. ~Flew /\ ~Spilled
      BY <1>1, <2>3, WadeSound DEF Flew, Spilled
    <3>2. Spoiled
      BY <1>1, <2>3 DEF IInv, TypeOK, Wade, Spoiled
    <3>3. Stock(man') = Stock(man) - (IF man'.clip # man.clip THEN 1 ELSE 0)
      BY <1>1, <2>3, WadeSound
    <3> QED
      BY <2>0, <3>1, <3>2, <3>3
  <2>4. CASE Tick
    <3>1. ~Flew /\ ~Spilled /\ Stock(man') = Stock(man)
      BY <1>1, <2>4, TickSound DEF Flew, Spilled
    <3>2. ~Spoiled
      BY <2>4 DEF Tick, Spoiled
    <3> QED
      BY <2>0, <3>1, <3>2
  <2> QED
    BY <1>1, <2>1, <2>2, <2>3, <2>4 DEF Next
<1>2. IInv /\ [Next]_vars => [Step]_vars
  BY <1>1
<1> QED
  BY <1>2, InitSound, Inductive, PTL DEF Spec, NoFreeBalls

\* A whole reload lies between two shots.
THEOREM ShotsArePaced == Spec => SlowToLoad
<1>1. ASSUME IInv, Next PROVE Shot => since = Shortest
  <2>1. CASE Frame
    BY <1>1, <2>1, FrameStep
  <2>2. CASE SelectItem
    BY <1>1, <2>2, SelectSound DEF Shot
  <2>3. CASE Wade
    BY <1>1, <2>3, WadeSound
  <2>4. CASE Tick
    BY <1>1, <2>4, TickSound DEF Shot
  <2> QED
    BY <1>1, <2>1, <2>2, <2>3, <2>4 DEF Next
<1>2. IInv /\ [Next]_vars => [Shot => since = Shortest]_vars
  BY <1>1
<1> QED
  BY <1>2, InitSound, Inductive, PTL DEF Spec, SlowToLoad

-----------------------------------------------------------------------------
(* Reloads and shots come to an end.                                       *)
(*                                                                         *)
(* While a reload or a shot is under way, its timers are left alone: only  *)
(* Tick moves them, so that a clock which goes on reaches the time at      *)
(* which the next frame ends it.                                           *)

\* A clock, which moves with the ticks and at no other steps.
VARIABLE now

Clock == now = 0 /\ [][Tick /\ now' = now + 1]_now

\* Whatever the time, more of it will pass.
TimePasses == [](\A d \in Nat : <>(now > d))

Loading == man.inReload
Firing == man.pending /\ man.active = Gun

\* The next frame ends what is under way.
Due == man.busy <= 0 /\ (Loading \/ (Firing /\ man.fire <= 0))

\* The client does not stop sending commands while one is due.  It follows from
\* the weak fairness of Frame, which is enabled and changes something then.
CommandsKeepComing == []<>(~Due) \/ []<><<Frame>>_vars

WaitsUntil(t, d) == t <= 0 \/ t + now <= d
DueBy(d) == WaitsUntil(man.busy, d) /\ WaitsUntil(man.fire, d)

\* An attack leaves a loaded gun loaded, or with a shot under way.
LEMMA DoAttackSpares ==
  ASSUME NEW s \in Man, s.clip = 1, NEW a \in Attacks, NEW in \in Inputs
  PROVE  LET t == DoAttack(s, a, in) IN t.pending \/ t.clip = 1
<1> DEFINE l == [s.last EXCEPT ![s.active] = a]
           t == [s EXCEPT !.last = l]
           x == IF in.hit THEN 0 ELSE RetraceTime
           u == AttackAfter(t, AttackRate)
           g == [u.swing EXCEPT ![u.active] = x]
<1>1. l \in [Weapons -> Attacks]
  BY ManFields
<1>2. t = [s EXCEPT !.last[s.active] = a]
  OBVIOUS
<1> HIDE DEF l
<1>3. t \in Man /\ t.clip = 1 /\ t.active = s.active
  BY <1>1 DEF Man
<1> HIDE DEF t
<1>4. /\ u \in Man /\ u.clip = 1 /\ u.active = s.active
      /\ AttackAfter(t, WetPause).clip = 1
  BY <1>3, AttackAfterFields, Durations
<1>5. Swing(t, in.hit) = [u EXCEPT !.swing = g]
  <2>1. u.active = t.active
    BY <1>3, <1>4
  <2> QED BY <2>1 DEF Swing
<1> HIDE DEF u, g
<1>6. Swing(t, in.hit).clip = 1
  BY <1>4, <1>5 DEF Man
<1>7. Fire(t).pending \/ Fire(t).clip = 1
  <2>1. under => Fire(t).clip = 1
    BY <1>4 DEF Fire
  <2>2. ~under => Fire(t).pending = TRUE
    BY <1>4 DEF Fire, Man, u
  <2> QED BY <2>1, <2>2
<1>8. \/ DoAttack(s, a, in) = s \/ DoAttack(s, a, in) = t
      \/ DoAttack(s, a, in) = Swing(t, in.hit) \/ DoAttack(s, a, in) = Fire(t)
  BY <1>2 DEF DoAttack
<1> QED BY <1>3, <1>6, <1>7, <1>8

LEMMA AttackSpares ==
  ASSUME NEW s \in Man, s.clip = 1, NEW in \in Inputs
  PROVE  Attack(s, in).pending \/ Attack(s, in).clip = 1
<1>1. \/ Attack(s, in) = s
      \/ Attack(s, in) = DoAttack(s, "primary", in)
      \/ Attack(s, in) = DoAttack(s, "secondary", in)
  BY DEF Attack, SecondaryAttack, PrimaryAttack
<1>2. "primary" \in Attacks /\ "secondary" \in Attacks
  BY DEF Attacks
<1> QED BY <1>1, <1>2, DoAttackSpares

\* A frame that gets through to the gun ends its reload, and begins no other.
LEMMA FrameEndsReload ==
  ASSUME TypeOK, NEW s \in Man, NEW n \in 0 .. Shortest, Sound(s, n), s.busy <= 0,
         NEW in \in Inputs, s.inReload
  PROVE  ~ItemPostFrame(s, in).inReload
<1> DEFINE r == CheckReload(DelayedFire(Retrace(s, in)))
           a == Attack(r, in)
           v == Sights(a, in)
           w == [r EXCEPT !.next[r.active] = WetPause]
           wet == under /\ "attack2" \in in.buttons /\ r.next2[r.active] <= 0
           Calm(t) == /\ t \in Man /\ ~t.inReload
                      /\ \E m \in 0 .. Shortest : Sound(t, m)
<1>1. /\ r \in Man /\ Sound(r, n) /\ ~r.inReload /\ r.clip = 1
      /\ r.pending /\ r.active = Gun => r.fire > 0
  BY StartSound
<1>2. ItemPostFrame(s, in) =
        IF wet THEN w ELSE Released(Sights(ReloadPressed(a, in), in), in)
  BY DEF ItemPostFrame
<1> HIDE DEF r
<1>3. CASE wet
  <2>1. ~w.inReload
    BY <1>1 DEF Man
  <2> QED BY <1>2, <1>3, <2>1
<1>4. CASE ~wet
  <2>1. Turns(r, a, n)
    BY <1>1, AttackTurns
  <2>2. a.pending \/ a.clip = 1
    BY <1>1, AttackSpares
  <2> HIDE DEF a
  <2>3. Calm(a)
    BY <2>1, Durations DEF Turns
  <2>4. ReloadPressed(a, in) = a
    BY <2>2 DEF ReloadPressed, Reload
  <2>5. Calm(v)
    <3>1. PICK m \in 0 .. Shortest : Sound(a, m)
      BY <2>3
    <3>2. Calm(DisableIronsights(a))
      BY <2>3, <3>1, DisableFields, DisableSound
    <3>3. Calm(EnableIronsights(a))
      BY <2>3, <3>1, EnableSound
    <3> QED BY <2>3, <3>2, <3>3 DEF Sights
  <2> HIDE DEF v
  <2>6. PICK m \in 0 .. Shortest : Sound(v, m)
    BY <2>5
  <2>7. Quiet(v, ReloadOrSwitchWeapons(v), m)
    BY <2>5, <2>6, ReloadOrSwitchQuiet
  <2>8. ~Released(v, in).inReload
    BY <2>5, <2>7 DEF Released, Quiet
  <2> QED BY <1>2, <1>4, <2>4, <2>8 DEF v
<1> QED BY <1>3, <1>4

\* A frame fires the shot that is due, and lets one that is not wait.
LEMMA FrameFires ==
  ASSUME TypeOK, NEW s \in Man, NEW n \in 0 .. Shortest, Sound(s, n), s.busy <= 0,
         NEW in \in Inputs, s.pending, s.active = Gun
  PROVE  LET t == ItemPostFrame(s, in)
         IN  t.pending => s.fire > 0 /\ t.fire = s.fire /\ t.busy = s.busy
<1> DEFINE r == CheckReload(DelayedFire(Retrace(s, in)))
           a == Attack(r, in)
           w == [r EXCEPT !.next[r.active] = WetPause]
           wet == under /\ "attack2" \in in.buttons /\ r.next2[r.active] <= 0
           v == Sights(r, in)
           c == [v EXCEPT !.clicked = FALSE]
<1>1. /\ r \in Man /\ Sound(r, n) /\ ~r.inReload /\ r.active = Gun
      /\ r.pending => r.fire > 0
      /\ r.clip = 0 /\ r.fire = s.fire /\ r.busy = s.busy
  BY StartSound
<1>2. ItemPostFrame(s, in) =
        IF wet THEN w ELSE Released(Sights(ReloadPressed(a, in), in), in)
  BY DEF ItemPostFrame
<1> HIDE DEF r
<1>3. CASE ~r.pending
  <2>1. CASE wet
    <3>1. ~w.pending
      BY <1>1, <1>3 DEF Man
    <3> QED BY <1>2, <2>1, <3>1
  <2>2. CASE ~wet
    <3>1. Turns(r, a, n)
      BY <1>1, AttackTurns
    <3> HIDE DEF a
    <3>2. a \in Man /\ Sound(a, n) /\ ~a.inReload /\ ~a.pending
      BY <1>1, <1>3, <3>1 DEF Turns
    <3>3. Released(Sights(ReloadPressed(a, in), in), in).pending = a.pending
      BY <3>2, RestSound
    <3> QED BY <1>2, <2>2, <3>2, <3>3
  <2> QED BY <2>1, <2>2
<1>4. CASE r.pending
  <2>1. r.next[Gun] > 0 /\ r.next2[Gun] > 0
    BY <1>1, <1>4, ManFields DEF Sound, Fires, Weapons, Timer
  <2>2. ~(r.next[Gun] <= 0) /\ ~(r.next2[Gun] <= 0) /\ ~(r.next[Gun] < 0)
    BY <1>1, <2>1, ManFields DEF Weapons, Timer
  <2>3. ~wet /\ a = r /\ ReloadPressed(r, in) = r
    BY <1>1, <1>4, <2>2 DEF Attack, ReloadPressed, Reload
  <2>4. v = r \/ v = DisableIronsights(r)
    BY <2>2 DEF Sights
  <2> HIDE DEF v
  <2>5. /\ v \in Man /\ v.fire = r.fire /\ v.busy = r.busy
        /\ v.next[Gun] \in {r.next[Gun], Later(r.next[Gun], 0)}
    <3>1. LET d == DisableIronsights(r)
          IN /\ d \in Man /\ d.fire = r.fire /\ d.busy = r.busy
             /\ d.next[Gun] \in {r.next[Gun], Later(r.next[Gun], 0)}
      BY <1>1, DisableFields DEF Weapons
    <3> QED BY <1>1, <2>4, <3>1
  <2>6. ~(v.next[Gun] < 0)
    BY <1>1, <2>1, <2>5, ManFields DEF Later, Weapons, Timer
  <2>7. c.fire = v.fire /\ c.busy = v.busy /\ c.active = v.active
    BY <2>5 DEF Man
  <2>8. ReloadOrSwitchWeapons(v) = c
    BY <2>6, <2>7 DEF ReloadOrSwitchWeapons
  <2> HIDE DEF c
  <2>9. Released(v, in) = v \/ Released(v, in) = c
    BY <2>8 DEF Released
  <2>10. ItemPostFrame(s, in) = Released(v, in)
    BY <1>2, <2>3 DEF v
  <2> QED BY <1>1, <1>4, <2>5, <2>7, <2>9, <2>10
<1> QED BY <1>3, <1>4

\* Whoever keeps his gun in spite of a change of weapons waits on as before.
LEMMA SwitchWaits ==
  ASSUME TypeOK, NEW s \in Man, NEW n \in 0 .. Shortest, Sound(s, n), s.active = Gun
  PROVE  LET t == Switch(s, Blade)
         IN  t.inReload \/ t.active = Gun => t.fire = s.fire /\ t.busy = s.busy
<1> DEFINE o == [s.holster EXCEPT ![s.active] = HolsterTime]
           h == [s EXCEPT !.holster = o]
           down == DisableIronsights(h)
<1>1. o \in [Weapons -> Timer]
  BY ManFields, Durations
<1> HIDE DEF o
<1>2. h \in Man /\ h.fire = s.fire /\ h.busy = s.busy
  BY <1>1 DEF Man
<1>3. h = [s EXCEPT !.holster[s.active] = HolsterTime]
  BY DEF o
<1> HIDE DEF h
<1>4. /\ down \in Man /\ down.fire = s.fire /\ down.busy = s.busy
      /\ down.inReload = h.inReload /\ down.active = h.active
  BY <1>2, DisableFields
<1>5. h.inReload = s.inReload /\ h.active = s.active
  BY <1>1 DEF h, Man
<1>6. CASE s.holster[s.active] > 0 \/ ~HasAnyAmmo(s, Blade)
  BY <1>6 DEF Switch
<1>7. CASE ~(s.holster[s.active] > 0 \/ ~HasAnyAmmo(s, Blade)) /\ Refuses(s)
  <2>1. Switch(s, Blade) = Holster(s)
    BY <1>7 DEF Switch
  <2>2. Holster(s) = down
    BY <1>3, <1>4, <1>5, <1>7 DEF Holster, Refuses
  <2> QED BY <1>4, <2>1, <2>2
<1>8. CASE ~(s.holster[s.active] > 0 \/ ~HasAnyAmmo(s, Blade)) /\ ~Refuses(s)
  <2> DEFINE x == Holster(s)
  <2>1. Switch(s, Blade) = Deploy(x, Blade)
    BY <1>8 DEF Switch
  <2>2. s.holster[s.active] <= 0
    BY <1>8, ManFields DEF Weapons, Timer
  <2>3. /\ x \in Man /\ Sound(x, n) /\ (x.pending => x.fire <= 0)
        /\ x.inReload = (s.inReload /\ kit.steady)
    BY <2>2, HolsterSound
  <2>4. ~x.inReload
    BY <1>8, <2>3 DEF Refuses
  <2> HIDE DEF x
  <2>5. Deploy(x, Blade).active = Blade /\ Deploy(x, Blade).inReload = FALSE
    BY <2>3, <2>4, DeploySound DEF Weapons
  <2> QED BY <2>1, <2>5 DEF Gun, Blade
<1> QED BY <1>6, <1>7, <1>8

\* Only ticks move the timers of what goes on.
LEMMA WaitsAsBefore ==
  ASSUME IInv, [Next]_vars, (Loading /\ Loading') \/ (Firing /\ Firing')
  PROVE  IF Tick THEN man'.busy = Elapse(man.busy) /\ man'.fire = Elapse(man.fire)
                 ELSE man'.busy = man.busy /\ man'.fire = man.fire
<1>1. /\ man \in Man /\ since \in 0 .. Shortest /\ Sound(man, since) /\ TypeOK
      /\ man.active = Gun
  BY DEF IInv, TypeOK, Sound, Loads, Loading, Firing
<1>2. ASSUME Frame PROVE man'.busy = man.busy /\ man'.fire = man.fire
  <2>1. PICK in \in Inputs : man.busy <= 0 /\ man' = ItemPostFrame(man, in)
    BY <1>2 DEF Frame
  <2>2. ~(Loading /\ Loading')
    BY <1>1, <2>1, FrameEndsReload DEF Loading
  <2>3. man.pending /\ man'.pending
    BY <2>2 DEF Firing
  <2> QED BY <1>1, <2>1, <2>3, FrameFires
<1>3. ASSUME SelectItem PROVE man'.busy = man.busy /\ man'.fire = man.fire
  <2>1. man' = Switch(man, Blade)
    BY <1>1, <1>3 DEF SelectItem, Weapons
  <2>2. man'.inReload \/ man'.active = Gun
    BY DEF Loading, Firing
  <2> QED BY <1>1, <2>1, <2>2, SwitchWaits
<1>4. ASSUME Wade PROVE man'.busy = man.busy /\ man'.fire = man.fire
  BY <1>1, <1>4 DEF Wade, Man
<1>5. ASSUME Tick PROVE man'.busy = Elapse(man.busy) /\ man'.fire = Elapse(man.fire)
  BY <1>1, <1>5 DEF Tick, Man
<1>6. UNCHANGED vars => man'.busy = man.busy /\ man'.fire = man.fire
  BY DEF vars
<1> QED BY <1>2, <1>3, <1>4, <1>5, <1>6 DEF Next

LEMMA StillDue ==
  ASSUME NEW d \in Nat
  PROVE  /\ IInv /\ now \in Nat /\ [Next]_vars /\ [Tick /\ now' = now + 1]_now
         /\ (Loading /\ Loading') \/ (Firing /\ Firing')
         /\ DueBy(d)
         => DueBy(d)'
<1> SUFFICES ASSUME IInv, now \in Nat, [Next]_vars, [Tick /\ now' = now + 1]_now,
                    (Loading /\ Loading') \/ (Firing /\ Firing'), DueBy(d)
             PROVE  DueBy(d)'
  OBVIOUS
<1>1. man.busy \in Int /\ man.fire \in Int
  BY ManFields, Durations DEF IInv, TypeOK, Timer
<1>2. CASE Tick
  <2>1. man'.busy = Elapse(man.busy) /\ man'.fire = Elapse(man.fire)
    BY <1>2, WaitsAsBefore
  <2>2. now' \in {now, now + 1}
    OBVIOUS
  <2> QED BY <1>1, <2>1, <2>2 DEF DueBy, WaitsUntil, Elapse
<1>3. CASE ~Tick
  <2>1. man'.busy = man.busy /\ man'.fire = man.fire
    BY <1>3, WaitsAsBefore
  <2> QED BY <1>3, <2>1 DEF DueBy, WaitsUntil
<1> QED BY <1>2, <1>3

LEMMA SomeTime ==
  ASSUME IInv, now \in Nat
  PROVE  \E d \in Nat : DueBy(d)
<1>1. man.busy \in -1 .. Longest /\ man.fire \in -1 .. Longest /\ Longest \in Nat
  BY ManFields, Durations DEF IInv, TypeOK, Timer
<1>2. DueBy(now + Longest) /\ now + Longest \in Nat
  BY <1>1 DEF DueBy, WaitsUntil
<1> QED BY <1>2

\* Reloads and shots that are due do not outlive a frame.
LEMMA FrameEnds ==
  ASSUME IInv, Frame
  PROVE  (Loading => ~Loading') /\ (Firing => ~Firing' \/ man.fire > 0)
<1>1. /\ man \in Man /\ since \in 0 .. Shortest /\ Sound(man, since) /\ TypeOK
  BY DEF IInv, TypeOK
<1>2. PICK in \in Inputs : man.busy <= 0 /\ man' = ItemPostFrame(man, in)
  BY DEF Frame
<1>3. Loading => ~Loading'
  BY <1>1, <1>2, FrameEndsReload DEF Loading
<1>4. Firing => ~Firing' \/ man.fire > 0
  BY <1>1, <1>2, FrameFires DEF Firing
<1> QED BY <1>3, <1>4

LEMMA AlwaysSound == Spec => []IInv
  BY InitSound, Inductive, PTL DEF Spec

LEMMA ClockTyped == Clock => [](now \in Nat)
<1>1. now = 0 => now \in Nat
  OBVIOUS
<1>2. now \in Nat /\ [Tick /\ now' = now + 1]_now => (now \in Nat)'
  OBVIOUS
<1> QED BY <1>1, <1>2, PTL DEF Clock

\* What is so all the time.
Going ==
  /\ [](IInv /\ now \in Nat) /\ [][Next]_vars /\ [][Tick /\ now' = now + 1]_now
  /\ CommandsKeepComing

LEMMA ReloadDueEnds ==
  ASSUME NEW d \in Nat
  PROVE  Going /\ <>(now > d) /\ Loading /\ DueBy(d) => <>(~Loading)
<1>1. /\ IInv /\ now \in Nat /\ [Next]_vars /\ [Tick /\ now' = now + 1]_now
      /\ Loading /\ Loading' /\ DueBy(d)
      => DueBy(d)'
  BY StillDue
<1>2. IInv /\ now \in Nat /\ Loading /\ DueBy(d) /\ now > d => Due
  BY ManFields, Durations DEF IInv, TypeOK, Timer, Due, DueBy, WaitsUntil
<1>3. now \in Nat /\ now > d /\ [Tick /\ now' = now + 1]_now => (now > d)'
  OBVIOUS
<1>4. IInv /\ <<Frame>>_vars /\ Loading => ~Loading'
  BY FrameEnds
<1> QED BY <1>1, <1>2, <1>3, <1>4, PTL DEF Going, CommandsKeepComing

LEMMA ShotDueFires ==
  ASSUME NEW d \in Nat
  PROVE  Going /\ <>(now > d) /\ Firing /\ DueBy(d) => <>(~Firing)
<1>1. /\ IInv /\ now \in Nat /\ [Next]_vars /\ [Tick /\ now' = now + 1]_now
      /\ Firing /\ Firing' /\ DueBy(d)
      => DueBy(d)'
  BY StillDue
<1>2. IInv /\ now \in Nat /\ Firing /\ DueBy(d) /\ now > d => Due /\ ~(man.fire > 0)
  BY ManFields, Durations DEF IInv, TypeOK, Timer, Due, DueBy, WaitsUntil
<1>3. now \in Nat /\ now > d /\ [Tick /\ now' = now + 1]_now => (now > d)'
  OBVIOUS
<1>4. IInv /\ <<Frame>>_vars /\ Firing => ~Firing' \/ man.fire > 0
  BY FrameEnds
<1> QED BY <1>1, <1>2, <1>3, <1>4, PTL DEF Going, CommandsKeepComing

\* A reload ends and a shot flies or is put away, whatever the soldier presses,
\* wherever he wades and whichever weapon he takes out.
THEOREM NothingHangsForLong ==
  Spec /\ Clock /\ TimePasses /\ CommandsKeepComing => NothingHangs
<1>1. Going /\ (\A d \in Nat : <>(now > d)) /\ Loading /\ (\E d \in Nat : DueBy(d))
        => <>(~Loading)
  BY ReloadDueEnds
<1>2. Going /\ (\A d \in Nat : <>(now > d)) /\ Firing /\ (\E d \in Nat : DueBy(d))
        => <>(~Firing)
  BY ShotDueFires
<1>3. IInv /\ now \in Nat => \E d \in Nat : DueBy(d)
  BY SomeTime
<1>4. IInv /\ ~Firing => ~man.pending \/ man.active = Blade
  BY ManFields DEF IInv, TypeOK, Firing, Weapons
<1> QED BY <1>1, <1>2, <1>3, <1>4, AlwaysSound, ClockTyped, PTL
        DEF Spec, Clock, TimePasses, Going, CommandsKeepComing, NothingHangs, Loading, Firing
=============================================================================
