---------------------------- MODULE PlayersProofs ----------------------------
(***************************************************************************)
(* Theorems about Players, for any number of players, points and limits.   *)
(*                                                                         *)
(* Players works on one record, so the lemmas are about records: Sound(s)  *)
(* is the inductive invariant as a predicate of a record, and each lemma   *)
(* shows that one operator keeps it.  ArmedByOwnSide alone is not          *)
(* inductive: a player on no side who is alive and whose suicide would be  *)
(* refused would take a side alive and without weapons.  Calm says that    *)
(* there is no such player.                                                *)
(***************************************************************************)
EXTENDS Players, FiniteSetTheorems, TLAPS

Armed(s) ==
  \A p \in Clients : s.side[p] \in Playing /\ s.alive[p] => s.arms[p] = s.side[p]

Calm(s) ==
  \A p \in Clients :
    /\ s.side[p] = Gone => ~s.hasty[p]
    /\ s.side[p] = Unassigned /\ s.alive[p] => ~s.hasty[p]

Sound(s) == s \in PlayersRecord /\ Armed(s) /\ Calm(s)

-----------------------------------------------------------------------------
(* Dying and changing sides.                                               *)

LEMMA DieTyped ==
  ASSUME NEW s \in PlayersRecord, NEW p \in Clients
  PROVE  /\ Die(s, p) \in PlayersRecord
         /\ Die(s, p).side = s.side /\ Die(s, p).hasty = s.hasty
         /\ Die(s, p).place = s.place /\ Die(s, p).next = s.next
         /\ Die(s, p).alive = [s.alive EXCEPT ![p] = FALSE]
         /\ Die(s, p).arms = [s.arms EXCEPT ![p] = Nothing]
  BY DEF Die, PlayersRecord

LEMMA SuicideTyped ==
  ASSUME NEW s \in PlayersRecord, NEW p \in Clients
  PROVE  /\ CommitSuicide(s, p) \in PlayersRecord
         /\ CommitSuicide(s, p).side = s.side
         /\ CommitSuicide(s, p).place = s.place
         /\ CommitSuicide(s, p).next = s.next
         /\ \A q \in Clients \ {p} :
              /\ CommitSuicide(s, p).alive[q] = s.alive[q]
              /\ CommitSuicide(s, p).arms[q] = s.arms[q]
              /\ CommitSuicide(s, p).hasty[q] = s.hasty[q]
         /\ s.hasty[p] \/ ~CommitSuicide(s, p).alive[p]
         /\ CommitSuicide(s, p).alive[p] =>
              s.alive[p] /\ CommitSuicide(s, p).arms[p] = s.arms[p]
                         /\ CommitSuicide(s, p).hasty[p] = s.hasty[p]
<1>1. CASE s.alive[p] /\ ~s.hasty[p]
  <2> DEFINE d == Die(s, p)
  <2>1. CommitSuicide(s, p) = [d EXCEPT !.hasty[p] = TRUE]
    BY <1>1 DEF CommitSuicide
  <2>2. d \in PlayersRecord /\ d.side = s.side /\ d.hasty = s.hasty
        /\ d.place = s.place /\ d.next = s.next
        /\ d.alive = [s.alive EXCEPT ![p] = FALSE]
        /\ d.arms = [s.arms EXCEPT ![p] = Nothing]
    BY DieTyped
  <2> HIDE DEF d
  <2> DEFINE c == [d EXCEPT !.hasty[p] = TRUE]
  <2>3. c \in PlayersRecord /\ c.side = d.side /\ c.place = d.place
        /\ c.next = d.next /\ c.alive = d.alive /\ c.arms = d.arms
        /\ c.hasty = [d.hasty EXCEPT ![p] = TRUE]
    BY <2>2 DEF PlayersRecord
  <2>4. CommitSuicide(s, p) = c
    BY <2>1
  <2> HIDE DEF c
  <2>5. /\ s.alive \in [Clients -> BOOLEAN] /\ s.hasty \in [Clients -> BOOLEAN]
        /\ s.arms \in [Clients -> {Americans, British, Nothing}]
    BY DEF PlayersRecord
  <2>6. \A q \in Clients \ {p} : /\ c.alive[q] = s.alive[q] /\ c.arms[q] = s.arms[q]
                                 /\ c.hasty[q] = s.hasty[q]
    BY <2>2, <2>3, <2>5
  <2>7. ~c.alive[p]
    BY <2>2, <2>3, <2>5
  <2>8. QED BY <2>2, <2>3, <2>4, <2>6, <2>7
<1>2. CASE ~(s.alive[p] /\ ~s.hasty[p])
  BY <1>2 DEF CommitSuicide, PlayersRecord
<1> QED BY <1>1, <1>2

LEMMA ChangeTyped ==
  ASSUME NEW s \in PlayersRecord, NEW p \in Clients, NEW t \in Sides
  PROVE  /\ ChangeTeam(s, p, t) \in PlayersRecord
         /\ ChangeTeam(s, p, t).side = [s.side EXCEPT ![p] = t]
         /\ ChangeTeam(s, p, t).place = s.place
         /\ ChangeTeam(s, p, t).next = s.next
         /\ \A q \in Clients \ {p} :
              /\ ChangeTeam(s, p, t).alive[q] = s.alive[q]
              /\ ChangeTeam(s, p, t).arms[q] = s.arms[q]
              /\ ChangeTeam(s, p, t).hasty[q] = s.hasty[q]
         /\ s.side[p] \notin {t, Unassigned} => ~ChangeTeam(s, p, t).alive[p]
         /\ ~s.alive[p] => ~ChangeTeam(s, p, t).alive[p]
<1> DEFINE m == [s EXCEPT !.side[p] = t]
           c == [m EXCEPT !.hasty[p] = FALSE]
<1>1. /\ m \in PlayersRecord /\ m.side = [s.side EXCEPT ![p] = t]
      /\ m.alive = s.alive /\ m.hasty = s.hasty /\ m.arms = s.arms
      /\ m.place = s.place /\ m.next = s.next
  BY DEF PlayersRecord
<1>2. ChangeTeam(s, p, t) = IF s.side[p] \in {t, Unassigned} THEN m ELSE CommitSuicide(c, p)
  BY DEF ChangeTeam
<1> HIDE DEF m
<1>3. /\ c \in PlayersRecord /\ c.side = m.side /\ c.alive = m.alive
      /\ c.arms = m.arms /\ c.place = m.place /\ c.next = m.next
      /\ c.hasty = [m.hasty EXCEPT ![p] = FALSE]
  BY <1>1 DEF PlayersRecord
<1> HIDE DEF c
<1>4. /\ s.alive \in [Clients -> BOOLEAN] /\ s.hasty \in [Clients -> BOOLEAN]
      /\ s.side \in [Clients -> Sides]
  BY DEF PlayersRecord
<1>5. CASE s.side[p] \in {t, Unassigned}
  BY <1>1, <1>2, <1>5
<1>6. CASE s.side[p] \notin {t, Unassigned}
  <2> DEFINE d == CommitSuicide(c, p)
  <2>1. ChangeTeam(s, p, t) = d
    BY <1>2, <1>6
  <2>2. /\ d \in PlayersRecord /\ d.side = c.side /\ d.place = c.place /\ d.next = c.next
        /\ \A q \in Clients \ {p} : /\ d.alive[q] = c.alive[q] /\ d.arms[q] = c.arms[q]
                                   /\ d.hasty[q] = c.hasty[q]
        /\ c.hasty[p] \/ ~d.alive[p]
    BY <1>3, SuicideTyped
  <2>3. ~c.hasty[p] /\ \A q \in Clients \ {p} : c.hasty[q] = s.hasty[q]
    BY <1>1, <1>3, <1>4
  <2> HIDE DEF d
  <2>4. QED BY <1>1, <1>3, <1>6, <2>1, <2>2, <2>3
<1> QED BY <1>5, <1>6

\* Whoever takes a side by his own choice is dead as he takes it.
LEMMA JoinIsFatal ==
  ASSUME NEW s, Sound(s), NEW p \in Clients, NEW t \in Playing \cup {Spectators},
         s.side[p] \notin {t, Gone}
  PROVE  /\ Sound(ChangeTeam(CommitSuicide(s, p), p, t))
         /\ ChangeTeam(CommitSuicide(s, p), p, t).side = [s.side EXCEPT ![p] = t]
         /\ ChangeTeam(CommitSuicide(s, p), p, t).place = s.place
         /\ ChangeTeam(CommitSuicide(s, p), p, t).next = s.next
<1> DEFINE d == CommitSuicide(s, p)
           c == ChangeTeam(d, p, t)
<1>1. s \in PlayersRecord /\ Armed(s) /\ Calm(s) /\ t \in Sides
  BY DEF Sound, Sides, Playing
<1>2. /\ d \in PlayersRecord /\ d.side = s.side /\ d.place = s.place /\ d.next = s.next
      /\ \A q \in Clients \ {p} : /\ d.alive[q] = s.alive[q] /\ d.arms[q] = s.arms[q]
                                 /\ d.hasty[q] = s.hasty[q]
      /\ s.hasty[p] \/ ~d.alive[p]
      /\ d.alive[p] => s.alive[p]
  BY <1>1, SuicideTyped
<1> HIDE DEF d
<1>3. /\ c \in PlayersRecord /\ c.side = [d.side EXCEPT ![p] = t] /\ c.place = d.place
      /\ c.next = d.next
      /\ \A q \in Clients \ {p} : /\ c.alive[q] = d.alive[q] /\ c.arms[q] = d.arms[q]
                                 /\ c.hasty[q] = d.hasty[q]
      /\ d.side[p] \notin {t, Unassigned} => ~c.alive[p]
      /\ ~d.alive[p] => ~c.alive[p]
  BY <1>1, <1>2, ChangeTyped
<1> HIDE DEF c
<1>4. ~c.alive[p]
  BY <1>1, <1>2, <1>3 DEF Calm
<1>5. /\ c.side[p] = t
      /\ \A q \in Clients \ {p} : /\ c.side[q] = s.side[q] /\ c.alive[q] = s.alive[q]
                                 /\ c.arms[q] = s.arms[q] /\ c.hasty[q] = s.hasty[q]
  BY <1>1, <1>2, <1>3 DEF PlayersRecord
<1>6. Armed(c)
  BY <1>1, <1>4, <1>5 DEF Armed
<1>7. Calm(c)
  BY <1>1, <1>4, <1>5 DEF Calm, Playing, Spectators, Gone, Unassigned, Americans, British
<1> QED BY <1>2, <1>3, <1>6, <1>7 DEF Sound, c, d

-----------------------------------------------------------------------------
(* Spawning.                                                               *)

LEMMA SpotsTyped ==
  ASSUME NEW s, NEW group \in SUBSET Clients, NEW spot \in Spots(s, group)
  PROVE  spot \in [group -> Places]
  BY DEF Spots, Places

LEMMA SpawnedTyped ==
  ASSUME NEW s \in PlayersRecord, NEW group \in SUBSET Fighters(s),
         NEW spot \in [group -> Places]
  PROVE  /\ Spawned(s, group, spot) \in PlayersRecord
         /\ Spawned(s, group, spot).side = s.side
         /\ Spawned(s, group, spot).hasty = s.hasty
         /\ Spawned(s, group, spot).next = s.next
         /\ \A p \in Clients :
              /\ Spawned(s, group, spot).alive[p] <=> s.alive[p] \/ p \in group
              /\ Spawned(s, group, spot).arms[p]
                   = IF p \in group THEN s.side[p] ELSE s.arms[p]
              /\ Spawned(s, group, spot).place[p]
                   = IF p \in group THEN spot[p] ELSE s.place[p]
<1> DEFINE alive == [p \in Clients |-> s.alive[p] \/ p \in group]
           class == [p \in Clients |-> IF p \in group THEN s.next[p] ELSE s.class[p]]
           arms  == [p \in Clients |-> IF p \in group THEN s.side[p] ELSE s.arms[p]]
           place == [p \in Clients |-> IF p \in group THEN spot[p] ELSE s.place[p]]
           u == [s EXCEPT !.alive = alive, !.class = class, !.arms = arms, !.place = place]
<1>1. Spawned(s, group, spot) = u
  BY DEF Spawned
<1>2. group \subseteq Clients /\ \A p \in group : s.side[p] \in {Americans, British}
  BY DEF Fighters, Members
<1>3. alive \in [Clients -> BOOLEAN]
  BY Zenon DEF PlayersRecord
<1>4. /\ class \in [Clients -> Classes \cup {NoClass}]
      /\ arms \in [Clients -> {Americans, British, Nothing}]
      /\ place \in [Clients -> Places]
  BY <1>2 DEF PlayersRecord
<1>5. /\ \A p \in Clients : alive[p] <=> s.alive[p] \/ p \in group
      /\ \A p \in Clients :
           /\ arms[p] = IF p \in group THEN s.side[p] ELSE s.arms[p]
           /\ place[p] = IF p \in group THEN spot[p] ELSE s.place[p]
  OBVIOUS
<1> HIDE DEF alive, class, arms, place
<1>6. /\ u \in PlayersRecord /\ u.side = s.side /\ u.hasty = s.hasty /\ u.next = s.next
      /\ u.alive = alive /\ u.arms = arms /\ u.place = place
  BY <1>3, <1>4 DEF PlayersRecord
<1> HIDE DEF u
<1> QED BY <1>1, <1>5, <1>6

\* Everyone who is spawned gets the weapons of his side.
LEMMA SpawnArms ==
  ASSUME NEW s \in PlayersRecord, Calm(s), NEW group \in SUBSET Fighters(s),
         \A p \in Clients \ group :
           s.side[p] \in Playing /\ s.alive[p] => s.arms[p] = s.side[p],
         NEW u \in SpawnAll(s, group)
  PROVE  Sound(u)
<1>1. PICK spot \in Spots(s, group) : u = Spawned(s, group, spot)
  BY DEF SpawnAll
<1>2. group \subseteq Clients /\ \A p \in group : s.side[p] \in {Americans, British}
  BY DEF Fighters, Members
<1>3. spot \in [group -> Places]
  BY <1>2, SpotsTyped
<1>4. /\ u \in PlayersRecord /\ u.side = s.side /\ u.hasty = s.hasty
      /\ \A p \in Clients :
           /\ u.alive[p] <=> s.alive[p] \/ p \in group
           /\ u.arms[p] = IF p \in group THEN s.side[p] ELSE s.arms[p]
  BY <1>1, <1>3, SpawnedTyped
<1>5. Armed(u)
  BY <1>4 DEF Armed
<1>6. Calm(u)
  BY <1>2, <1>4 DEF Calm, Gone, Unassigned, Americans, British
<1> QED BY <1>4, <1>5, <1>6 DEF Sound

\* Nobody changes sides or chooses by being spawned, and the others stay.
LEMMA SpawnKeeps ==
  ASSUME NEW s \in PlayersRecord, NEW group \in SUBSET Fighters(s),
         NEW u \in SpawnAll(s, group)
  PROVE  /\ u.side = s.side /\ u.next = s.next
         /\ \A p \in Clients \ group : u.place[p] = s.place[p]
<1>1. PICK spot \in Spots(s, group) : u = Spawned(s, group, spot)
  BY DEF SpawnAll
<1>2. group \subseteq Clients
  BY DEF Fighters, Members
<1>3. spot \in [group -> Places]
  BY <1>2, SpotsTyped
<1> QED BY <1>1, <1>3, SpawnedTyped

\* Whoever is spawned stands where nobody else stands, unless at the origin.
LEMMA SpawnApart ==
  ASSUME NEW s \in PlayersRecord, NEW group \in SUBSET Fighters(s),
         NEW u \in SpawnAll(s, group), NEW p \in group, NEW q \in Clients \ {p},
         u.place[p] \in Points
  PROVE  u.place[q] # u.place[p]
<1>1. PICK spot \in Spots(s, group) : u = Spawned(s, group, spot)
  BY DEF SpawnAll
<1>2. group \subseteq Clients /\ p \in Clients
  BY DEF Fighters, Members
<1>3. /\ spot \in [group -> Places]
      /\ u.place[p] = spot[p]
      /\ u.place[q] = IF q \in group THEN spot[q] ELSE s.place[q]
  BY <1>1, <1>2, SpotsTyped, SpawnedTyped
<1>4. PICK rank \in Orders(s, group) : \A r \in group :
        spot[r] \in SpawnSpots(s.side[r], Taken(s, group, rank, spot, r))
  BY DEF Spots
<1>5. \A r \in group : spot[r] \in Points => spot[r] \notin Taken(s, group, rank, spot, r)
  BY <1>4, PlayersAssumption DEF SpawnSpots, Free
<1>6. CASE q \notin group
  <2>1. s.place[q] \in Taken(s, group, rank, spot, p)
    BY <1>6 DEF Taken
  <2>2. QED BY <1>3, <1>5, <1>6, <2>1
<1>7. CASE q \in group
  <2>1. rank[p] \in Int /\ rank[q] \in Int /\ rank[p] # rank[q]
    BY <1>7 DEF Orders
  <2>2. CASE rank[q] < rank[p]
    <3>1. spot[q] \in Taken(s, group, rank, spot, p)
      BY <1>7, <2>2 DEF Taken
    <3>2. QED BY <1>3, <1>5, <1>7, <3>1
  <2>3. CASE rank[p] < rank[q]
    <3>1. spot[p] \in Taken(s, group, rank, spot, q)
      BY <1>2, <2>3 DEF Taken
    <3>2. QED BY <1>3, <1>5, <1>7, <3>1
  <2>4. QED BY <2>1, <2>2, <2>3
<1> QED BY <1>6, <1>7

-----------------------------------------------------------------------------
(* The rules' frame.                                                       *)

\* The rules make players change sides, and nothing else.
Reshuffled(s, b) ==
  /\ b.place = s.place /\ b.next = s.next
  /\ \A q \in Clients :
       b.side[q] = s.side[q] \/ (s.side[q] \in Playing /\ b.side[q] = Opponent(s.side[q]))

LEMMA ReshuffledTwice ==
  ASSUME NEW s, NEW b, NEW u, Reshuffled(s, b), Reshuffled(b, u)
  PROVE  Reshuffled(s, u)
BY DEF Reshuffled, Opponent, Playing, Americans, British

LEMMA BalanceSound ==
  ASSUME NEW s, Sound(s), NEW b \in BalanceTeams(s)
  PROVE  Sound(b) /\ Reshuffled(s, b)
<1>1. CASE b = s
  BY <1>1 DEF Reshuffled
<1>2. CASE b # s
  <2>1. PICK p \in Fighters(s) :
          ~s.alive[p] /\ b = [s EXCEPT !.side[p] = Opponent(@)]
    BY <1>2 DEF BalanceTeams
  <2>2. p \in Clients /\ s.side[p] \in Playing /\ s \in PlayersRecord
    BY DEF Fighters, Members, Playing, Sound
  <2>3. Opponent(s.side[p]) \in Playing /\ Playing \subseteq Sides
    BY DEF Opponent, Playing, Sides
  <2> DEFINE t == Opponent(s.side[p])
             c == [s EXCEPT !.side[p] = t]
  <2>4. b = c
    BY <2>1
  <2> HIDE DEF t
  <2>5. t \in Playing /\ t \in Sides
    BY <2>3 DEF t
  <2>6. /\ c \in PlayersRecord /\ c.side = [s.side EXCEPT ![p] = t]
        /\ c.alive = s.alive /\ c.hasty = s.hasty /\ c.arms = s.arms
        /\ c.place = s.place /\ c.next = s.next
    BY <2>2, <2>5 DEF PlayersRecord
  <2> HIDE DEF c
  <2>7. c.side[p] = t /\ \A q \in Clients \ {p} : c.side[q] = s.side[q]
    BY <2>2, <2>6 DEF PlayersRecord
  <2>8. Armed(c)
    BY <2>1, <2>6, <2>7 DEF Armed, Sound
  <2>9. Calm(c)
    BY <2>5, <2>6, <2>7 DEF Calm, Sound, Playing, Gone, Unassigned, Americans, British
  <2>10. Reshuffled(s, c)
    BY <2>2, <2>6, <2>7 DEF Reshuffled, t
  <2> QED BY <2>4, <2>6, <2>8, <2>9, <2>10 DEF Sound
<1> QED BY <1>1, <1>2

LEMMA SwapTyped ==
  ASSUME NEW s, Sound(s)
  PROVE  /\ SwapTeams(s) \in PlayersRecord /\ Calm(SwapTeams(s))
         /\ Reshuffled(s, SwapTeams(s))
<1> DEFINE side == [p \in Clients |->
                      IF p \in Fighters(s) THEN Opponent(s.side[p]) ELSE s.side[p]]
           u == [s EXCEPT !.side = side]
<1>1. SwapTeams(s) = u
  BY DEF SwapTeams
<1>2. s \in PlayersRecord /\ \A p \in Clients : Opponent(s.side[p]) \in Playing
  BY DEF Opponent, Playing, Sound
<1>3. side \in [Clients -> Sides]
  BY <1>2 DEF Sides, Playing, PlayersRecord
<1>4. \A p \in Clients : \/ side[p] = s.side[p]
                         \/ s.side[p] \in Playing /\ side[p] = Opponent(s.side[p])
  BY <1>2 DEF Fighters, Members, Playing
<1> HIDE DEF side
<1>5. /\ u \in PlayersRecord /\ u.side = side
      /\ u.alive = s.alive /\ u.hasty = s.hasty
      /\ u.place = s.place /\ u.next = s.next
  BY <1>2, <1>3 DEF PlayersRecord
<1> HIDE DEF u
<1>6. Calm(u)
  BY <1>2, <1>4, <1>5 DEF Calm, Sound, Playing, Gone, Unassigned, Americans, British
<1>7. Reshuffled(s, u)
  BY <1>4, <1>5 DEF Reshuffled
<1> QED BY <1>1, <1>5, <1>6, <1>7

\* What a frame leaves was made by spawning a group of players, the living ones
\* among them all when the sides were swapped.
LEMMA ThinkSpawns ==
  ASSUME NEW s, Sound(s), NEW u \in Think(s)
  PROVE  \E b \in PlayersRecord : \E group \in SUBSET Fighters(b) :
           /\ Calm(b) /\ Reshuffled(s, b)
           /\ \A p \in Clients \ group :
                b.side[p] \in Playing /\ b.alive[p] => b.arms[p] = b.side[p]
           /\ u \in SpawnAll(b, group)
<1>1. PICK b \in BalanceTeams(s) :
        u \in RespawnWave(b) \/ \E swap \in BOOLEAN : u \in RestartRound(b, swap)
  BY DEF Think
<1>2. Sound(b) /\ Reshuffled(s, b)
  BY BalanceSound
<1>3. CASE u \in RespawnWave(b)
  <2>1. PICK group \in SUBSET Dead(b) : u \in SpawnAll(b, group)
    BY <1>3 DEF RespawnWave
  <2>2. group \in SUBSET Fighters(b)
    BY DEF Dead
  <2>3. QED BY <1>2, <2>1, <2>2 DEF Sound, Armed
<1>4. ASSUME NEW swap \in BOOLEAN, u \in RestartRound(b, swap)
      PROVE  \E t \in PlayersRecord : \E group \in SUBSET Fighters(t) :
               /\ Calm(t) /\ Reshuffled(s, t)
               /\ \A p \in Clients \ group :
                    t.side[p] \in Playing /\ t.alive[p] => t.arms[p] = t.side[p]
               /\ u \in SpawnAll(t, group)
  <2> DEFINE t == IF swap THEN SwapTeams(b) ELSE b
  <2>1. u \in SpawnAll(t, Fighters(t))
    BY <1>4 DEF RestartRound
  <2>2. t \in PlayersRecord /\ Calm(t) /\ Reshuffled(s, t)
    BY <1>2, SwapTyped, ReshuffledTwice DEF Sound
  <2> HIDE DEF t
  <2>3. \A p \in Clients \ Fighters(t) : t.side[p] \notin Playing
    BY DEF Fighters, Members, Playing
  <2>4. QED BY <2>1, <2>2, <2>3
<1> QED BY <1>1, <1>3, <1>4

-----------------------------------------------------------------------------
(* The invariant.                                                          *)

LEMMA Choosing ==
  ASSUME Sound(men), NEW p \in Clients, NEW c \in Classes
  PROVE  /\ Sound([men EXCEPT !.next[p] = c])
         /\ [men EXCEPT !.next[p] = c].side = men.side
         /\ [men EXCEPT !.next[p] = c].place = men.place
         /\ [men EXCEPT !.next[p] = c].next = [men.next EXCEPT ![p] = c]
<1> DEFINE u == [men EXCEPT !.next[p] = c]
<1>1. /\ u \in PlayersRecord /\ u.side = men.side /\ u.alive = men.alive
      /\ u.hasty = men.hasty /\ u.arms = men.arms /\ u.place = men.place
      /\ u.next = [men.next EXCEPT ![p] = c]
  BY DEF Sound, PlayersRecord
<1> HIDE DEF u
<1>2. Armed(u) /\ Calm(u)
  BY <1>1 DEF Sound, Armed, Calm
<1> QED BY <1>1, <1>2 DEF Sound, u

\* A join leaves the sound players it finds, and spawns at most the player.
LEMMA JoinSound ==
  ASSUME Sound(men), NEW p \in Clients, NEW t \in Playing, NEW c \in Classes,
         AttemptJoin(p, t, c)
  PROVE  /\ Sound(men')
         /\ men'.side = [men.side EXCEPT ![p] = t]
         /\ men'.next = [men.next EXCEPT ![p] = c]
         /\ \/ men'.place = men.place
            \/ \E b \in PlayersRecord :
                 /\ b.place = men.place /\ {p} \subseteq Fighters(b)
                 /\ b.side = [men.side EXCEPT ![p] = t]
                 /\ men' \in SpawnAll(b, {p})
<1> DEFINE chosen == [men EXCEPT !.next[p] = c]
           joined == ChangeTeam(CommitSuicide(chosen, p), p, t)
<1>1. /\ Sound(chosen) /\ chosen.side = men.side /\ chosen.place = men.place
      /\ chosen.next = [men.next EXCEPT ![p] = c]
  BY Choosing
<1>2. /\ men.side[p] # Gone
      /\ \/ men.side[p] = t /\ men' = chosen
         \/ men.side[p] # t /\ men' = joined
         \/ men.side[p] # t /\ men' \in SpawnAll(joined, {p})
  BY DEF AttemptJoin, Playing, Opponent, Americans, British
<1> HIDE DEF chosen
<1>3. CASE men.side[p] = t /\ men' = chosen
  BY <1>1, <1>3 DEF Sound, PlayersRecord
<1>4. CASE men.side[p] # t
  <2>1. /\ Sound(joined) /\ joined.side = [chosen.side EXCEPT ![p] = t]
        /\ joined.place = chosen.place /\ joined.next = chosen.next
    BY <1>1, <1>2, <1>4, JoinIsFatal
  <2> HIDE DEF joined
  <2>2. joined \in PlayersRecord /\ Calm(joined) /\ Armed(joined)
    BY <2>1 DEF Sound
  <2>3. joined.side[p] = t
    BY <1>1, <2>1 DEF Sound, PlayersRecord
  <2>4. {p} \subseteq Fighters(joined)
    BY <2>3 DEF Fighters, Members, Playing
  <2>5. CASE men' = joined
    BY <1>1, <2>1, <2>5
  <2>6. CASE men' \in SpawnAll(joined, {p})
    <3>1. Sound(men')
      BY <2>2, <2>4, <2>6, SpawnArms DEF Armed
    <3>2. men'.side = joined.side /\ men'.next = joined.next
      BY <2>2, <2>4, <2>6, SpawnKeeps
    <3>3. QED BY <1>1, <2>1, <2>2, <2>4, <2>6, <3>1, <3>2
  <2> QED BY <1>2, <1>3, <2>5, <2>6
<1> QED BY <1>2, <1>3, <1>4

LEMMA StepSound ==
  ASSUME Sound(men), NEW p \in Clients, PlayerStep(p)
  PROVE  Sound(men')
<1>1. men \in PlayersRecord /\ Armed(men) /\ Calm(men)
  BY DEF Sound
<1>2. CASE ClientPutInServer(p)
  <2> DEFINE u == [men EXCEPT !.side[p] = Unassigned, !.alive[p] = TRUE]
  <2>1. /\ u \in PlayersRecord /\ u.side = [men.side EXCEPT ![p] = Unassigned]
        /\ u.alive = [men.alive EXCEPT ![p] = TRUE]
        /\ u.hasty = men.hasty /\ u.arms = men.arms
    BY <1>1 DEF PlayersRecord, Sides
  <2>2. men.side[p] = Gone /\ men' = u
    BY <1>2 DEF ClientPutInServer
  <2> HIDE DEF u
  <2>3. /\ u.side[p] = Unassigned
        /\ \A q \in Clients \ {p} : u.side[q] = men.side[q] /\ u.alive[q] = men.alive[q]
    BY <1>1, <2>1 DEF PlayersRecord
  <2>4. Armed(u) /\ Calm(u)
    BY <1>1, <2>1, <2>2, <2>3
    DEF Armed, Calm, Playing, Gone, Unassigned, Americans, British
  <2> QED BY <2>1, <2>2, <2>4 DEF Sound
<1>3. ASSUME NEW t \in Playing, NEW c \in Classes, AttemptJoin(p, t, c)
      PROVE  Sound(men')
  BY <1>3, JoinSound
<1>4. CASE Spectate(p)
  BY <1>4, JoinIsFatal DEF Spectate
<1>5. CASE Killed(p)
  <2> DEFINE d == Die(men, p)
  <2>1. men' = d
    BY <1>5 DEF Killed
  <2>2. /\ d \in PlayersRecord /\ d.side = men.side /\ d.hasty = men.hasty
        /\ d.alive = [men.alive EXCEPT ![p] = FALSE]
        /\ d.arms = [men.arms EXCEPT ![p] = Nothing]
    BY <1>1, DieTyped
  <2> HIDE DEF d
  <2>3. /\ ~d.alive[p]
        /\ \A q \in Clients \ {p} : d.alive[q] = men.alive[q] /\ d.arms[q] = men.arms[q]
    BY <1>1, <2>2 DEF PlayersRecord
  <2>4. Armed(d) /\ Calm(d)
    BY <1>1, <2>2, <2>3 DEF Armed, Calm
  <2> QED BY <2>1, <2>2, <2>4 DEF Sound
<1>6. CASE ClientKill(p)
  <2> DEFINE d == CommitSuicide(men, p)
  <2>1. men' = d /\ men.side[p] # Gone
    BY <1>6 DEF ClientKill
  <2>2. /\ d \in PlayersRecord /\ d.side = men.side
        /\ \A q \in Clients \ {p} : /\ d.alive[q] = men.alive[q] /\ d.arms[q] = men.arms[q]
                                   /\ d.hasty[q] = men.hasty[q]
        /\ d.alive[p] => /\ men.alive[p] /\ d.arms[p] = men.arms[p]
                         /\ d.hasty[p] = men.hasty[p]
    BY <1>1, SuicideTyped
  <2> HIDE DEF d
  <2>3. Armed(d)
    BY <1>1, <2>2 DEF Armed
  <2>4. Calm(d)
    BY <1>1, <2>1, <2>2 DEF Calm
  <2> QED BY <2>1, <2>2, <2>3, <2>4 DEF Sound
<1>7. CASE Repent(p)
  <2> DEFINE u == [men EXCEPT !.hasty[p] = FALSE]
  <2>1. /\ u \in PlayersRecord /\ u.side = men.side /\ u.alive = men.alive
        /\ u.hasty = [men.hasty EXCEPT ![p] = FALSE] /\ u.arms = men.arms
    BY <1>1 DEF PlayersRecord
  <2>2. men' = u
    BY <1>7 DEF Repent
  <2> HIDE DEF u
  <2>3. ~u.hasty[p] /\ \A q \in Clients \ {p} : u.hasty[q] = men.hasty[q]
    BY <1>1, <2>1 DEF PlayersRecord
  <2>4. Armed(u) /\ Calm(u)
    BY <1>1, <2>1, <2>3 DEF Armed, Calm
  <2> QED BY <2>1, <2>2, <2>4 DEF Sound
<1>8. CASE Walk(p)
  <2>1. PICK x \in Places : men' = [men EXCEPT !.place[p] = x]
    BY <1>8 DEF Walk, Places
  <2> DEFINE u == [men EXCEPT !.place[p] = x]
  <2>2. /\ u \in PlayersRecord /\ u.side = men.side /\ u.alive = men.alive
        /\ u.hasty = men.hasty /\ u.arms = men.arms
    BY <1>1 DEF PlayersRecord
  <2>3. men' = u
    BY <2>1
  <2> HIDE DEF u
  <2>4. Armed(u) /\ Calm(u)
    BY <1>1, <2>2 DEF Armed, Calm
  <2> QED BY <2>2, <2>3, <2>4 DEF Sound
<1>9. CASE ClientDisconnected(p)
  <2> DEFINE u == [men EXCEPT !.side[p] = Gone, !.alive[p] = FALSE, !.hasty[p] = FALSE,
                              !.class[p] = NoClass, !.next[p] = NoClass,
                              !.arms[p] = Nothing, !.place[p] = Elsewhere]
  <2>1. /\ u \in PlayersRecord /\ u.side = [men.side EXCEPT ![p] = Gone]
        /\ u.alive = [men.alive EXCEPT ![p] = FALSE]
        /\ u.hasty = [men.hasty EXCEPT ![p] = FALSE]
        /\ u.arms = [men.arms EXCEPT ![p] = Nothing]
    BY <1>1 DEF PlayersRecord, Sides, Places
  <2>2. men' = u
    BY <1>9 DEF ClientDisconnected
  <2> HIDE DEF u
  <2>3. /\ u.side[p] = Gone /\ ~u.alive[p] /\ ~u.hasty[p]
        /\ \A q \in Clients \ {p} : /\ u.side[q] = men.side[q] /\ u.alive[q] = men.alive[q]
                                   /\ u.hasty[q] = men.hasty[q] /\ u.arms[q] = men.arms[q]
    BY <1>1, <2>1 DEF PlayersRecord
  <2>4. Armed(u) /\ Calm(u)
    BY <1>1, <2>3 DEF Armed, Calm
  <2> QED BY <2>1, <2>2, <2>4 DEF Sound
<1> QED BY <1>2, <1>3, <1>4, <1>5, <1>6, <1>7, <1>8, <1>9 DEF PlayerStep

LEMMA FrameSound == ASSUME Sound(men), Frame PROVE Sound(men')
<1>1. PICK b \in PlayersRecord : \E group \in SUBSET Fighters(b) :
        /\ Calm(b)
        /\ \A p \in Clients \ group :
             b.side[p] \in Playing /\ b.alive[p] => b.arms[p] = b.side[p]
        /\ men' \in SpawnAll(b, group)
  BY ThinkSpawns DEF Frame
<1> QED BY <1>1, SpawnArms

LEMMA PointsTyped ==
  ASSUME PointsTypeOK, [Next]_vars
  PROVE  PointsTypeOK'
<1>1. CASE UNCHANGED pointVars
  BY <1>1 DEF pointVars, PointsTypeOK
<1>2. CASE Settle
  BY <1>2 DEF Settle, PointsTypeOK
<1>3. ASSUME NEW x \in MapControls, SetEnabled(x) PROVE PointsTypeOK'
  BY <1>3 DEF SetEnabled, PointsTypeOK
<1>4. ASSUME NEW x \in MapControls, SetTeam(x) PROVE PointsTypeOK'
  BY <1>4 DEF SetTeam, PointsTypeOK
<1>5. UNCHANGED pointVars \/ PointsNext
  BY DEF Next, vars, Frame, PlayerStep, ClientPutInServer, AttemptJoin, Spectate,
         Killed, ClientKill, Repent, Walk, ClientDisconnected
<1> QED BY <1>1, <1>2, <1>3, <1>4, <1>5 DEF PointsNext

IInv == TypeOK /\ Sound(men)

LEMMA InitSound == Init => IInv
<1> SUFFICES ASSUME Init PROVE IInv
  OBVIOUS
<1>1. PointsTypeOK
  BY SpawnPointsAssumption
  DEF Init, PointsInit, PointsTypeOK, Points, Americans, British, Unassigned
<1>2. men \in PlayersRecord
  BY DEF Init, PlayersRecord, Sides, Places
<1>3. Armed(men) /\ Calm(men)
  BY DEF Init, Armed, Calm, Playing, Gone, Unassigned, Americans, British
<1> QED BY <1>1, <1>2, <1>3 DEF IInv, TypeOK, Sound

LEMMA NextSound == IInv /\ [Next]_vars => IInv'
<1> SUFFICES ASSUME IInv, [Next]_vars PROVE IInv'
  OBVIOUS
<1>1. PointsTypeOK'
  BY PointsTyped DEF IInv, TypeOK
<1>2. CASE Frame
  BY <1>1, <1>2, FrameSound DEF IInv, TypeOK, Sound
<1>3. ASSUME NEW p \in Clients, PlayerStep(p) PROVE IInv'
  BY <1>1, <1>3, StepSound DEF IInv, TypeOK, Sound
<1>4. CASE UNCHANGED men
  BY <1>1, <1>4 DEF IInv, TypeOK, Sound, Armed, Calm
<1> QED BY <1>2, <1>3, <1>4 DEF Next, vars

\* Every reachable state is of the type it should be.
THEOREM TypeCorrect == Spec => []TypeOK
<1>1. IInv => TypeOK
  BY DEF IInv
<1> QED BY <1>1, InitSound, NextSound, PTL DEF Spec

\* Whoever fights has the weapons of the side he fights for, whatever he and the
\* rules did in whatever order.
THEOREM ArmedCorrect == Spec => []ArmedByOwnSide
<1>1. IInv => ArmedByOwnSide
  BY DEF IInv, Sound, Armed, ArmedByOwnSide, Fighters, Members, Playing
<1> QED BY <1>1, InitSound, NextSound, PTL DEF Spec

-----------------------------------------------------------------------------
(* Where players are spawned.                                              *)

Apart ==
  ~Walked => \A p \in Clients :
    men'.place[p] # men.place[p] /\ men'.place[p] \in Points =>
      \A q \in Clients \ {p} : men'.place[q] # men'.place[p]

\* A step that spawns a group from where everybody stands.
LEMMA GroupApart ==
  ASSUME NEW b \in PlayersRecord, NEW group \in SUBSET Fighters(b),
         b.place = men.place, men' \in SpawnAll(b, group)
  PROVE  Apart
<1>1. PICK spot \in Spots(b, group) : men' = Spawned(b, group, spot)
  BY DEF SpawnAll
<1>2. group \subseteq Clients
  BY DEF Fighters, Members
<1>3. spot \in [group -> Places]
  BY <1>2, SpotsTyped
<1>4. \A p \in Clients \ group : men'.place[p] = men.place[p]
  BY <1>1, <1>3, SpawnedTyped
<1>5. \A p \in group : \A q \in Clients \ {p} :
        men'.place[p] \in Points => men'.place[q] # men'.place[p]
  BY SpawnApart
<1> QED BY <1>4, <1>5 DEF Apart

LEMMA StepApart ==
  ASSUME Sound(men), NEW p \in Clients, PlayerStep(p)
  PROVE  Apart
<1>1. men \in PlayersRecord
  BY DEF Sound
<1>2. CASE men'.place = men.place
  BY <1>2 DEF Apart
<1>3. CASE ClientPutInServer(p)
  BY <1>1, <1>2, <1>3 DEF ClientPutInServer, PlayersRecord
<1>4. ASSUME NEW t \in Playing, NEW c \in Classes, AttemptJoin(p, t, c)
      PROVE  Apart
  BY <1>2, <1>4, JoinSound, GroupApart
<1>5. CASE Spectate(p)
  BY <1>2, <1>5, JoinIsFatal DEF Spectate
<1>6. CASE Killed(p)
  BY <1>1, <1>2, <1>6, DieTyped DEF Killed
<1>7. CASE ClientKill(p)
  BY <1>1, <1>2, <1>7, SuicideTyped DEF ClientKill
<1>8. CASE Repent(p)
  BY <1>1, <1>2, <1>8 DEF Repent, PlayersRecord
<1>9. CASE Walk(p)
  BY <1>9 DEF Apart, Walked
<1>10. CASE ClientDisconnected(p)
  <2>1. men'.place = [men.place EXCEPT ![p] = Elsewhere]
    BY <1>1, <1>10 DEF ClientDisconnected, PlayersRecord
  <2>2. men.place \in [Clients -> Places] /\ Elsewhere \notin Points
    BY <1>1, PlayersAssumption DEF PlayersRecord
  <2>3. \A q \in Clients : men'.place[q] \in {men.place[q], Elsewhere}
    BY <2>1, <2>2
  <2> QED BY <2>2, <2>3 DEF Apart
<1> QED BY <1>3, <1>4, <1>5, <1>6, <1>7, <1>8, <1>9, <1>10 DEF PlayerStep

\* Nobody is spawned into somebody else, however many spawn in one frame.
THEOREM SpawnsApart == Spec => SpawnedApart
<1>1. IInv /\ [Next]_vars => [Apart]_vars
  <2> SUFFICES ASSUME IInv, [Next]_vars PROVE [Apart]_vars
    OBVIOUS
  <2>1. Sound(men)
    BY DEF IInv
  <2>2. CASE Frame
    <3>1. PICK b \in PlayersRecord : \E group \in SUBSET Fighters(b) :
            b.place = men.place /\ men' \in SpawnAll(b, group)
      BY <2>1, <2>2, ThinkSpawns DEF Frame, Reshuffled
    <3> QED BY <3>1, GroupApart
  <2>3. ASSUME NEW p \in Clients, PlayerStep(p) PROVE Apart
    BY <2>1, <2>3, StepApart
  <2>4. CASE UNCHANGED men
    BY <2>4 DEF Apart
  <2> QED BY <2>2, <2>3, <2>4 DEF Next, vars
<1>2. IInv /\ [Next]_vars => [~Walked => \A p \in Clients :
          men'.place[p] # men.place[p] /\ men'.place[p] \in Points =>
            \A q \in Clients \ {p} : men'.place[q] # men'.place[p]]_vars
  BY <1>1 DEF Apart
<1> QED BY <1>2, InitSound, NextSound, PTL DEF Spec, SpawnedApart
-----------------------------------------------------------------------------
(* Spawns at the origin of the world.                                      *)

\* A slot in which nobody plays is in nobody's way.
Away(s) == \A q \in Clients : s.side[q] = Gone => s.place[q] = Elsewhere

LEMMA CountsFinite ==
  ASSUME NEW group \in SUBSET Clients
  PROVE  IsFiniteSet(group) /\ Cardinality(group) \in Nat
BY PlayersAssumption, FS_Subset, FS_CardinalityType

\* If nothing is free for p, every usable point has its own player on it.
LEMMA CrowdedOut ==
  ASSUME NEW b \in PlayersRecord, Away(b), NEW group \in SUBSET Fighters(b),
         NEW u \in SpawnAll(b, group), NEW p \in group,
         u.place[p] = WorldOrigin
  PROVE  Cardinality(Usable(b.side[p])) <= Cardinality(Connected(b))
<1>1. PICK spot \in Spots(b, group) : u = Spawned(b, group, spot)
  BY DEF SpawnAll
<1>2. group \subseteq Clients /\ \A q \in group : b.side[q] # Gone
  BY DEF Fighters, Members, Gone, Americans, British
<1>3. spot \in [group -> Places] /\ u.place[p] = spot[p]
  BY <1>1, <1>2, SpotsTyped, SpawnedTyped
<1>4. PICK rank \in Orders(b, group) :
        spot[p] \in SpawnSpots(b.side[p], Taken(b, group, rank, spot, p))
  BY DEF Spots
<1> DEFINE spots == Usable(b.side[p])
           stands == [q \in Clients |-> IF q \in group /\ rank[q] < rank[p]
                                         THEN spot[q] ELSE b.place[q]]
<1>5. spots \subseteq Points /\ WorldOrigin \notin Points /\ Elsewhere \notin Points
  BY PlayersAssumption DEF Usable, SpawnList, Points
<1>6. spots \subseteq Taken(b, group, rank, spot, p)
  BY <1>3, <1>4, <1>5 DEF SpawnSpots, Free
<1>7. \A x \in spots : \E q \in Clients : stands[q] = x
  BY <1>6 DEF Taken
<1>8. \A q \in Clients : stands[q] \in spots => q \in Connected(b)
  BY <1>2, <1>5 DEF Away, Connected
<1> HIDE DEF spots, stands
<1> DEFINE owner == [x \in spots |-> CHOOSE q \in Clients : stands[q] = x]
<1>9. \A x \in spots : owner[x] \in Clients /\ stands[owner[x]] = x
  BY <1>7
<1>10. owner \in [spots -> Connected(b)]
  BY <1>8, <1>9
<1>11. owner \in Injection(spots, Connected(b))
  BY <1>9, <1>10 DEF Injection, IsInjective
<1>12. IsFiniteSet(spots) /\ IsFiniteSet(Connected(b))
  BY <1>5, PlayersAssumption, FS_Subset, CountsFinite DEF Connected
<1> QED BY <1>11, <1>12, FS_Injection DEF spots

Fits(p) ==
  men'.place[p] = WorldOrigin /\ men.place[p] # WorldOrigin =>
    Cardinality(Usable(men'.side[p])) <= Cardinality(Connected(men'))

LEMMA GroupFits ==
  ASSUME NEW b \in PlayersRecord, NEW group \in SUBSET Fighters(b), Away(b),
         b.place = men.place, men' \in SpawnAll(b, group)
  PROVE  Away(men') /\ \A p \in Clients : Fits(p)
<1>1. men'.side = b.side /\ \A p \in Clients \ group : men'.place[p] = men.place[p]
  BY SpawnKeeps
<1>2. \A p \in group : b.side[p] # Gone
  BY DEF Fighters, Members, Gone, Americans, British
<1>3. Away(men')
  BY <1>1, <1>2 DEF Away
<1>4. Connected(men') = Connected(b)
  BY <1>1 DEF Connected
<1>5. \A p \in group : Fits(p)
  BY <1>1, <1>4, CrowdedOut DEF Fits
<1> QED BY <1>1, <1>3, <1>5 DEF Fits
LEMMA StepFits ==
  ASSUME Sound(men), Away(men), NEW p \in Clients, PlayerStep(p)
  PROVE  Away(men') /\ \A q \in Clients : Fits(q)
<1>1. men \in PlayersRecord /\ WorldOrigin # Elsewhere
  BY DEF Sound, WorldOrigin, Elsewhere
<1>2. ASSUME men'.place = men.place,
             \A q \in Clients : men'.side[q] = Gone => men.side[q] = Gone
      PROVE  Away(men') /\ \A q \in Clients : Fits(q)
  BY <1>2 DEF Away, Fits
<1>3. CASE ClientPutInServer(p)
  <2>1. men'.place = men.place /\ men'.side = [men.side EXCEPT ![p] = Unassigned]
    BY <1>1, <1>3 DEF ClientPutInServer, PlayersRecord
  <2> QED BY <1>1, <1>2, <2>1 DEF PlayersRecord, Unassigned, Gone
<1>4. ASSUME NEW t \in Playing, NEW c \in Classes, AttemptJoin(p, t, c)
      PROVE  Away(men') /\ \A q \in Clients : Fits(q)
  <2>1. men.side[p] # Gone /\ men'.side = [men.side EXCEPT ![p] = t]
    BY <1>4, JoinSound DEF AttemptJoin
  <2>2. CASE men'.place = men.place
    BY <1>1, <1>2, <2>1, <2>2 DEF PlayersRecord, Playing, Gone, Americans, British
  <2>3. CASE \E b \in PlayersRecord :
               /\ b.place = men.place /\ {p} \subseteq Fighters(b)
               /\ b.side = [men.side EXCEPT ![p] = t]
               /\ men' \in SpawnAll(b, {p})
    <3>1. PICK b \in PlayersRecord :
               /\ b.place = men.place /\ {p} \subseteq Fighters(b)
               /\ b.side = [men.side EXCEPT ![p] = t]
               /\ men' \in SpawnAll(b, {p})
      BY <2>3
    <3>2. Away(b)
      BY <1>1, <3>1 DEF Away, PlayersRecord, Playing, Gone, Americans, British
    <3> QED BY <3>1, <3>2, GroupFits
  <2> QED BY <1>4, <2>2, <2>3, JoinSound
<1>5. CASE Spectate(p)
  <2>1. /\ men'.place = men.place /\ men'.side = [men.side EXCEPT ![p] = Spectators]
        /\ men.side[p] # Gone
    BY <1>5, JoinIsFatal DEF Spectate
  <2> QED BY <1>1, <1>2, <2>1 DEF PlayersRecord, Spectators, Gone
<1>6. CASE Killed(p)
  BY <1>1, <1>2, <1>6, DieTyped DEF Killed
<1>7. CASE ClientKill(p)
  BY <1>1, <1>2, <1>7, SuicideTyped DEF ClientKill
<1>8. CASE Repent(p)
  BY <1>1, <1>2, <1>8 DEF Repent, PlayersRecord
<1>9. CASE Walk(p)
  <2>1. PICK x \in Points \cup {Elsewhere} : men' = [men EXCEPT !.place[p] = x]
    BY <1>9 DEF Walk
  <2>2. /\ men.side[p] # Gone /\ men'.side = men.side
        /\ men'.place = [men.place EXCEPT ![p] = x]
    BY <1>1, <1>9, <2>1
    DEF Walk, PlayersRecord, Playing, Spectators, Gone, Americans, British
  <2>3. x # WorldOrigin
    BY <1>1, PlayersAssumption
  <2> QED BY <1>1, <2>2, <2>3 DEF Away, Fits, PlayersRecord
<1>10. CASE ClientDisconnected(p)
  <2>1. /\ men'.side = [men.side EXCEPT ![p] = Gone]
        /\ men'.place = [men.place EXCEPT ![p] = Elsewhere]
    BY <1>1, <1>10 DEF ClientDisconnected, PlayersRecord
  <2> QED BY <1>1, <2>1 DEF Away, Fits, PlayersRecord
<1> QED BY <1>3, <1>4, <1>5, <1>6, <1>7, <1>8, <1>9, <1>10 DEF PlayerStep

\* Nobody is spawned at the origin of the world as long as his side has more open
\* points than there are players in the game: each of them is in the way of one
\* point at most, and an empty slot of none.
THEOREM NobodyLost == Spec => NobodyIsLost
<1>1. Init => Away(men)
  BY DEF Init, Away
<1>2. IInv /\ Away(men) /\ [Next]_vars => Away(men)' /\ [\A p \in Clients : Fits(p)]_vars
  <2> SUFFICES ASSUME IInv, Away(men), [Next]_vars
               PROVE  Away(men') /\ [\A p \in Clients : Fits(p)]_vars
    OBVIOUS
  <2>1. Sound(men)
    BY DEF IInv
  <2>2. CASE Frame
    <3>1. PICK b \in PlayersRecord : \E group \in SUBSET Fighters(b) :
            Reshuffled(men, b) /\ men' \in SpawnAll(b, group)
      BY <2>1, <2>2, ThinkSpawns DEF Frame
    <3>2. Away(b) /\ b.place = men.place
      BY <3>1 DEF Away, Reshuffled, Opponent, Gone, Americans, British
    <3> QED BY <3>1, <3>2, GroupFits
  <2>3. ASSUME NEW p \in Clients, PlayerStep(p)
        PROVE  Away(men') /\ \A q \in Clients : Fits(q)
    BY <2>1, <2>3, StepFits
  <2>4. CASE UNCHANGED men
    BY <2>4 DEF Away, Fits
  <2> QED BY <2>2, <2>3, <2>4 DEF Next, vars
<1>3. [\A p \in Clients : Fits(p)]_vars =>
        [\A p \in Clients :
           men'.place[p] = WorldOrigin /\ men.place[p] # WorldOrigin =>
             Cardinality(Usable(men'.side[p])) <= Cardinality(Connected(men'))]_vars
  BY DEF Fits
<1> QED BY <1>1, <1>2, <1>3, InitSound, NextSound, PTL DEF Spec, NobodyIsLost

-----------------------------------------------------------------------------
(* The limits of the classes.                                              *)

Grows(t, c) ==
  LET before == Cardinality(NextOfClass(men, t, c))
      after  == Cardinality(NextOfClass(men', t, c))
      limit  == GetLimitTeamClass(men', t, c)
  IN  after > before /\ limit >= 0 => after <= limit \/ Swapped

\* A step that leaves a class to no more than had chosen it.
LEMMA Smaller ==
  ASSUME NEW t, NEW c, NextOfClass(men', t, c) \subseteq NextOfClass(men, t, c)
  PROVE  Grows(t, c)
<1>1. NextOfClass(men, t, c) \subseteq Clients
  BY DEF NextOfClass, Members
<1>2. /\ IsFiniteSet(NextOfClass(men, t, c))
      /\ Cardinality(NextOfClass(men, t, c)) \in Nat
      /\ Cardinality(NextOfClass(men', t, c)) \in Nat
      /\ Cardinality(NextOfClass(men', t, c)) <= Cardinality(NextOfClass(men, t, c))
  BY <1>1, CountsFinite, FS_Subset
<1> QED BY <1>2 DEF Grows

LEMMA LimitTyped ==
  ASSUME NEW s, NEW t \in Playing, NEW c \in Classes
  PROVE  GetLimitTeamClass(s, t, c) \in Int
<1>1. Connected(s) \subseteq Clients
  BY DEF Connected
<1>2. Cardinality(Connected(s)) \in Nat
  BY <1>1, CountsFinite
<1>3. Size(Cardinality(Connected(s))) \in Sizes
  BY <1>2, PlayersAssumption DEF Size, Sizes
<1> QED BY <1>3, PlayersAssumption DEF GetLimitTeamClass

\* A join finds a spot in the class, and takes one.
LEMMA JoinGrows ==
  ASSUME Sound(men), NEW p \in Clients, NEW t \in Playing, NEW c \in Classes,
         AttemptJoin(p, t, c), NEW u \in Playing, NEW d \in Classes
  PROVE  Grows(u, d)
<1>1. /\ men \in PlayersRecord /\ men.side[p] # Gone /\ ~ClassIsFull(men, t, c)
      /\ men'.side = [men.side EXCEPT ![p] = t]
      /\ men'.next = [men.next EXCEPT ![p] = c]
  BY JoinSound DEF AttemptJoin, Sound
<1>2. /\ men'.side[p] = t /\ men'.next[p] = c
      /\ \A q \in Clients \ {p} : men'.side[q] = men.side[q] /\ men'.next[q] = men.next[q]
  BY <1>1 DEF PlayersRecord
<1>3. CASE u # t \/ d # c
  <2>1. NextOfClass(men', u, d) \subseteq NextOfClass(men, u, d)
    BY <1>2, <1>3 DEF NextOfClass, Members
  <2> QED BY <2>1, Smaller
<1>4. CASE u = t /\ d = c
  <2> DEFINE before == NextOfClass(men, t, c)
             after  == NextOfClass(men', t, c)
             limit  == GetLimitTeamClass(men, t, c)
  <2>1. after \subseteq before \cup {p} /\ before \subseteq Clients /\ after \subseteq Clients
    BY <1>2 DEF NextOfClass, Members
  <2>2. Connected(men') = Connected(men)
    BY <1>1, <1>2 DEF Connected, Playing, Gone, Americans, British
  <2>3. GetLimitTeamClass(men', t, c) = limit /\ limit \in Int
    BY <2>2, LimitTyped DEF GetLimitTeamClass
  <2>4. limit < 0 \/ ~(Cardinality(before) >= limit)
    BY <1>1, <2>3 DEF ClassIsFull
  <2> HIDE DEF before, after, limit
  <2>5. IsFiniteSet(before) /\ Cardinality(before) \in Nat /\ Cardinality(after) \in Nat
    BY <2>1, CountsFinite
  <2>6. /\ IsFiniteSet(before \cup {p})
        /\ Cardinality(before \cup {p}) \in Nat
        /\ Cardinality(before \cup {p}) <= Cardinality(before) + 1
    <3>1. before \cup {p} \subseteq Clients
      BY <2>1
    <3>2. IsFiniteSet(before \cup {p}) /\ Cardinality(before \cup {p}) \in Nat
      BY <3>1, CountsFinite
    <3>3. Cardinality(before \cup {p})
            = IF p \in before THEN Cardinality(before) ELSE Cardinality(before) + 1
      BY <2>5, FS_AddElement
    <3> QED BY <2>5, <3>2, <3>3
  <2>7. Cardinality(after) <= Cardinality(before \cup {p})
    BY <2>1, <2>6, FS_Subset
  <2>8. limit >= 0 => Cardinality(after) <= limit
    BY <2>3, <2>4, <2>5, <2>6, <2>7
  <2> QED BY <1>4, <2>3, <2>8 DEF Grows, before, after, limit
<1> QED BY <1>3, <1>4

LEMMA FrameGrows ==
  ASSUME Sound(men), Frame, NEW t \in Playing, NEW c \in Classes
  PROVE  Grows(t, c)
<1>1. PICK b \in PlayersRecord : \E group \in SUBSET Fighters(b) :
        Reshuffled(men, b) /\ men' \in SpawnAll(b, group)
  BY ThinkSpawns DEF Frame
<1>2. men'.side = b.side /\ men'.next = b.next
  BY <1>1, SpawnKeeps
<1>3. CASE \E q \in Clients : b.side[q] # men.side[q]
  <2>1. Swapped
    BY <1>1, <1>2, <1>3 DEF Swapped, Reshuffled
  <2> QED BY <2>1 DEF Grows
<1>4. CASE \A q \in Clients : b.side[q] = men.side[q]
  <2>1. NextOfClass(men', t, c) \subseteq NextOfClass(men, t, c)
    BY <1>1, <1>2, <1>4 DEF Reshuffled, NextOfClass, Members
  <2> QED BY <2>1, Smaller
<1> QED BY <1>3, <1>4

LEMMA StepGrows ==
  ASSUME Sound(men), NEW p \in Clients, PlayerStep(p),
         NEW t \in Playing, NEW c \in Classes
  PROVE  Grows(t, c)
<1>1. men \in PlayersRecord /\ c # NoClass
  BY PlayersAssumption DEF Sound
<1>2. ASSUME men'.next = men.next,
             \A q \in Clients : men'.side[q] = t => men.side[q] = t
      PROVE  Grows(t, c)
  <2>1. NextOfClass(men', t, c) \subseteq NextOfClass(men, t, c)
    BY <1>2 DEF NextOfClass, Members
  <2> QED BY <2>1, Smaller
<1>3. CASE ClientPutInServer(p)
  <2>1. men'.next = men.next /\ men'.side = [men.side EXCEPT ![p] = Unassigned]
    BY <1>1, <1>3 DEF ClientPutInServer, PlayersRecord
  <2> QED BY <1>1, <1>2, <2>1 DEF PlayersRecord, Playing, Unassigned, Americans, British
<1>4. ASSUME NEW u \in Playing, NEW d \in Classes, AttemptJoin(p, u, d)
      PROVE  Grows(t, c)
  BY <1>4, JoinGrows
<1>5. CASE Spectate(p)
  <2>1. men'.next = men.next /\ men'.side = [men.side EXCEPT ![p] = Spectators]
    BY <1>5, JoinIsFatal DEF Spectate
  <2> QED BY <1>1, <1>2, <2>1 DEF PlayersRecord, Playing, Spectators, Americans, British
<1>6. CASE Killed(p)
  BY <1>1, <1>2, <1>6, DieTyped DEF Killed
<1>7. CASE ClientKill(p)
  BY <1>1, <1>2, <1>7, SuicideTyped DEF ClientKill
<1>8. CASE Repent(p)
  BY <1>1, <1>2, <1>8 DEF Repent, PlayersRecord
<1>9. CASE Walk(p)
  BY <1>1, <1>2, <1>9 DEF Walk, PlayersRecord
<1>10. CASE ClientDisconnected(p)
  <2>1. /\ men'.side = [men.side EXCEPT ![p] = Gone]
        /\ men'.next = [men.next EXCEPT ![p] = NoClass]
    BY <1>1, <1>10 DEF ClientDisconnected, PlayersRecord
  <2>2. NextOfClass(men', t, c) \subseteq NextOfClass(men, t, c)
    BY <1>1, <2>1 DEF NextOfClass, Members, PlayersRecord
  <2> QED BY <2>2, Smaller
<1> QED BY <1>3, <1>4, <1>5, <1>6, <1>7, <1>8, <1>9, <1>10 DEF PlayerStep

\* A class gets more players than before only within its limit, or because the
\* rules swapped somebody into the side.
THEOREM SpotsKept == Spec => SpotsAreKept
<1>1. IInv /\ [Next]_vars => [\A t \in Playing, c \in Classes : Grows(t, c)]_vars
  <2> SUFFICES ASSUME IInv, [Next]_vars
               PROVE  [\A t \in Playing, c \in Classes : Grows(t, c)]_vars
    OBVIOUS
  <2>1. Sound(men)
    BY DEF IInv
  <2>2. CASE Frame
    BY <2>1, <2>2, FrameGrows
  <2>3. ASSUME NEW p \in Clients, PlayerStep(p)
        PROVE  \A t \in Playing, c \in Classes : Grows(t, c)
    BY <2>1, <2>3, StepGrows
  <2>4. CASE UNCHANGED men
    <3>1. \A t \in Playing, c \in Classes :
            NextOfClass(men', t, c) \subseteq NextOfClass(men, t, c)
      BY <2>4 DEF NextOfClass, Members
    <3> QED BY <3>1, Smaller
  <2> QED BY <2>2, <2>3, <2>4 DEF Next, vars
<1>2. [\A t \in Playing, c \in Classes : Grows(t, c)]_vars =>
        [\A t \in Playing, c \in Classes :
           LET before == Cardinality(NextOfClass(men, t, c))
               after  == Cardinality(NextOfClass(men', t, c))
               limit  == GetLimitTeamClass(men', t, c)
           IN  after > before /\ limit >= 0 => after <= limit \/ Swapped]_vars
  BY DEF Grows
<1> QED BY <1>1, <1>2, InitSound, NextSound, PTL DEF Spec, SpotsAreKept
=============================================================================
