---------------------------- MODULE CtfFlagProofs ----------------------------
(***************************************************************************)
(* Theorems about CtfFlag, for any number of clients and flags, any map,   *)
(* styles and inputs.                                                      *)
(*                                                                         *)
(* The search of a flag goes through all slots and works on what it has    *)
(* itself changed.  SearchKeeps is its induction: what holds of the flags  *)
(* as they are found, and is kept by the look at each slot, holds of what  *)
(* the search leaves.                                                      *)
(*                                                                         *)
(* That a dropped flag comes home is proved by what is left of its time,   *)
(* against a clock that counts the ticks.                                  *)
(***************************************************************************)
EXTENDS CtfFlag, WellFoundedInduction, FiniteSetTheorems, TLAPS

-----------------------------------------------------------------------------
(* The induction over the slots.                                           *)

\* A set of numbers that is not empty has a least element.
LEMMA LeastNumber ==
  ASSUME NEW T \in SUBSET Nat, T # {}
  PROVE  \E n \in T : \A m \in T : ~(m < n)
<1> DEFINE R == OpToRel(<, Nat)
<1>1. IsWellFoundedOn(R, Nat)
  BY NatLessThanWellFounded, Zenon
<1>2. \A x, y \in Nat : x < y => <<x, y>> \in R
  BY DEF OpToRel
<1> HIDE DEF R
<1>3. \E n \in T : \A m \in T : ~(<<m, n>> \in R)
  BY <1>1, WFMin
<1> QED BY <1>2, <1>3

\* The function upTo of Search, as far as the slot k.
Traced(f, flags, k, g) ==
  g = [n \in 0 .. k |-> IF n = 0 THEN Unsearched(flags) ELSE Look(f, g[n - 1], n)]

LEMMA TraceExists ==
  ASSUME NEW f, NEW flags, NEW k \in Nat
  PROVE  \E g : Traced(f, flags, k, g)
<1> DEFINE T == {n \in Nat : ~ \E g : Traced(f, flags, n, g)}
<1> SUFFICES ASSUME T # {} PROVE FALSE
  OBVIOUS
<1>1. PICK n \in T : \A m \in T : ~(m < n)
  BY LeastNumber
<1>2. CASE n = 0
  <2> DEFINE g == [m \in 0 .. 0 |-> Unsearched(flags)]
  <2>1. g = [m \in 0 .. 0 |-> IF m = 0 THEN Unsearched(flags) ELSE Look(f, g[m - 1], m)]
    OBVIOUS
  <2> QED BY <1>1, <1>2, <2>1 DEF Traced
<1>3. CASE n # 0
  <2>1. n \in Nat /\ n - 1 \in Nat /\ n - 1 < n
    BY <1>3
  <2>2. PICK g : Traced(f, flags, n - 1, g)
    BY <1>1, <2>1
  <2> DEFINE h == [m \in 0 .. n |->
                     IF m = 0 THEN Unsearched(flags) ELSE Look(f, g[m - 1], m)]
  <2>3. \A m \in 0 .. n - 1 : h[m] = g[m]
    BY <2>1, <2>2 DEF Traced
  <2>4. h = [m \in 0 .. n |-> IF m = 0 THEN Unsearched(flags) ELSE Look(f, g[m - 1], m)]
    OBVIOUS
  <2> HIDE DEF h
  <2>5. \A m \in 0 .. n : m # 0 => h[m - 1] = g[m - 1]
    BY <2>1, <2>3
  <2>6. \A m \in 0 .. n :
          (IF m = 0 THEN Unsearched(flags) ELSE Look(f, g[m - 1], m))
            = (IF m = 0 THEN Unsearched(flags) ELSE Look(f, h[m - 1], m))
    BY <2>5
  <2>7. h = [m \in 0 .. n |-> IF m = 0 THEN Unsearched(flags) ELSE Look(f, h[m - 1], m)]
    BY <2>4, <2>6
  <2> QED BY <1>1, <2>7 DEF Traced
<1> QED BY <1>2, <1>3

LEMMA SearchTraced ==
  ASSUME NEW f, NEW flags
  PROVE  \E g : Traced(f, flags, MaxClients, g) /\ Search(f, flags) = g[MaxClients]
<1> DEFINE upTo == CHOOSE g :
       g = [n \in 0 .. MaxClients |->
              IF n = 0 THEN Unsearched(flags) ELSE Look(f, g[n - 1], n)]
<1>1. Search(f, flags) = upTo[MaxClients]
  BY DEF Search
<1>2. \E g : g = [n \in 0 .. MaxClients |->
                   IF n = 0 THEN Unsearched(flags) ELSE Look(f, g[n - 1], n)]
  <2>1. PICK g : Traced(f, flags, MaxClients, g)
    BY TraceExists, ConstantsAssumption
  <2> QED BY <2>1 DEF Traced
<1>3. upTo = [n \in 0 .. MaxClients |->
                IF n = 0 THEN Unsearched(flags) ELSE Look(f, upTo[n - 1], n)]
  BY <1>2
<1> QED BY <1>1, <1>3 DEF Traced

\* What holds before the search, S[0], and leads from what holds when the slots
\* below n have been looked at, S[n - 1], to what holds after n, holds at the end.
LEMMA SearchKeeps ==
  ASSUME NEW f, NEW flags, NEW S,
         Unsearched(flags) \in S[0],
         \A n \in Players : \A s \in S[n - 1] : Look(f, s, n) \in S[n]
  PROVE  Search(f, flags) \in S[MaxClients]
<1>1. PICK g : Traced(f, flags, MaxClients, g) /\ Search(f, flags) = g[MaxClients]
  BY SearchTraced
<1>2. \A n \in 0 .. MaxClients :
        g[n] = IF n = 0 THEN Unsearched(flags) ELSE Look(f, g[n - 1], n)
  BY <1>1 DEF Traced
<1> DEFINE T == {n \in 0 .. MaxClients : g[n] \notin S[n]}
<1>3. ASSUME T # {} PROVE FALSE
  <2>1. PICK n \in T : \A m \in T : ~(m < n)
    <3>1. T \in SUBSET Nat
      BY ConstantsAssumption
    <3> HIDE DEF T
    <3> QED BY <1>3, <3>1, LeastNumber
  <2>2. n # 0
    BY <1>2, <2>1
  <2>3. n \in Players /\ n - 1 \in 0 .. MaxClients /\ n - 1 < n
    BY <2>1, <2>2, ConstantsAssumption DEF Players
  <2>4. g[n - 1] \in S[n - 1]
    BY <2>1, <2>3
  <2> QED BY <1>2, <2>1, <2>2, <2>3, <2>4
<1> QED BY <1>1, <1>3, ConstantsAssumption

-----------------------------------------------------------------------------
(* What is so of every flag.                                               *)

\* The living are on the map, or have not taken a side and wait at the camera.
Where ==
  \A p \in Players : alive[p] =>
    \/ team[p] \in Playing /\ place[p] \in Places
    \/ team[p] = Unassigned /\ place[p] = Camera

\* Of one of the sides, and not of the one the flag belongs to.
Fights(f, p) ==
  CASE ForTeam[f] = 0 -> team[p] \in Playing
    [] ForTeam[f] = 1 -> team[p] = British
    [] ForTeam[f] = 2 -> team[p] = Americans

Carried(f, r) ==
  r.parent # Nobody => r.active /\ alive[r.parent] /\ Fights(f, r.parent)

\* A flag that is carried or switched off is not dropped, and one that lies away
\* from its stand is; none lies at the camera.
Lying(r) ==
  /\ r.parent # Nobody \/ ~r.active => ~r.dropped
  /\ r.parent = Nobody => (r.pos # OnStand <=> r.dropped)
  /\ r.pos # Camera

Sound(f, r) == r \in FlagRecord /\ Carried(f, r) /\ Lying(r)

LEMMA FightersPlay ==
  ASSUME NEW f \in Flags, NEW p \in Players, Fights(f, p)
  PROVE  team[p] \in Playing
<1>1. ForTeam[f] = 0 \/ ForTeam[f] = 1 \/ ForTeam[f] = 2
  BY ConstantsAssumption
<1> QED BY <1>1 DEF Fights, Playing

LEMMA Apart ==
  /\ Nobody \notin Players /\ Players \subseteq Nat
  /\ OnStand \notin Places /\ Camera \notin Places /\ OnStand # Camera
  /\ {Americans, British} = Playing /\ Americans # British
  /\ Unassigned \notin Playing /\ Gone \notin Playing /\ Unassigned # Gone
  BY ConstantsAssumption
  DEF Nobody, Players, OnStand, Camera, Americans, British, Playing, Unassigned, Gone

\* What a flag on its stand is, whatever it was.
LEMMA ResetSound ==
  ASSUME NEW f \in Flags, NEW r \in FlagRecord
  PROVE  /\ ResetFlag(r) \in FlagRecord
         /\ ResetFlag(r).parent = Nobody /\ ~ResetFlag(r).dropped
         /\ ResetFlag(r).pos = OnStand /\ ResetFlag(r).active = r.active
         /\ Sound(f, ResetFlag(r))
<1>1. /\ ResetFlag(r) \in FlagRecord
      /\ ResetFlag(r).parent = Nobody /\ ~ResetFlag(r).dropped
      /\ ResetFlag(r).pos = OnStand /\ ResetFlag(r).active = r.active
  BY DEF ResetFlag, FlagRecord
<1> QED BY <1>1, Apart DEF Sound, Carried, Lying

LEMMA InputsSound ==
  ASSUME NEW f \in Flags, NEW r, Sound(f, r)
  PROVE  /\ Sound(f, InputReset(r)) /\ Sound(f, InputEnable(r))
         /\ Sound(f, InputDisable(r)) /\ Sound(f, InputToggle(r))
         /\ \A n \in {InputReset(r), InputEnable(r), InputDisable(r), InputToggle(r)} :
              AtHome(n)
<1> DEFINE on == [r EXCEPT !.active = TRUE]
           off == [r EXCEPT !.active = FALSE]
<1>1. r \in FlagRecord /\ on \in FlagRecord /\ off \in FlagRecord
  BY DEF Sound, FlagRecord
<1>2. \A n \in {r, on, off} : Sound(f, ResetFlag(n)) /\ AtHome(ResetFlag(n))
  BY <1>1, ResetSound DEF AtHome
<1> HIDE DEF on, off
<1> QED BY <1>2 DEF InputReset, InputEnable, InputDisable, InputToggle, ReturnFlag, on, off

\* A carried flag is dropped on the map.
LEMMA DropSound ==
  ASSUME NEW f \in Flags, NEW r, Sound(f, r), Where,
         place \in [Players -> Places \cup {Camera}]
  PROVE  /\ DropFlag(r) \in FlagRecord /\ DropFlag(r).parent = Nobody
         /\ Lying(DropFlag(r)) /\ Sound(f, DropFlag(r))
         /\ AtHome(r) => AtHome(DropFlag(r))
<1>1. CASE r.parent = Nobody
  BY <1>1 DEF DropFlag, Sound
<1>2. CASE r.parent # Nobody
  <2>1. r \in FlagRecord /\ r.parent \in Players /\ r.active
    BY <1>2 DEF Sound, FlagRecord, Carried
  <2>2. alive[r.parent] /\ team[r.parent] \in Playing
    BY <1>2, <2>1, FightersPlay DEF Sound, Carried
  <2>3. place[r.parent] \in Places
    BY <2>1, <2>2, Apart DEF Where
  <2> DEFINE d == [r EXCEPT !.parent = Nobody, !.dropped = TRUE,
                            !.pos = place[r.parent], !.returnIn = ReturnTime]
  <2>4. DropFlag(r) = d
    BY <1>2 DEF DropFlag
  <2>5. /\ d \in FlagRecord /\ d.parent = Nobody /\ d.dropped /\ d.active
        /\ d.pos = place[r.parent]
    <3>1. ReturnTime \in -1 .. ReturnTime /\ Nobody \in Players \cup {Nobody}
      BY ConstantsAssumption
    <3> QED BY <2>1, <2>3, <3>1 DEF FlagRecord
  <2> HIDE DEF d
  <2>6. Sound(f, d)
    BY <2>3, <2>5, Apart DEF Sound, Carried, Lying
  <2> QED BY <1>2, <2>4, <2>5, <2>6 DEF Sound, AtHome
<1> QED BY <1>1, <1>2

-----------------------------------------------------------------------------
(* The search.                                                             *)

Sided == {f \in Flags : ForTeam[f] # 0}
IsAway(r) == r.parent # Nobody \/ r.pos # OnStand

\* The property OneFlagAway, of any flags.
OneSide(flags) ==
  CaptureStyles \subseteq {2} =>
    \A f, g \in Sided : IsAway(flags[f]) /\ IsAway(flags[g]) => ForTeam[f] = ForTeam[g]

\* A step that brings flags home and takes none away.
LEMMA OneSideKept ==
  ASSUME NEW old, NEW new, OneSide(old),
         \A f \in Flags : IsAway(new[f]) => IsAway(old[f])
  PROVE  OneSide(new)
  BY DEF OneSide, Sided

Searched == [flags : [Flags -> FlagRecord], slow : SUBSET Players, stop : BOOLEAN]

\* What is so all the time while f searches.
Searching(f) ==
  {s \in Searched :
     /\ \A g \in Flags \ {f} : s.flags[g] = flag[g]
     /\ Sound(f, s.flags[f]) /\ s.flags[f].active
     /\ OneSide(s.flags)
     /\ Centre \notin Places => s.slow \subseteq {s.flags[f].parent} }

\* A player who is found is near the flag, alive and on a side.
LEMMA FoundPlays ==
  ASSUME Where, NEW f \in Flags, NEW s \in Searching(f), NEW p \in Players,
         Found(f, s, p)
  PROVE  /\ alive[p] /\ team[p] \in Playing /\ place[p] \in Places
         /\ s.flags[f].parent # Nobody => Centre \in Places
<1> DEFINE r == s.flags[f]
<1>1. r \in FlagRecord /\ r.pos # Camera
  BY DEF Searching, Sound, Lying
<1> HIDE DEF r
<1>2. alive[p] /\ place[p] = SearchPlace(f, r)
  BY DEF Found, r
<1>3. Stand[f] \in Places /\ Centre # Camera
  BY ConstantsAssumption
<1>4. /\ r.parent # Nobody => SearchPlace(f, r) = Centre
      /\ r.parent = Nobody => SearchPlace(f, r) \in {Stand[f], r.pos}
  BY DEF SearchPlace
<1>5. place[p] # Camera
  BY <1>1, <1>2, <1>3, <1>4, Apart
<1>6. team[p] \in Playing /\ place[p] \in Places
  BY <1>2, <1>5 DEF Where
<1> QED BY <1>2, <1>4, <1>6 DEF r

LEMMA CarriersFight ==
  ASSUME NEW f \in Flags, NEW p \in Players, team[p] \in Playing, MayCarry(f, p)
  PROVE  Fights(f, p)
<1>1. ForTeam[f] = 0 \/ ForTeam[f] = 1 \/ ForTeam[f] = 2
  BY ConstantsAssumption
<1>2. CASE ForTeam[f] = 0
  BY <1>2 DEF Fights
<1>3. CASE ForTeam[f] = 1
  <2>1. team[p] = British
    BY <1>3, Apart DEF MayCarry, Team
  <2> QED BY <1>3, <2>1 DEF Fights
<1>4. CASE ForTeam[f] = 2
  <2>1. team[p] = Americans
    BY <1>4, Apart DEF MayCarry, Team
  <2> QED BY <1>4, <2>1 DEF Fights
<1> QED BY <1>1, <1>2, <1>3, <1>4

\* Who may take a flag of a side leaves only when no flag of the other is away.
LEMMA TakersLeaveNone ==
  ASSUME NEW p \in Players, NEW f \in Sided, MayCarry(f, p), NEW flags,
         ~HomeFlagTaken(flags, team[p])
  PROVE  \A g \in Sided : IsAway(flags[g]) => ForTeam[g] = ForTeam[f]
<1>1. \A g \in Sided : g \in Flags /\ ForTeam[g] \in {1, 2}
  BY ConstantsAssumption DEF Sided
<1>2. \A g \in Sided : Team(g) = IF ForTeam[g] = 1 THEN British ELSE Americans
  BY <1>1 DEF Team
<1>3. Team(f) = team[p]
  BY <1>1, <1>2, Apart DEF MayCarry, Playing
<1>4. \A g \in Sided : IsAway(flags[g]) => Team(g) = team[p]
  BY <1>1 DEF HomeFlagTaken, IsAway, AtHome
<1> QED BY <1>1, <1>2, <1>3, <1>4, Apart

LEMMA LookSound ==
  ASSUME Where, NEW f \in Flags, NEW s \in Searching(f), NEW p \in Players,
         capturestyle \in CaptureStyles
  PROVE  Look(f, s, p) \in Searching(f)
<1> DEFINE r == s.flags[f]
<1>1. /\ s \in Searched /\ r \in FlagRecord /\ r.active /\ Sound(f, r)
      /\ \A g \in Flags \ {f} : s.flags[g] = flag[g]
      /\ OneSide(s.flags)
      /\ Centre \notin Places => s.slow \subseteq {r.parent}
  BY DEF Searching, Sound
<1>2. CASE ~Found(f, s, p)
  BY <1>2 DEF Look
<1>3. CASE Found(f, s, p)
  <2>0. Look(f, s, p) = Touch(f, s, p)
    BY <1>3 DEF Look
  <2>1. /\ alive[p] /\ team[p] \in Playing
        /\ r.parent # Nobody => Centre \in Places
    BY <1>3, FoundPlays
  <2>2. CASE ~MayCarry(f, p)
    <3>1. CASE returnstyle > 1 /\ r.dropped
      <4> DEFINE n == ReturnFlag(r)
                 u == [s EXCEPT !.flags = [s.flags EXCEPT ![f] = n]]
      <4>1. Look(f, s, p) = u
        BY <2>0, <2>2, <3>1 DEF Touch
      <4>2. /\ n \in FlagRecord /\ n.parent = Nobody /\ n.active /\ Sound(f, n)
            /\ n.pos = OnStand /\ r.parent = Nobody
        BY <1>1, <3>1, ResetSound DEF ReturnFlag, Sound, Lying
      <4> HIDE DEF n
      <4>3. /\ u \in Searched /\ u.flags[f] = n /\ u.slow = s.slow
            /\ \A g \in Flags \ {f} : u.flags[g] = s.flags[g]
        BY <1>1, <4>2 DEF Searched
      <4> HIDE DEF u
      <4>4. OneSide(u.flags)
        BY <1>1, <4>2, <4>3, OneSideKept DEF IsAway
      <4> QED BY <1>1, <4>1, <4>2, <4>3, <4>4 DEF Searching
    <3>2. CASE ~(returnstyle > 1 /\ r.dropped)
      BY <2>0, <2>2, <3>2 DEF Touch
    <3> QED BY <3>1, <3>2
  <2>3. CASE MayCarry(f, p) /\ capturestyle > 1 /\ HomeFlagTaken(s.flags, team[p])
    <3> DEFINE u == [s EXCEPT !.stop = TRUE]
    <3>1. Look(f, s, p) = u
      BY <2>0, <2>3 DEF Touch
    <3>2. u \in Searched /\ u.flags = s.flags /\ u.slow = s.slow
      BY <1>1 DEF Searched
    <3> HIDE DEF u
    <3> QED BY <1>1, <3>1, <3>2 DEF Searching
  <2>4. CASE MayCarry(f, p) /\ ~(capturestyle > 1 /\ HomeFlagTaken(s.flags, team[p]))
    <3> DEFINE n == [r EXCEPT !.parent = p, !.carried = TRUE, !.dropped = FALSE]
               u == [s EXCEPT !.flags = [s.flags EXCEPT ![f] = n], !.slow = s.slow \cup {p}]
    <3>1. Look(f, s, p) = u
      BY <2>0, <2>4 DEF Touch
    <3>2. /\ n \in FlagRecord /\ n.parent = p /\ n.active /\ ~n.dropped
          /\ n.pos = r.pos
      BY <1>1 DEF FlagRecord
    <3> HIDE DEF n
    <3>3. Sound(f, n)
      BY <1>1, <2>1, <2>4, <3>2, CarriersFight, Apart DEF Sound, Carried, Lying
    <3>4. /\ u \in Searched /\ u.flags[f] = n /\ u.slow = s.slow \cup {p}
          /\ \A g \in Flags \ {f} : u.flags[g] = s.flags[g]
      BY <1>1, <3>2 DEF Searched
    <3> HIDE DEF u
    <3>5. OneSide(u.flags)
      <4> SUFFICES ASSUME CaptureStyles \subseteq {2}, NEW a \in Sided, NEW b \in Sided,
                          IsAway(u.flags[a]), IsAway(u.flags[b])
                   PROVE  ForTeam[a] = ForTeam[b]
        BY DEF OneSide
      <4>1. capturestyle = 2
        OBVIOUS
      <4>2. ~HomeFlagTaken(s.flags, team[p])
        BY <2>4, <4>1
      <4>3. f \in Sided => \A g \in Sided : IsAway(s.flags[g]) => ForTeam[g] = ForTeam[f]
        BY <2>4, <4>2, TakersLeaveNone
      <4>4. \A g \in Sided \ {f} : u.flags[g] = s.flags[g]
        BY <3>4 DEF Sided
      <4>5. CASE a = f \/ b = f
        BY <4>3, <4>4, <4>5
      <4>6. CASE a # f /\ b # f
        BY <1>1, <4>4, <4>6 DEF OneSide
      <4> QED BY <4>5, <4>6
    <3>6. Centre \notin Places => s.slow = {}
      <4>1. s.slow \subseteq Players
        BY <1>1 DEF Searched
      <4> QED BY <1>1, <2>1, <4>1, Apart
    <3> QED BY <1>1, <3>1, <3>2, <3>3, <3>4, <3>5, <3>6 DEF Searching
  <2> QED BY <2>2, <2>3, <2>4
<1> QED BY <1>2, <1>3

\* What a think leaves: the other flags alone, and its own as it should be.
LEMMA ThinkSound ==
  ASSUME TypeOK, Where, NEW f \in Flags, Sound(f, flag[f]), OneSide(flag)
  PROVE  /\ Think(f).flags \in [Flags -> FlagRecord]
         /\ Think(f).slow \subseteq Players
         /\ \A g \in Flags \ {f} : Think(f).flags[g] = flag[g]
         /\ Sound(f, Think(f).flags[f])
         /\ OneSide(Think(f).flags)
         /\ Centre \notin Places => Think(f).slow \subseteq {Think(f).flags[f].parent}
         /\ flag[f].parent # Nobody =>
              /\ Think(f).slow = {}
              /\ Think(f).flags[f].parent = flag[f].parent
<1> DEFINE r == flag[f]
           awake == [r EXCEPT !.nextThink = IF r.active THEN 1 ELSE IdlePeriod]
           due == ReturnWhenDue(awake)
<1>1. flag \in [Flags -> FlagRecord] /\ r \in FlagRecord /\ capturestyle \in CaptureStyles
  BY DEF TypeOK
<1>2. /\ awake \in FlagRecord /\ awake.parent = r.parent /\ awake.active = r.active
      /\ awake.pos = r.pos /\ awake.dropped = r.dropped
  BY <1>1, ConstantsAssumption DEF FlagRecord
<1> HIDE DEF awake
<1>3. Sound(f, awake) /\ (IsAway(awake) <=> IsAway(r))
  BY <1>2 DEF Sound, Carried, Lying, IsAway
<1>4. CASE r.active /\ r.parent = Nobody
  <2> DEFINE new == [flag EXCEPT ![f] = due]
             start == Unsearched(new)
  <2>1. /\ Sound(f, due) /\ due.active /\ due.parent = Nobody
        /\ IsAway(due) => IsAway(r)
    BY <1>2, <1>3, <1>4, ResetSound DEF ReturnWhenDue, ReturnFlag, IsAway
  <2> HIDE DEF due
  <2>2. new \in [Flags -> FlagRecord] /\ new[f] = due /\ \A g \in Flags \ {f} : new[g] = flag[g]
    BY <1>1, <2>1 DEF Sound
  <2> HIDE DEF new
  <2>3. start \in Searched /\ start.flags = new /\ start.slow = {}
    BY <2>2 DEF Unsearched, Searched
  <2>4. OneSide(new)
    BY <2>1, <2>2, OneSideKept
  <2> HIDE DEF start
  <2>5. start \in Searching(f)
    BY <2>1, <2>2, <2>3, <2>4 DEF Searching
  <2> DEFINE S == [n \in 0 .. MaxClients |-> Searching(f)]
  <2>6. \A n \in Players : n \in 0 .. MaxClients /\ n - 1 \in 0 .. MaxClients
    BY ConstantsAssumption DEF Players
  <2>7. \A n \in Players : \A s \in S[n - 1] : Look(f, s, n) \in S[n]
    BY <1>1, <2>6, LookSound
  <2>8. start \in S[0] /\ S[MaxClients] = Searching(f)
    BY <2>5, ConstantsAssumption
  <2> HIDE DEF S
  <2>9. Search(f, new) \in S[MaxClients]
    BY <2>7, <2>8, SearchKeeps DEF start
  <2>10. Think(f) = Search(f, new)
    BY <1>4 DEF Think, new, due, awake
  <2>11. Think(f) \in Searching(f)
    BY <2>8, <2>9, <2>10
  <2>12. Think(f) \in Searched
    BY <2>11 DEF Searching
  <2> QED BY <1>4, <2>11, <2>12 DEF Searching, Searched
<1>5. CASE ~(r.active /\ r.parent = Nobody)
  <2> DEFINE new == [flag EXCEPT ![f] = awake]
  <2>1. Think(f).flags = new /\ Think(f).slow = {}
    BY <1>5 DEF Think, awake
  <2>2. new \in [Flags -> FlagRecord] /\ new[f] = awake /\ \A g \in Flags \ {f} : new[g] = flag[g]
    BY <1>1, <1>2
  <2> HIDE DEF new
  <2>3. OneSide(new)
    BY <1>3, <2>2, OneSideKept
  <2> QED BY <1>2, <1>3, <2>1, <2>2, <2>3
<1> QED BY <1>4, <1>5

-----------------------------------------------------------------------------
(* The invariant, and the steps.                                           *)

Untouched == Inputs = {} /\ Centre \notin Places
SlowCarry == Untouched =>
  \A p \in Players : alive[p] /\ slowed[p] => \E f \in Flags : flag[f].parent = p

IInv ==
  /\ TypeOK /\ Where
  /\ \A f \in Flags : Sound(f, flag[f])
  /\ OneSide(flag)
  /\ SlowCarry

LEMMA NoScoreTyped == NoScore \in [Playing -> 0 .. Cardinality(Flags)]
<1>1. Cardinality(Flags) \in Nat
  BY ConstantsAssumption, FS_CardinalityType
<1> QED BY <1>1 DEF NoScore

\* A flag is as it should be after a step that leaves its carrier as he was.
LEMMA SoundStays ==
  ASSUME NEW f \in Flags, NEW r, Sound(f, r), flag'[f] = r,
         r.parent # Nobody =>
           alive'[r.parent] = alive[r.parent] /\ team'[r.parent] = team[r.parent]
  PROVE  Sound(f, flag[f])'
  BY DEF Sound, Carried, Fights, Lying

LEMMA TickSound == ASSUME IInv, Tick PROVE IInv'
<1>1. TypeOK /\ Where /\ (\A f \in Flags : Sound(f, flag[f])) /\ OneSide(flag) /\ SlowCarry
  BY DEF IInv
<1> DEFINE next(f) == [flag[f] EXCEPT !.nextThink = @ - 1, !.returnIn = Wait(@)]
<1>2. ASSUME NEW f \in Flags
      PROVE  /\ next(f) \in FlagRecord /\ Sound(f, next(f))
             /\ next(f).parent = flag[f].parent /\ next(f).pos = flag[f].pos
  <2>1. flag[f] \in FlagRecord /\ flag[f].nextThink > 0
    BY <1>1 DEF TypeOK, Tick
  <2>2. Wait(flag[f].returnIn) \in -1 .. ReturnTime /\ flag[f].nextThink - 1 \in 0 .. IdlePeriod
    BY <2>1, ConstantsAssumption DEF FlagRecord, Wait
  <2> DEFINE n == next(f)
  <2>3. /\ n \in FlagRecord /\ n.parent = flag[f].parent /\ n.pos = flag[f].pos
        /\ n.active = flag[f].active /\ n.dropped = flag[f].dropped
    BY <2>1, <2>2 DEF FlagRecord
  <2> HIDE DEF n
  <2>4. Sound(f, n)
    BY <1>1, <2>3 DEF Sound, Carried, Lying
  <2> QED BY <2>3, <2>4 DEF n
<1>3. /\ flag' = [f \in Flags |-> next(f)] /\ scored' = NoScore
      /\ UNCHANGED <<team, alive, place, slowed, capturestyle, returnstyle>>
  BY DEF Tick, styleVars
<1> HIDE DEF next
<1>4. /\ flag' \in [Flags -> FlagRecord]
      /\ \A f \in Flags : /\ flag'[f].parent = flag[f].parent
                          /\ flag'[f].pos = flag[f].pos /\ Sound(f, flag'[f])
  BY <1>2, <1>3
<1>5. TypeOK'
  BY <1>1, <1>3, <1>4, NoScoreTyped DEF TypeOK
<1>6. Where' /\ SlowCarry'
  BY <1>1, <1>3, <1>4 DEF Where, SlowCarry
<1>7. \A f \in Flags : Sound(f, flag[f])'
  BY <1>3, <1>4, SoundStays
<1>8. OneSide(flag')
  BY <1>1, <1>4, OneSideKept DEF IsAway
<1> QED BY <1>5, <1>6, <1>7, <1>8 DEF IInv

LEMMA FlagThinkSound == ASSUME IInv, NEW f \in Flags, FlagThink(f) PROVE IInv'
<1>1. TypeOK /\ Where /\ (\A g \in Flags : Sound(g, flag[g])) /\ OneSide(flag) /\ SlowCarry
  BY DEF IInv
<1>2. /\ flag' = Think(f).flags /\ slowed' = Slowed(Think(f).slow) /\ scored' = NoScore
      /\ UNCHANGED <<team, alive, place, capturestyle, returnstyle>>
  BY DEF FlagThink, styleVars
<1>3. /\ flag' \in [Flags -> FlagRecord] /\ Think(f).slow \subseteq Players
      /\ \A g \in Flags \ {f} : flag'[g] = flag[g]
      /\ Sound(f, flag'[f]) /\ OneSide(flag')
      /\ Centre \notin Places => Think(f).slow \subseteq {flag'[f].parent}
      /\ flag[f].parent # Nobody => flag'[f].parent = flag[f].parent
  BY <1>1, <1>2, ThinkSound
<1>4. slowed' \in [Players -> BOOLEAN]
      /\ \A p \in Players : slowed'[p] <=> slowed[p] \/ p \in Think(f).slow
  <2>1. slowed \in [Players -> BOOLEAN]
    BY <1>1 DEF TypeOK
  <2> QED BY <1>2, <2>1, Zenon DEF Slowed
<1>5. TypeOK'
  BY <1>1, <1>2, <1>3, <1>4, NoScoreTyped DEF TypeOK
<1>6. Where'
  BY <1>1, <1>2 DEF Where
<1>7. \A g \in Flags : Sound(g, flag[g])'
  BY <1>1, <1>2, <1>3, SoundStays
<1>8. SlowCarry'
  <2> SUFFICES ASSUME Untouched, NEW p \in Players, alive[p], slowed'[p]
               PROVE  \E g \in Flags : flag'[g].parent = p
    BY <1>2 DEF SlowCarry, Untouched
  <2>1. CASE p \in Think(f).slow
    BY <1>3, <2>1 DEF Untouched
  <2>2. CASE slowed[p]
    <3>1. PICK g \in Flags : flag[g].parent = p
      BY <1>1, <2>2 DEF SlowCarry
    <3> QED BY <1>3, <3>1, Apart
  <2> QED BY <1>4, <2>1, <2>2
<1> QED BY <1>3, <1>5, <1>6, <1>7, <1>8 DEF IInv

LEMMA FlagInputSound == ASSUME IInv, NEW f \in Flags, FlagInput(f) PROVE IInv'
<1>1. TypeOK /\ Where /\ (\A g \in Flags : Sound(g, flag[g])) /\ OneSide(flag) /\ SlowCarry
  BY DEF IInv
<1>2. PICK n \in {InputReset(flag[f]), InputEnable(flag[f]),
                  InputDisable(flag[f]), InputToggle(flag[f])} :
        flag' = [flag EXCEPT ![f] = n]
  BY DEF FlagInput
<1>3. /\ Inputs # {} /\ scored' = NoScore
      /\ UNCHANGED <<team, alive, place, slowed, capturestyle, returnstyle>>
  BY DEF FlagInput, styleVars
<1>4. Sound(f, n) /\ AtHome(n)
  BY <1>1, InputsSound
<1>5. flag \in [Flags -> FlagRecord] /\ n \in FlagRecord
  BY <1>1, <1>4 DEF TypeOK, Sound
<1>6. /\ flag' \in [Flags -> FlagRecord] /\ flag'[f] = n
      /\ \A g \in Flags \ {f} : flag'[g] = flag[g]
  BY <1>2, <1>5
<1>7. TypeOK'
  BY <1>1, <1>3, <1>6, NoScoreTyped DEF TypeOK
<1>8. Where' /\ SlowCarry'
  BY <1>1, <1>3 DEF Where, SlowCarry, Untouched
<1>9. \A g \in Flags : Sound(g, flag[g])'
  BY <1>1, <1>3, <1>4, <1>6, SoundStays
<1>10. OneSide(flag')
  BY <1>1, <1>4, <1>6, OneSideKept DEF IsAway, AtHome
<1> QED BY <1>7, <1>8, <1>9, <1>10 DEF IInv

\* Death, a change of side and a disconnect: whoever goes drops what he carries.
LEMMA RemovalSound ==
  ASSUME IInv, NEW p \in Players,
         flag' = RemoveSelfFromFlags(p), alive' = [alive EXCEPT ![p] = FALSE],
         scored' = NoScore,
         NEW t \in Playing \cup {Unassigned, Gone}, team' = [team EXCEPT ![p] = t],
         UNCHANGED <<place, slowed, capturestyle, returnstyle>>
  PROVE  IInv'
<1>1. TypeOK /\ Where /\ (\A g \in Flags : Sound(g, flag[g])) /\ OneSide(flag) /\ SlowCarry
  BY DEF IInv
<1>2. /\ team' \in [Players -> Playing \cup {Unassigned, Gone}]
      /\ alive' \in [Players -> BOOLEAN]
      /\ ~alive'[p]
      /\ \A q \in Players \ {p} : alive'[q] = alive[q] /\ team'[q] = team[q]
  BY <1>1 DEF TypeOK
<1>3. ASSUME NEW f \in Flags
      PROVE  /\ flag'[f] \in FlagRecord /\ Sound(f, flag[f])'
             /\ IsAway(flag'[f]) => IsAway(flag[f])
             /\ flag[f].parent # p => flag'[f] = flag[f]
  <2>1. flag'[f] = IF flag[f].parent = p THEN DropFlag(flag[f]) ELSE flag[f]
    BY DEF RemoveSelfFromFlags, Carries
  <2>2. Sound(f, flag[f]) /\ flag[f] \in FlagRecord
    BY <1>1 DEF TypeOK
  <2>3. CASE flag[f].parent = p
    <3>1. flag'[f] = DropFlag(flag[f])
      BY <2>1, <2>3
    <3>2. DropFlag(flag[f]).parent = Nobody /\ Sound(f, DropFlag(flag[f]))
      BY <1>1, DropSound DEF TypeOK
    <3>3. Sound(f, flag[f])'
      BY <3>1, <3>2, SoundStays
    <3>4. IsAway(flag[f])
      BY <2>3, Apart DEF IsAway
    <3> QED BY <2>3, <3>1, <3>2, <3>3, <3>4 DEF Sound
  <2>4. CASE flag[f].parent # p
    <3>1. flag'[f] = flag[f]
      BY <2>1, <2>4
    <3>2. flag[f].parent # Nobody => flag[f].parent \in Players \ {p}
      BY <2>2, <2>4 DEF FlagRecord
    <3>3. Sound(f, flag[f])'
      BY <1>2, <2>2, <3>1, <3>2, SoundStays
    <3> QED BY <2>2, <3>1, <3>3
  <2> QED BY <2>3, <2>4
<1>4. flag' \in [Flags -> FlagRecord]
  BY <1>3 DEF RemoveSelfFromFlags
<1>5. TypeOK'
  BY <1>1, <1>2, <1>4, NoScoreTyped DEF TypeOK
<1>6. Where'
  BY <1>1, <1>2 DEF Where
<1>7. SlowCarry'
  BY <1>1, <1>2, <1>3 DEF SlowCarry, Untouched
<1>8. OneSide(flag')
  BY <1>1, <1>3, OneSideKept
<1> QED BY <1>3, <1>5, <1>6, <1>7, <1>8 DEF IInv

\* A connect and a spawn: whoever comes carries nothing and is not slow.
LEMMA ArrivalSound ==
  ASSUME IInv, NEW p \in Players, ~alive[p],
         alive' = [alive EXCEPT ![p] = TRUE],
         slowed' = [slowed EXCEPT ![p] = FALSE], scored' = NoScore,
         NEW t \in Playing \cup {Unassigned}, team' = [team EXCEPT ![p] = t],
         NEW x, place' = [place EXCEPT ![p] = x],
         (t \in Playing /\ x \in Places) \/ (t = Unassigned /\ x = Camera),
         UNCHANGED <<flag, capturestyle, returnstyle>>
  PROVE  IInv'
<1>1. TypeOK /\ Where /\ (\A g \in Flags : Sound(g, flag[g])) /\ OneSide(flag) /\ SlowCarry
  BY DEF IInv
<1>2. /\ team' \in [Players -> Playing \cup {Unassigned, Gone}]
      /\ alive' \in [Players -> BOOLEAN] /\ slowed' \in [Players -> BOOLEAN]
      /\ place' \in [Players -> Places \cup {Camera}]
      /\ ~slowed'[p] /\ team'[p] = t /\ place'[p] = x
      /\ \A q \in Players \ {p} : /\ alive'[q] = alive[q] /\ team'[q] = team[q]
                                  /\ place'[q] = place[q] /\ slowed'[q] = slowed[q]
  BY <1>1 DEF TypeOK
<1>3. ASSUME NEW f \in Flags PROVE Sound(f, flag[f])'
  <2>1. Sound(f, flag[f]) /\ flag[f] \in FlagRecord /\ flag'[f] = flag[f]
    BY <1>1 DEF TypeOK
  <2>2. flag[f].parent # Nobody => flag[f].parent \in Players \ {p}
    BY <2>1 DEF FlagRecord, Sound, Carried
  <2> QED BY <1>2, <2>1, <2>2, SoundStays
<1>4. TypeOK'
  BY <1>1, <1>2, NoScoreTyped DEF TypeOK
<1>5. Where'
  BY <1>1, <1>2 DEF Where
<1>6. SlowCarry'
  BY <1>1, <1>2 DEF SlowCarry, Untouched
<1> QED BY <1>1, <1>3, <1>4, <1>5, <1>6 DEF IInv

LEMMA WalkSound ==
  ASSUME IInv, NEW p \in Players, NEW x \in Places, Walk(p, x) PROVE IInv'
<1>1. TypeOK /\ Where /\ (\A g \in Flags : Sound(g, flag[g])) /\ OneSide(flag) /\ SlowCarry
  BY DEF IInv
<1>2. /\ alive[p] /\ team[p] \in Playing /\ place' = [place EXCEPT ![p] = x]
      /\ UNCHANGED <<team, alive, capturestyle, returnstyle>>
  BY DEF Walk, styleVars
<1>3. /\ place' \in [Players -> Places \cup {Camera}] /\ place'[p] = x
      /\ \A q \in Players \ {p} : place'[q] = place[q]
  BY <1>1, <1>2 DEF TypeOK
<1>4. Where'
  BY <1>1, <1>2, <1>3 DEF Where
<1>5. CASE Captures(p, x)
  <2>1. /\ flag' = [f \in Flags |-> IF f \in Carries(p) THEN ResetFlag(flag[f]) ELSE flag[f]]
        /\ scored' = [NoScore EXCEPT ![team[p]] = Cardinality(Carries(p))]
        /\ slowed' = [slowed EXCEPT ![p] = FALSE]
    BY <1>5 DEF Walk, AfterCapture
  <2>2. ASSUME NEW f \in Flags
        PROVE  /\ flag'[f] \in FlagRecord /\ Sound(f, flag[f])'
               /\ IsAway(flag'[f]) => IsAway(flag[f])
               /\ flag[f].parent # p => flag'[f] = flag[f]
    <3>1. flag[f] \in FlagRecord /\ Sound(f, flag[f])
      BY <1>1 DEF TypeOK
    <3>2. CASE f \in Carries(p)
      <4>1. flag'[f] = ResetFlag(flag[f]) /\ flag[f].parent = p
        BY <2>1, <3>2 DEF Carries
      <4>2. Sound(f, ResetFlag(flag[f])) /\ ~IsAway(ResetFlag(flag[f]))
            /\ ResetFlag(flag[f]).parent = Nobody
        BY <3>1, ResetSound DEF IsAway
      <4>3. Sound(f, flag[f])'
        BY <1>2, <4>1, <4>2, SoundStays
      <4> QED BY <4>1, <4>2, <4>3 DEF Sound
    <3>3. CASE f \notin Carries(p)
      <4>1. flag'[f] = flag[f]
        BY <2>1, <3>3
      <4>2. Sound(f, flag[f])'
        BY <1>2, <3>1, <4>1, SoundStays
      <4> QED BY <3>1, <4>1, <4>2
    <3> QED BY <3>2, <3>3
  <2>3. flag' \in [Flags -> FlagRecord]
    BY <2>1, <2>2
  <2>4. scored' \in [Playing -> 0 .. Cardinality(Flags)]
    <3>1. Carries(p) \subseteq Flags
      BY DEF Carries
    <3>2. Cardinality(Carries(p)) \in 0 .. Cardinality(Flags)
      BY <3>1, ConstantsAssumption, FS_Subset, FS_CardinalityType
    <3> QED BY <1>2, <2>1, <3>2, NoScoreTyped
  <2>5. slowed' \in [Players -> BOOLEAN] /\ ~slowed'[p]
        /\ \A q \in Players \ {p} : slowed'[q] = slowed[q]
    BY <1>1, <2>1 DEF TypeOK
  <2>6. TypeOK'
    BY <1>1, <1>2, <1>3, <2>3, <2>4, <2>5 DEF TypeOK
  <2>7. SlowCarry'
    BY <1>1, <1>2, <2>2, <2>5 DEF SlowCarry, Untouched
  <2>8. OneSide(flag')
    BY <1>1, <2>2, OneSideKept
  <2> QED BY <1>4, <2>2, <2>6, <2>7, <2>8 DEF IInv
<1>6. CASE ~Captures(p, x)
  <2>1. scored' = NoScore /\ UNCHANGED <<flag, slowed>>
    BY <1>6 DEF Walk
  <2>2. TypeOK'
    BY <1>1, <1>2, <1>3, <2>1, NoScoreTyped DEF TypeOK
  <2>3. \A f \in Flags : Sound(f, flag[f])'
    BY <1>1, <1>2, <2>1, SoundStays
  <2>4. SlowCarry'
    BY <1>1, <1>2, <2>1 DEF SlowCarry, Untouched
  <2> QED BY <1>1, <1>4, <2>1, <2>2, <2>3, <2>4 DEF IInv
<1> QED BY <1>5, <1>6

LEMMA RestartSound ==
  ASSUME IInv, NEW swapTeams \in BOOLEAN, RestartRound(swapTeams) PROVE IInv'
<1>1. TypeOK /\ Where /\ (\A g \in Flags : Sound(g, flag[g])) /\ OneSide(flag) /\ SlowCarry
  BY DEF IInv
<1>2. /\ flag' = [f \in Flags |-> ResetFlag(flag[f])]
      /\ team' = [p \in Players |-> IF swapTeams /\ OnASide(p)
                                     THEN Opponent(team[p]) ELSE team[p]]
      /\ alive' = [p \in Players |-> alive[p] \/ OnASide(p)]
      /\ place' = [p \in Players |-> IF OnASide(p) THEN Camp[team'[p]] ELSE place[p]]
      /\ slowed' = [p \in Players |-> slowed[p] /\ ~OnASide(p)]
      /\ scored' = NoScore /\ UNCHANGED <<capturestyle, returnstyle>>
  BY DEF RestartRound, styleVars
<1>3. ASSUME NEW f \in Flags
      PROVE  /\ flag'[f] \in FlagRecord /\ Sound(f, flag[f])' /\ ~IsAway(flag'[f])
  <2>1. flag[f] \in FlagRecord /\ flag'[f] = ResetFlag(flag[f])
    BY <1>1, <1>2 DEF TypeOK
  <2>2. Sound(f, ResetFlag(flag[f])) /\ ~IsAway(ResetFlag(flag[f]))
        /\ ResetFlag(flag[f]).parent = Nobody
    BY <2>1, ResetSound DEF IsAway
  <2>3. Sound(f, flag[f])'
    BY <2>1, <2>2, SoundStays
  <2> QED BY <2>1, <2>2, <2>3 DEF Sound
<1>4. flag' \in [Flags -> FlagRecord]
  BY <1>2, <1>3
<1>5. ASSUME NEW p \in Players
      PROVE  /\ team'[p] \in Playing \cup {Unassigned, Gone}
             /\ OnASide(p) => /\ team'[p] \in Playing
                              /\ place'[p] \in Places /\ ~slowed'[p]
             /\ ~OnASide(p) => /\ team'[p] = team[p] /\ place'[p] = place[p]
                               /\ alive'[p] = alive[p] /\ slowed'[p] = slowed[p]
  <2>1. team[p] \in Playing \cup {Unassigned, Gone} /\ Opponent(team[p]) \in Playing
        /\ alive[p] \in BOOLEAN /\ slowed[p] \in BOOLEAN
    BY <1>1 DEF TypeOK, Opponent, Playing
  <2>2. team'[p] = IF swapTeams /\ OnASide(p) THEN Opponent(team[p]) ELSE team[p]
    BY <1>2
  <2>3. place'[p] = IF OnASide(p) THEN Camp[team'[p]] ELSE place[p]
    BY <1>2
  <2>4. (alive'[p] <=> alive[p] \/ OnASide(p)) /\ (slowed'[p] <=> slowed[p] /\ ~OnASide(p))
    BY <1>2, Zenon
  <2>5. alive'[p] \in BOOLEAN /\ slowed'[p] \in BOOLEAN
    BY <1>2, Zenon
  <2>6. OnASide(p) => team'[p] \in Playing
    BY <2>1, <2>2 DEF OnASide
  <2>7. OnASide(p) => place'[p] \in Places
    BY <2>3, <2>6, ConstantsAssumption
  <2> QED BY <2>1, <2>2, <2>3, <2>4, <2>5, <2>6, <2>7
<1>6. alive' \in [Players -> BOOLEAN] /\ slowed' \in [Players -> BOOLEAN]
  BY <1>2, Zenon
<1>7. team' \in [Players -> Playing \cup {Unassigned, Gone}]
  BY <1>2, <1>5
<1>8. place' \in [Players -> Places \cup {Camera}]
  <2>1. \A p \in Players : place[p] \in Places \cup {Camera}
    BY <1>1 DEF TypeOK
  <2>2. \A p \in Players : place'[p] \in Places \cup {Camera}
    BY <1>5, <2>1
  <2> QED BY <1>2, <2>2
<1>9. TypeOK'
  BY <1>1, <1>2, <1>4, <1>6, <1>7, <1>8, NoScoreTyped DEF TypeOK
<1>10. Where'
  BY <1>1, <1>5 DEF Where
<1>11. SlowCarry'
  <2> SUFFICES ASSUME Untouched, NEW p \in Players, alive'[p], slowed'[p] PROVE FALSE
    BY DEF SlowCarry, Untouched
  <2>1. ~OnASide(p) /\ alive[p] /\ slowed[p]
    BY <1>5
  <2>2. PICK f \in Flags : flag[f].parent = p
    BY <1>1, <2>1 DEF SlowCarry
  <2>3. Fights(f, p)
    BY <1>1, <2>2, Apart DEF Sound, Carried
  <2> QED BY <2>1, <2>3, FightersPlay DEF OnASide
<1>12. OneSide(flag')
  BY <1>1, <1>3, OneSideKept
<1> QED BY <1>3, <1>9, <1>10, <1>11, <1>12 DEF IInv

LEMMA SetStylesSound == ASSUME IInv, SetStyles PROVE IInv'
<1>1. /\ capturestyle' \in CaptureStyles /\ returnstyle' \in ReturnStyles
      /\ scored' = NoScore /\ UNCHANGED <<team, alive, place, slowed, flag>>
  BY DEF SetStyles
<1> QED BY <1>1, NoScoreTyped
        DEF IInv, TypeOK, Where, SlowCarry, Untouched, Sound, Carried, Fights, Lying

LEMMA InitSound == Init => IInv
<1> SUFFICES ASSUME Init PROVE IInv
  OBVIOUS
<1>1. ASSUME NEW f \in Flags
      PROVE  flag[f] \in FlagRecord /\ Sound(f, flag[f]) /\ ~IsAway(flag[f])
  <2>1. PICK disabled \in SUBSET Flags :
          flag = [g \in Flags |-> [Spawned(g) EXCEPT !.active = g \notin disabled]]
    BY DEF Init
  <2> DEFINE on == f \notin disabled
             r == [active |-> on, parent |-> Nobody, dropped |-> FALSE, carried |-> FALSE,
                   pos |-> OnStand, returnIn |-> 0, nextThink |-> 0]
  <2>2. flag[f] = r
    BY <2>1 DEF Spawned
  <2>3. on \in BOOLEAN /\ 0 \in -1 .. ReturnTime /\ 0 \in 0 .. IdlePeriod
    BY ConstantsAssumption
  <2> HIDE DEF on
  <2>4. r \in FlagRecord
    BY <2>3 DEF FlagRecord
  <2> QED BY <2>2, <2>4, Apart DEF Sound, Carried, Lying, IsAway
<1>2. flag \in [Flags -> FlagRecord]
  BY <1>1 DEF Init
<1>3. TypeOK /\ Where /\ SlowCarry
  BY <1>2, NoScoreTyped DEF Init, TypeOK, Where, SlowCarry
<1>4. OneSide(flag)
  BY <1>1 DEF OneSide, Sided
<1> QED BY <1>1, <1>3, <1>4 DEF IInv

LEMMA NextSound == IInv /\ [Next]_vars => IInv'
<1> SUFFICES ASSUME IInv, [Next]_vars PROVE IInv'
  OBVIOUS
<1>1. TypeOK /\ \A p \in Players : alive[p] => team[p] # Gone
  BY Apart DEF IInv, Where
<1>2. CASE Tick
  BY <1>2, TickSound
<1>3. ASSUME NEW f \in Flags, FlagThink(f) \/ FlagInput(f) PROVE IInv'
  BY <1>3, FlagThinkSound, FlagInputSound
<1>4. ASSUME NEW p \in Players, NEW x \in Places, Walk(p, x) PROVE IInv'
  BY <1>4, WalkSound
<1>5. ASSUME NEW p \in Players, ClientConnect(p) PROVE IInv'
  <2>1. ~alive[p]
    BY <1>1, <1>5 DEF ClientConnect
  <2> QED BY <1>5, <2>1, ArrivalSound DEF ClientConnect, styleVars
<1>6. ASSUME NEW p \in Players, NEW t \in Playing \cup {Unassigned}, ChangeTeam(p, t)
      PROVE  IInv'
  BY <1>6, RemovalSound DEF ChangeTeam, styleVars
<1>7. ASSUME NEW p \in Players, EventKilled(p) PROVE IInv'
  <2>1. team' = [team EXCEPT ![p] = team[p]] /\ team[p] \in Playing \cup {Unassigned, Gone}
    BY <1>1, <1>7 DEF EventKilled, TypeOK
  <2> QED BY <1>7, <2>1, RemovalSound DEF EventKilled, styleVars
<1>8. ASSUME NEW p \in Players, Respawn(p) PROVE IInv'
  <2>1. team' = [team EXCEPT ![p] = team[p]] /\ team[p] \in Playing
    BY <1>1, <1>8 DEF Respawn, TypeOK
  <2>2. Camp[team[p]] \in Places
    BY <2>1, ConstantsAssumption
  <2>3. /\ ~alive[p] /\ alive' = [alive EXCEPT ![p] = TRUE]
        /\ place' = [place EXCEPT ![p] = Camp[team[p]]]
        /\ slowed' = [slowed EXCEPT ![p] = FALSE] /\ scored' = NoScore
        /\ UNCHANGED <<flag, capturestyle, returnstyle>>
    BY <1>8 DEF Respawn, styleVars
  <2> DEFINE t == team[p]
             x == Camp[team[p]]
  <2>4. team' = [team EXCEPT ![p] = t] /\ t \in Playing /\ x \in Places
        /\ place' = [place EXCEPT ![p] = x]
    BY <2>1, <2>2, <2>3
  <2> HIDE DEF t, x
  <2>5. /\ t \in Playing \cup {Unassigned}
        /\ (t \in Playing /\ x \in Places) \/ (t = Unassigned /\ x = Camera)
    BY <2>4
  <2> QED BY <2>3, <2>4, <2>5, ArrivalSound
<1>9. ASSUME NEW p \in Players, ClientDisconnect(p) PROVE IInv'
  BY <1>9, RemovalSound DEF ClientDisconnect, styleVars
<1>10. ASSUME NEW swapTeams \in BOOLEAN, RestartRound(swapTeams) PROVE IInv'
  BY <1>10, RestartSound
<1>11. CASE SetStyles
  BY <1>11, SetStylesSound
<1>12. CASE UNCHANGED vars
  BY <1>12 DEF vars, IInv, TypeOK, Where, SlowCarry, Untouched, Sound, Carried, Fights, Lying
<1> QED BY <1>2, <1>3, <1>4, <1>5, <1>6, <1>7, <1>8, <1>9, <1>10, <1>11, <1>12
        DEF Next, PlayerStep

-----------------------------------------------------------------------------
(* The theorems.                                                           *)

LEMMA AlwaysSound == Spec => []IInv
  BY InitSound, NextSound, PTL DEF Spec

\* Every reachable state is of the type it should be.
THEOREM TypeCorrect == Spec => []TypeOK
<1>1. IInv => TypeOK
  BY DEF IInv
<1> QED BY <1>1, AlwaysSound, PTL

\* A carried flag is on the back of a living player of a side that may carry it,
\* through deaths, changes of side, disconnects, swaps and the map's inputs.
THEOREM LivingCarriers == Spec => []CarriedByTheLiving
<1>1. IInv => CarriedByTheLiving
  BY DEF IInv, Sound, Carried, Fights, CarriedByTheLiving
<1> QED BY <1>1, AlwaysSound, PTL

\* A flag that nobody carries is on its stand, or dropped and on its way home.
THEOREM NoneLost == Spec => []NothingLost
<1>1. IInv => NothingLost
  BY DEF IInv, Sound, Lying, NothingLost
<1> QED BY <1>1, AlwaysSound, PTL

\* With capture style 2 the flags of one side are away only while those of the
\* other are at home, however many flags there are and neutral ones among them.
THEOREM OneSideAway == Spec => []OneFlagAway
<1>1. IInv => OneFlagAway
  BY DEF IInv, OneSide, Sided, IsAway, OneFlagAway
<1> QED BY <1>1, AlwaysSound, PTL

\* Where the map does not touch its flags, and no player can stand at the origin
\* of its coordinates, the living who are slow carry a flag.
THEOREM SlowWithReason ==
  ASSUME Inputs = {}, Centre \notin Places
  PROVE  Spec => []OnlyCarriersAreSlow
<1>1. IInv => OnlyCarriersAreSlow
  BY DEF IInv, SlowCarry, Untouched, OnlyCarriersAreSlow, Carries
<1> QED BY <1>1, AlwaysSound, PTL

-----------------------------------------------------------------------------
(* Flags that their own side returns.                                      *)

Near(f) == {p \in Players : alive[p] /\ place[p] = flag[f].pos}

\* What is so of a dropped flag, by which only players stand who may not carry it,
\* when its search has looked at the slots up to n: it is on its way home, or none
\* of them was among those.
Returning(f, n) ==
  {s \in Searching(f) :
     s.flags[f].dropped => /\ ~s.stop /\ s.flags[f].pos = flag[f].pos
                           /\ \A p \in Near(f) : p > n }

\* No look drops a flag.
LEMMA LookDropsNone ==
  ASSUME NEW f \in Flags, NEW s \in Searching(f), NEW p \in Players,
         ~s.flags[f].dropped
  PROVE  ~Look(f, s, p).flags[f].dropped
<1> DEFINE r == s.flags[f]
           n == [r EXCEPT !.parent = p, !.carried = TRUE, !.dropped = FALSE]
<1>1. s \in Searched /\ r \in FlagRecord
  BY DEF Searching, Sound
<1>2. ~n.dropped
  BY <1>1 DEF FlagRecord
<1> HIDE DEF n
<1>3. \/ Look(f, s, p) = s
      \/ Look(f, s, p) = [s EXCEPT !.stop = TRUE]
      \/ Look(f, s, p) = [s EXCEPT !.flags = [s.flags EXCEPT ![f] = n],
                                   !.slow = s.slow \cup {p}]
  BY DEF Look, Touch, n
<1> QED BY <1>1, <1>2, <1>3 DEF Searched

LEMMA ReturnLook ==
  ASSUME IInv, NEW f \in Flags, flag[f].pos # OnStand, returnstyle > 1,
         \A p \in Near(f) : ~MayCarry(f, p),
         NEW n \in Players, NEW s \in Returning(f, n - 1)
  PROVE  Look(f, s, n) \in Returning(f, n)
<1> DEFINE r == s.flags[f]
           u == Look(f, s, n)
<1>1. s \in Searching(f) /\ r \in FlagRecord /\ s \in Searched
  BY DEF Returning, Searching, Sound
<1>2. Where /\ capturestyle \in CaptureStyles /\ \A p \in Players : alive[p] => team[p] # Gone
  BY Apart DEF IInv, TypeOK, Where
<1>3. u \in Searching(f)
  BY <1>1, <1>2, LookSound
<1>4. CASE ~r.dropped
  BY <1>1, <1>3, <1>4, LookDropsNone DEF Returning
<1>5. CASE r.dropped
  <2>1. /\ ~s.stop /\ r.parent = Nobody /\ r.pos = flag[f].pos
        /\ \A p \in Near(f) : p > n - 1
    BY <1>1, <1>5 DEF Returning, Searching, Sound, Lying
  <2>2. SearchPlace(f, r) = flag[f].pos
    BY <2>1 DEF SearchPlace
  <2>3. Found(f, s, n) <=> n \in Near(f)
    BY <1>2, <2>1, <2>2 DEF Found, Near
  <2>4. n \in Nat /\ \A p \in Near(f) : p \in Nat
    BY Apart DEF Near
  <2>5. CASE n \in Near(f)
    <3>1. u = [s EXCEPT !.flags = [s.flags EXCEPT ![f] = ReturnFlag(r)]]
      BY <1>5, <2>3, <2>5 DEF Look, Touch
    <3>2. u.flags[f] = ReturnFlag(r)
      BY <1>1, <3>1 DEF Searched
    <3>3. ~ReturnFlag(r).dropped
      BY <1>1, ResetSound DEF ReturnFlag
    <3> QED BY <1>3, <3>2, <3>3 DEF Returning
  <2>6. CASE n \notin Near(f)
    <3>1. u = s
      BY <2>3, <2>6 DEF Look
    <3>2. \A p \in Near(f) : p > n
      BY <2>1, <2>4, <2>6
    <3> QED BY <1>3, <2>1, <3>1, <3>2 DEF Returning
  <2> QED BY <2>5, <2>6
<1> QED BY <1>4, <1>5

\* A dropped flag does not outlive the think at which its own side stands by it.
LEMMA ThinkReturns ==
  ASSUME IInv, NEW f \in Flags, flag[f].dropped, returnstyle > 1,
         Near(f) # {}, \A p \in Near(f) : ~MayCarry(f, p)
  PROVE  ~Think(f).flags[f].dropped
<1> DEFINE r == flag[f]
           awake == [r EXCEPT !.nextThink = IF r.active THEN 1 ELSE IdlePeriod]
           due == ReturnWhenDue(awake)
           new == [flag EXCEPT ![f] = due]
           start == Unsearched(new)
<1>1. /\ flag \in [Flags -> FlagRecord] /\ r \in FlagRecord /\ Sound(f, r)
      /\ OneSide(flag)
  BY DEF IInv, TypeOK
<1>2. r.active /\ r.parent = Nobody /\ r.pos # OnStand
  BY <1>1 DEF Sound, Lying
<1>3. Think(f) = Search(f, new)
  BY <1>2 DEF Think
<1>4. /\ awake \in FlagRecord /\ awake.parent = Nobody /\ awake.active
      /\ awake.pos = r.pos /\ awake.dropped
  BY <1>1, <1>2, ConstantsAssumption DEF FlagRecord
<1> HIDE DEF awake
<1>5. Sound(f, awake) /\ (IsAway(awake) => IsAway(r))
  BY <1>1, <1>2, <1>4 DEF Sound, Carried, Lying, IsAway
<1>6. /\ Sound(f, due) /\ due.active /\ due.parent = Nobody
      /\ IsAway(due) => IsAway(r)
      /\ due.dropped => due.pos = r.pos
  BY <1>4, <1>5, ResetSound DEF ReturnWhenDue, ReturnFlag, IsAway
<1> HIDE DEF due
<1>7. new \in [Flags -> FlagRecord] /\ new[f] = due /\ \A g \in Flags \ {f} : new[g] = flag[g]
  BY <1>1, <1>6 DEF Sound
<1> HIDE DEF new
<1>8. start \in Searched /\ start.flags = new /\ start.slow = {} /\ ~start.stop
  BY <1>7 DEF Unsearched, Searched
<1>9. OneSide(new)
  BY <1>1, <1>6, <1>7, OneSideKept
<1>10. \A p \in Near(f) : p > 0 /\ p <= MaxClients
  BY ConstantsAssumption DEF Near, Players
<1> HIDE DEF start
<1>11. start \in Returning(f, 0)
  BY <1>6, <1>7, <1>8, <1>9, <1>10 DEF Returning, Searching
<1> DEFINE S == [n \in 0 .. MaxClients |-> Returning(f, n)]
<1>12. \A n \in Players : n \in 0 .. MaxClients /\ n - 1 \in 0 .. MaxClients
  BY ConstantsAssumption DEF Players
<1>13. \A n \in Players : \A s \in S[n - 1] : Look(f, s, n) \in S[n]
  BY <1>2, <1>12, ReturnLook
<1>14. start \in S[0] /\ S[MaxClients] = Returning(f, MaxClients)
  BY <1>11, ConstantsAssumption
<1> HIDE DEF S
<1>15. Search(f, new) \in Returning(f, MaxClients)
  BY <1>13, <1>14, SearchKeeps DEF start
<1>16. \A p \in Near(f) : ~(p > MaxClients)
  BY <1>10, ConstantsAssumption DEF Near, Players
<1> QED BY <1>3, <1>15, <1>16 DEF Returning

\* With return style 2, a flag at which only its own side stands is home after
\* its think, wherever in the list of players they are.
THEOREM TouchedReturns == Spec => TouchReturns
<1> DEFINE Returns ==
      \A f \in Flags :
        LET near == {p \in Players : alive[p] /\ place[p] = flag[f].pos}
        IN  /\ FlagThink(f) /\ flag[f].dropped /\ returnstyle > 1
            /\ near # {} /\ \A p \in near : ~MayCarry(f, p)
            => ~flag'[f].dropped
<1>1. IInv => Returns
  BY ThinkReturns DEF FlagThink, Near
<1>2. IInv /\ [Next]_vars => [Returns]_vars
  BY <1>1
<1> QED BY <1>2, AlwaysSound, PTL DEF Spec, TouchReturns

-----------------------------------------------------------------------------
(* Dropped flags come home.                                                *)
(*                                                                         *)
(* The return of a flag hangs on a timer: Tick counts it down, and the     *)
(* first think after it has run out takes the flag home.  That this comes  *)
(* to an end for every ReturnTime is argued with a clock: if a flag is     *)
(* dropped, there is a time d by which it is not, since no step takes the  *)
(* flag's way home and the clock together beyond d.                        *)

\* A clock, which moves with the ticks and at no other steps.
VARIABLE now

Clock == now = 0 /\ [][Tick /\ now' = now + 1]_now

\* Whatever the time, more of it will pass.  FairSpec keeps the clock going: a
\* frame is always due or held up by a think that is.
TimePasses == [](\A d \in Nat : <>(now > d))

\* No flag needs more ticks than these to come home.
WayHome(f) ==
  IF flag[f].returnIn >= 0 THEN flag[f].returnIn + 1 + IdlePeriod ELSE flag[f].nextThink

DroppedUntil(f, d) == flag[f].dropped /\ WayHome(f) + now <= d

LEMMA WayHomeTyped ==
  ASSUME IInv, NEW f \in Flags
  PROVE  WayHome(f) \in Nat
<1>1. flag[f] \in FlagRecord
  BY DEF IInv, TypeOK
<1> QED BY <1>1, ConstantsAssumption DEF WayHome, FlagRecord

\* What a search has done to the dropped flag r, if it leaves it dropped: nothing.
Leaving(f, r) == {s \in Searching(f) : s.flags[f].dropped => s.flags[f] = r}

LEMMA LeaveLook ==
  ASSUME IInv, NEW f \in Flags, NEW r, NEW p \in Players, NEW s \in Leaving(f, r)
  PROVE  Look(f, s, p) \in Leaving(f, r)
<1> DEFINE n == [s.flags[f] EXCEPT !.parent = p, !.carried = TRUE, !.dropped = FALSE]
<1>1. s \in Searching(f) /\ s \in Searched /\ s.flags[f] \in FlagRecord
  BY DEF Leaving, Searching, Sound
<1>2. Look(f, s, p) \in Searching(f)
  BY <1>1, LookSound DEF IInv, TypeOK
<1>3. CASE ~s.flags[f].dropped
  BY <1>1, <1>2, <1>3, LookDropsNone DEF Leaving
<1>4. CASE s.flags[f].dropped
  <2>1. ~n.dropped /\ ~ReturnFlag(s.flags[f]).dropped
    BY <1>1, ResetSound DEF FlagRecord, ReturnFlag
  <2> HIDE DEF n
  <2>2. \/ Look(f, s, p) = s
        \/ Look(f, s, p) = [s EXCEPT !.flags = [s.flags EXCEPT ![f] = ReturnFlag(@)]]
        \/ Look(f, s, p) = [s EXCEPT !.stop = TRUE]
        \/ Look(f, s, p) = [s EXCEPT !.flags = [s.flags EXCEPT ![f] = n],
                                     !.slow = s.slow \cup {p}]
    BY DEF Look, Touch, n
  <2>3. Look(f, s, p).flags[f].dropped => Look(f, s, p).flags[f] = s.flags[f]
    BY <1>1, <2>1, <2>2 DEF Searched
  <2> QED BY <1>2, <1>4, <2>3 DEF Leaving
<1> QED BY <1>3, <1>4

\* A flag that its think leaves on the ground still has time to wait.
LEMMA ThinkLeaves ==
  ASSUME IInv, NEW f \in Flags, flag[f].dropped, Think(f).flags[f].dropped
  PROVE  Think(f).flags[f].returnIn = flag[f].returnIn /\ flag[f].returnIn >= 0
<1> DEFINE r == flag[f]
           awake == [r EXCEPT !.nextThink = IF r.active THEN 1 ELSE IdlePeriod]
           due == ReturnWhenDue(awake)
           new == [flag EXCEPT ![f] = due]
           start == Unsearched(new)
<1>1. /\ flag \in [Flags -> FlagRecord] /\ r \in FlagRecord /\ Sound(f, r)
      /\ OneSide(flag)
  BY DEF IInv, TypeOK
<1>2. r.active /\ r.parent = Nobody /\ r.dropped
  BY <1>1 DEF Sound, Lying
<1>3. Think(f) = Search(f, new)
  BY <1>2 DEF Think
<1>4. /\ awake \in FlagRecord /\ awake.parent = Nobody /\ awake.active
      /\ awake.pos = r.pos /\ awake.dropped /\ awake.returnIn = r.returnIn
  BY <1>1, <1>2, ConstantsAssumption DEF FlagRecord
<1> HIDE DEF awake
<1>5. Sound(f, awake) /\ (IsAway(awake) => IsAway(r))
  BY <1>1, <1>2, <1>4 DEF Sound, Carried, Lying, IsAway
<1>6. /\ Sound(f, due) /\ due.active /\ due.parent = Nobody
      /\ IsAway(due) => IsAway(r)
      /\ due.dropped => due.returnIn = r.returnIn /\ ~(r.returnIn < 0)
  BY <1>4, <1>5, ResetSound DEF ReturnWhenDue, ReturnFlag, IsAway
<1> HIDE DEF due
<1>7. new \in [Flags -> FlagRecord] /\ new[f] = due /\ \A g \in Flags \ {f} : new[g] = flag[g]
  BY <1>1, <1>6 DEF Sound
<1> HIDE DEF new
<1>8. start \in Searched /\ start.flags = new /\ start.slow = {}
  BY <1>7 DEF Unsearched, Searched
<1>9. OneSide(new)
  BY <1>1, <1>6, <1>7, OneSideKept
<1> HIDE DEF start
<1>10. start \in Leaving(f, due)
  BY <1>6, <1>7, <1>8, <1>9 DEF Leaving, Searching
<1> DEFINE S == [n \in 0 .. MaxClients |-> Leaving(f, due)]
<1>11. \A n \in Players : n \in 0 .. MaxClients /\ n - 1 \in 0 .. MaxClients
  BY ConstantsAssumption DEF Players
<1>12. \A n \in Players : \A s \in S[n - 1] : Look(f, s, n) \in S[n]
  BY <1>11, LeaveLook
<1>13. start \in S[0] /\ S[MaxClients] = Leaving(f, due)
  BY <1>10, ConstantsAssumption
<1> HIDE DEF S
<1>14. Search(f, new) \in Leaving(f, due)
  BY <1>12, <1>13, SearchKeeps DEF start
<1>15. Think(f).flags[f] = due
  BY <1>3, <1>14 DEF Leaving
<1>16. r.returnIn \in Int
  BY <1>1, ConstantsAssumption DEF FlagRecord
<1> QED BY <1>6, <1>15, <1>16

\* A tick brings every dropped flag nearer to its stand.
LEMMA TickBrings ==
  ASSUME IInv, Tick, NEW f \in Flags
  PROVE  /\ flag'[f].dropped = flag[f].dropped
         /\ WayHome(f)' \in Int /\ WayHome(f)' + 1 <= WayHome(f)
<1> DEFINE r == flag[f]
           n == [r EXCEPT !.nextThink = @ - 1, !.returnIn = Wait(@)]
<1>1. r \in FlagRecord /\ r.nextThink > 0 /\ flag'[f] = n
  BY DEF IInv, TypeOK, Tick
<1>2. /\ r.returnIn \in Int /\ r.nextThink \in 0 .. IdlePeriod
      /\ n.dropped = r.dropped /\ n.nextThink = r.nextThink - 1
      /\ n.returnIn = IF r.returnIn < 0 THEN r.returnIn ELSE r.returnIn - 1
  BY <1>1, ConstantsAssumption DEF FlagRecord, Wait
<1> HIDE DEF n
<1>3. WayHome(f)' = IF n.returnIn >= 0 THEN n.returnIn + 1 + IdlePeriod ELSE n.nextThink
  BY <1>1 DEF WayHome
<1>4. WayHome(f) = IF r.returnIn >= 0 THEN r.returnIn + 1 + IdlePeriod ELSE r.nextThink
  BY DEF WayHome
<1> QED BY <1>1, <1>2, <1>3, <1>4, ConstantsAssumption

\* No other step keeps a dropped flag from coming home.
LEMMA NothingDelays ==
  ASSUME IInv, [Next]_vars, ~Tick, NEW f \in Flags, flag[f].dropped, flag'[f].dropped
  PROVE  WayHome(f)' = WayHome(f)
<1>1. /\ flag \in [Flags -> FlagRecord] /\ flag[f] \in FlagRecord
      /\ flag[f].parent = Nobody /\ flag[f].pos # OnStand
      /\ \A p \in Players : f \notin Carries(p)
  BY Apart DEF IInv, TypeOK, Sound, Lying, Carries
<1>2. ~ResetFlag(flag[f]).dropped
  BY <1>1, ResetSound
<1>3. CASE flag'[f] = flag[f]
  BY <1>3 DEF WayHome
<1>4. ASSUME FlagThink(f) PROVE WayHome(f)' = WayHome(f)
  <2>1. flag'[f] = Think(f).flags[f]
    BY <1>4 DEF FlagThink
  <2>2. flag'[f].returnIn = flag[f].returnIn /\ flag[f].returnIn >= 0
    BY <2>1, ThinkLeaves
  <2> QED BY <2>2 DEF WayHome
<1>5. ASSUME NEW g \in Flags, g # f, FlagThink(g) PROVE flag'[f] = flag[f]
  <2>1. \A h \in Flags \ {g} : Think(g).flags[h] = flag[h]
    BY ThinkSound DEF IInv
  <2> QED BY <1>5, <2>1 DEF FlagThink
<1>6. ASSUME NEW g \in Flags, FlagInput(g) PROVE flag'[f] = flag[f]
  <2>1. PICK n \in {InputReset(flag[g]), InputEnable(flag[g]),
                    InputDisable(flag[g]), InputToggle(flag[g])} :
          flag' = [flag EXCEPT ![g] = n]
    BY <1>6 DEF FlagInput
  <2>2. Sound(g, n) /\ AtHome(n)
    BY InputsSound DEF IInv
  <2>3. ~n.dropped
    BY <2>2 DEF Sound, Lying, AtHome
  <2> QED BY <1>1, <2>1, <2>3
<1>7. ASSUME NEW p \in Players, flag' = RemoveSelfFromFlags(p) PROVE flag'[f] = flag[f]
  BY <1>1, <1>7 DEF RemoveSelfFromFlags
<1>8. ASSUME NEW p \in Players, PlayerStep(p) PROVE flag'[f] = flag[f]
  <2>1. ASSUME NEW x \in Places, Walk(p, x) PROVE flag'[f] = flag[f]
    BY <1>1, <2>1 DEF Walk
  <2>2. CASE ClientConnect(p) \/ Respawn(p)
    BY <2>2 DEF ClientConnect, Respawn
  <2> QED BY <1>7, <1>8, <2>1, <2>2 DEF PlayerStep, ChangeTeam, EventKilled, ClientDisconnect
<1>9. ASSUME NEW swapTeams \in BOOLEAN, RestartRound(swapTeams) PROVE FALSE
  BY <1>2, <1>9 DEF RestartRound
<1>10. CASE SetStyles \/ UNCHANGED vars
  BY <1>3, <1>10 DEF SetStyles, vars
<1> QED BY <1>3, <1>4, <1>5, <1>6, <1>8, <1>9, <1>10 DEF Next

LEMMA OnlyLater ==
  ASSUME IInv, [Next]_vars, now \in Nat, [Tick /\ now' = now + 1]_now,
         NEW f \in Flags, NEW d \in Nat, DroppedUntil(f, d)
  PROVE  DroppedUntil(f, d)' \/ ~flag'[f].dropped
<1>1. WayHome(f) \in Nat
  BY WayHomeTyped
<1>2. CASE Tick
  BY <1>1, <1>2, TickBrings DEF DroppedUntil
<1>3. CASE ~Tick
  BY <1>3, NothingDelays DEF DroppedUntil
<1> QED BY <1>2, <1>3

\* A dropped flag does not lie there for ever, whatever the return time and the
\* styles are, and whatever the players, the map and the console do meanwhile.
THEOREM DroppedFlagsComeHome == Spec /\ Clock /\ TimePasses => DroppedComesHome
<1> SUFFICES ASSUME NEW f \in Flags
             PROVE  Spec /\ Clock /\ TimePasses => (flag[f].dropped ~> ~flag[f].dropped)
  BY DEF DroppedComesHome
<1> DEFINE Moves == [][Tick /\ now' = now + 1]_now
<1>1. Clock => [](now \in Nat)
  <2>1. now = 0 => now \in Nat
    OBVIOUS
  <2>2. now \in Nat /\ [Tick /\ now' = now + 1]_now => (now \in Nat)'
    OBVIOUS
  <2> QED BY <2>1, <2>2, PTL DEF Clock
<1>2. ASSUME NEW d \in Nat
      PROVE  [](IInv /\ now \in Nat) /\ [][Next]_vars /\ Moves /\ <>(now > d)
               /\ DroppedUntil(f, d) => <>(~flag[f].dropped)
  <2>1. /\ IInv /\ now \in Nat /\ [Next]_vars /\ [Tick /\ now' = now + 1]_now
        /\ DroppedUntil(f, d)
        => DroppedUntil(f, d)' \/ (~flag[f].dropped)'
    BY OnlyLater
  <2>2. IInv /\ now \in Nat /\ DroppedUntil(f, d) => ~(now > d)
    BY WayHomeTyped DEF DroppedUntil
  <2> QED BY <2>1, <2>2, PTL
<1>3. IInv /\ now \in Nat /\ flag[f].dropped => \E d \in Nat : DroppedUntil(f, d)
  BY WayHomeTyped DEF DroppedUntil
<1>4. [](IInv /\ now \in Nat) /\ [][Next]_vars /\ Moves /\ (\A d \in Nat : <>(now > d))
        /\ (\E d \in Nat : DroppedUntil(f, d)) => <>(~flag[f].dropped)
  BY <1>2
<1> QED BY <1>1, <1>3, <1>4, AlwaysSound, PTL DEF Spec, Clock, TimePasses
=============================================================================
