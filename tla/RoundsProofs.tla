---------------------------- MODULE RoundsProofs ----------------------------
(***************************************************************************)
(* Theorems about Rounds, for every number of players, rounds, tickets and *)
(* flags and every style.                                                  *)
(*                                                                         *)
(* A Think is a chain of phases that work on one record.  Each invariant   *)
(* is followed through that chain, phase by phase: the books (scores,      *)
(* rounds, the end of the game), the players (lists, lives, allowances),   *)
(* the first round of a match and the calls of the results.  Between them  *)
(* stand the lemmas that say which fields a phase changes at most: they    *)
(* make of a frame a step that an action property can be read from.        *)
(*                                                                         *)
(* What must happen in the end is proved by numbers that fall: what is     *)
(* left of a wave, a round or a match falls with the frames, which a clock *)
(* counts (now), and what the autobalance has still to do falls with the   *)
(* men it moves (moves).                                                   *)
(***************************************************************************)
EXTENDS Rounds, FiniteSetTheorems, WellFoundedInduction, TLAPS

-----------------------------------------------------------------------------
(* Numbers.                                                                *)

\* Division with a remainder.
LEMMA DivMod ==
  ASSUME NEW d \in Nat \ {0}, NEW n \in Nat
  PROVE  /\ n \div d \in Nat /\ n % d \in 0 .. d - 1
         /\ n % d = n - d * (n \div d)
<1>1. n \div d \in Int
  OBVIOUS
<1>2. n % d \in 0 .. d - 1
  OBVIOUS
<1>3. n % d = n - d * (n \div d)
  OBVIOUS
<1> DEFINE q == n \div d
<1>4. ASSUME q <= -1 PROVE FALSE
  <2>1. d * q <= -d
    <3> HIDE DEF q
    <3>1. q \in Int
      BY <1>1 DEF q
    <3> QED BY <3>1, <1>4
  <2> QED BY <2>1, <1>2, <1>3
<1> QED BY <1>1, <1>2, <1>3, <1>4

\* A set of numbers up to n that is not empty has a greatest element.
LEMMA GreatestNumber ==
  ASSUME NEW n \in Nat, NEW T \in SUBSET (1 .. n), T # {}
  PROVE  \E m \in T : \A i \in T : i <= m
<1> DEFINE R == OpToRel(<, Nat)
           D == {n - i : i \in T}
<1>1. IsWellFoundedOn(R, Nat)
  BY NatLessThanWellFounded, Zenon
<1>2. \A x, y \in Nat : x < y => <<x, y>> \in R
  BY DEF OpToRel
<1>3. D \in SUBSET Nat /\ D # {}
  <2>1. \A i \in T : i \in Int /\ n - i \in Nat
    OBVIOUS
  <2>2. D \in SUBSET Nat
    BY <2>1
  <2>3. PICK i \in T : TRUE
    OBVIOUS
  <2>4. n - i \in D
    OBVIOUS
  <2> QED BY <2>2, <2>4
<1> HIDE DEF R, D
<1>4. PICK d \in D : \A x \in D : ~(<<x, d>> \in R)
  BY <1>1, <1>3, WFMin
<1>5. \A x \in D : ~(x < d)
  BY <1>2, <1>3, <1>4
<1>6. PICK m \in T : d = n - m
  BY DEF D
<1>7. ASSUME NEW i \in T PROVE i <= m
  <2>1. n - i \in D
    BY DEF D
  <2>2. ~(n - i < n - m)
    BY <1>5, <1>6, <2>1
  <2>3. i \in Int /\ m \in Int
    OBVIOUS
  <2> QED BY <2>2, <2>3
<1> QED BY <1>7

USE RoundsAssumption

LEMMA SidesDiffer == Americans # British /\ Playing = {Americans, British}
  BY DEF Americans, British, Playing

LEMMA StyleStays ==
  ASSUME [Next]_vars
  PROVE  respawnstyle' = respawnstyle
<1>1. CASE AnyFrame
  BY <1>1 DEF AnyFrame, Frame
<1>2. ASSUME NEW p \in Players, PlayerStep(p)
      PROVE  respawnstyle' = respawnstyle
  <2>1. ASSUME NEW t \in Playing, AttemptJoin(p, t)
        PROVE  respawnstyle' = respawnstyle
    BY <2>1 DEF AttemptJoin
  <2>2. CASE Spectate(p) \/ Killed(p)
    BY <2>2 DEF Spectate, Killed
  <2>3. CASE ClientConnect(p) \/ ClientDisconnected(p)
    BY <2>3 DEF ClientConnect, ClientDisconnected
  <2> QED
    BY <1>2, <2>1, <2>2, <2>3 DEF PlayerStep
<1>3. ASSUME NEW t \in MapInputs[respawnstyle], ForceWinRound(t)
      PROVE  respawnstyle' = respawnstyle
  BY <1>3 DEF ForceWinRound
<1>4. CASE Console
  BY <1>4 DEF Console
<1>5. ASSUME NEW f \in Flags, FlagChange(f)
      PROVE  respawnstyle' = respawnstyle
  BY <1>5 DEF FlagChange
<1>6. CASE UNCHANGED vars
  BY <1>6 DEF vars
<1> QED BY <1>1, <1>2, <1>3, <1>4, <1>5, <1>6 DEF Next

-----------------------------------------------------------------------------
(* The books.                                                              *)

Fields ==
  {"list", "alive", "fresh", "tickets", "fraction", "score", "round",
   "restarting", "restartIn", "winner", "flagIn", "waveAge", "roundAge",
   "gameAge", "askRound", "askMap", "roundReset", "mapReset", "held", "over",
   "decided"}

\* The books of a match: the part of TypeOK that the scores need.
Ledger(s) ==
  /\ DOMAIN s = Fields
  /\ s.score \in [Playing -> Nat]
  /\ s.round \in Nat
  /\ s.over \in BOOLEAN

\* The matches that OnePointPerRound speaks of.
PointsFromRounds == UsingTickets /\ MapInputs[respawnstyle] \subseteq {None}

\* While the match is played, and once it may be over.
Running(s) ==
  /\ Ledger(s) /\ ~s.over
  /\ PointsFromRounds => Total(s) <= s.round - 1

Sound(s) ==
  /\ Ledger(s)
  /\ PointsFromRounds => Total(s) <= IF s.over THEN s.round ELSE s.round - 1

\* r has the books of s.
SameBooks(r, s) ==
  /\ DOMAIN r = DOMAIN s
  /\ r.score = s.score /\ r.round = s.round /\ r.over = s.over

LEMMA RunningIsSound == \A s : Running(s) => Sound(s)
  BY DEF Running, Sound

LEMMA KeepRunning ==
  ASSUME NEW s, NEW r, Running(s), SameBooks(r, s)
  PROVE  Running(r)
  BY DEF Running, SameBooks, Ledger, Total

LEMMA KeepSound ==
  ASSUME NEW s, NEW r, Sound(s), SameBooks(r, s)
  PROVE  Sound(r)
  BY DEF Sound, SameBooks, Ledger, Total

-----------------------------------------------------------------------------
(* The methods that leave the books alone.                                 *)

LEMMA PlayerMethods ==
  ASSUME NEW s, Ledger(s), NEW p, NEW t
  PROVE  /\ SameBooks(ChangeTeam(s, p, t), s)
         /\ SameBooks(Spawn(s, p, t), s)
         /\ SameBooks(Die(s, p), s)
         /\ SameBooks(SwapPlayerTeam(s, p), s)
<1>1. DOMAIN s = Fields
  BY DEF Ledger
<1>2. \A u : SameBooks(ChangeTeam(s, p, u), s)
  BY <1>1 DEF SameBooks, ChangeTeam, Fields
<1>3. SameBooks(Spawn(s, p, t), s) /\ SameBooks(Die(s, p), s)
  BY <1>1 DEF SameBooks, Spawn, Die, Fields
<1>4. SameBooks(SwapPlayerTeam(s, p), s)
  BY <1>2 DEF SwapPlayerTeam, SameBooks
<1> QED BY <1>2, <1>3, <1>4

LEMMA ResetMethods ==
  ASSUME NEW s, Ledger(s)
  PROVE  /\ SameBooks(RespawnAll(s), s)
         /\ SameBooks(ResetTickets(s), s)
         /\ SameBooks(ResetClocks(s), s)
  BY DEF Ledger, SameBooks, RespawnAll, ResetTickets, ResetClocks, Fields

LEMMA DrainMethods ==
  ASSUME NEW s, Ledger(s)
  PROVE  SameBooks(CheckTicketDrain(s), s)
<1>1. ASSUME NEW r, Ledger(r), NEW t
      PROVE  SameBooks(DrainOf(r, t), r)
  BY <1>1 DEF Ledger, SameBooks, DrainOf, RemoveTickets, Fields
<1>2. SameBooks(DrainOf(s, British), s)
  BY <1>1
<1>3. Ledger(DrainOf(s, British))
  BY <1>2 DEF Ledger, SameBooks
<1>4. SameBooks(CheckTicketDrain(s), DrainOf(s, British))
  BY <1>1, <1>3 DEF CheckTicketDrain
<1> QED BY <1>2, <1>4 DEF SameBooks

LEMMA WaveKeepsBooks ==
  ASSUME NEW s, Ledger(s)
  PROVE  SameBooks(Wave(s), s)
<1>1. SameBooks(RespawnWave(s), s)
  BY DEF Ledger, SameBooks, RespawnWave, Fields
<1> QED BY <1>1 DEF Wave, SameBooks

LEMMA DecideKeepsBooks ==
  ASSUME NEW s, Ledger(s)
  PROVE  SameBooks(Decide(s), s)
  BY DEF Ledger, SameBooks, Decide, Fields

LEMMA ElapseKeepsBooks ==
  ASSUME NEW s, Ledger(s), NEW dt
  PROVE  SameBooks(Elapse(s, dt), s)
  BY DEF Ledger, SameBooks, Elapse, Fields

-----------------------------------------------------------------------------
(* The methods that keep the books.                                        *)

\* A swap of the sides moves the scores and leaves their sum.
LEMMA SwapKeepsTotal ==
  ASSUME NEW s, Ledger(s)
  PROVE  /\ Ledger(SwapTeams(s)) /\ Total(SwapTeams(s)) = Total(s)
         /\ SwapTeams(s).round = s.round /\ SwapTeams(s).over = s.over
<1> DEFINE r == SwapTeams(s)
<1>1. DOMAIN r = Fields /\ r.round = s.round /\ r.over = s.over
      /\ r.score = [t \in Playing |-> s.score[Opponent(t)]]
  BY DEF Ledger, SwapTeams, Fields
<1>2. Opponent(Americans) = British /\ Opponent(British) = Americans
  BY SidesDiffer DEF Opponent
<1>3. r.score[Americans] = s.score[British] /\ r.score[British] = s.score[Americans]
  BY <1>1, <1>2, SidesDiffer
<1>4. s.score[Americans] \in Nat /\ s.score[British] \in Nat
  BY SidesDiffer DEF Ledger
<1>5. r.score \in [Playing -> Nat]
  BY <1>1, <1>2, <1>4, SidesDiffer
<1>6. Total(r) = Total(s)
  BY <1>3, <1>4 DEF Total
<1> QED BY <1>1, <1>5, <1>6 DEF Ledger

\* A restart leaves the sum of the scores, the round and the end of the game.
LEMMA RestartKeepsTotal ==
  ASSUME NEW s, Ledger(s), NEW swapTeams \in BOOLEAN
  PROVE  /\ Ledger(RestartRound(s, swapTeams))
         /\ Total(RestartRound(s, swapTeams)) = Total(s)
         /\ RestartRound(s, swapTeams).round = s.round
         /\ RestartRound(s, swapTeams).over = s.over
<1> DEFINE reset == [s EXCEPT !.held = StartingFlags, !.decided = FALSE]
           sides == IF swapTeams THEN SwapTeams(reset) ELSE reset
           up    == RespawnAll(sides)
           full  == ResetTickets(up)
<1>1. SameBooks(reset, s)
  BY DEF Ledger, SameBooks, Fields
<1>2. Ledger(reset) /\ Total(reset) = Total(s)
  BY <1>1 DEF Ledger, SameBooks, Total
<1> HIDE DEF reset
<1>3. /\ Ledger(sides) /\ Total(sides) = Total(s)
      /\ sides.round = s.round /\ sides.over = s.over
  BY <1>1, <1>2, SwapKeepsTotal DEF SameBooks
<1> HIDE DEF sides
<1>4. SameBooks(up, sides) /\ Ledger(up)
  BY <1>3, ResetMethods DEF SameBooks, Ledger
<1> HIDE DEF up
<1>5. SameBooks(full, up) /\ Ledger(full)
  BY <1>4, ResetMethods DEF SameBooks, Ledger
<1> HIDE DEF full
<1>6. SameBooks(ResetClocks(full), full) /\ Ledger(ResetClocks(full))
  BY <1>5, ResetMethods DEF SameBooks, Ledger
<1>7. RestartRound(s, swapTeams) = ResetClocks(full)
  BY DEF RestartRound, full, up, sides, reset
<1> QED BY <1>3, <1>4, <1>5, <1>6, <1>7 DEF SameBooks, Total

LEMMA GoToIntermissionBooks ==
  ASSUME NEW s, Ledger(s)
  PROVE  /\ Ledger(GoToIntermission(s)) /\ Total(GoToIntermission(s)) = Total(s)
         /\ GoToIntermission(s).round = s.round /\ GoToIntermission(s).over
  BY DEF Ledger, GoToIntermission, Total, Fields

\* The points of one round are added once.
LEMMA AddScoreBooks ==
  ASSUME NEW s, Ledger(s), NEW t, NEW n \in Nat
  PROVE  /\ Ledger(AddScore(s, t, n))
         /\ Total(AddScore(s, t, n)) <= Total(s) + n
         /\ t = None => Total(AddScore(s, t, n)) = Total(s)
         /\ AddScore(s, t, n).round = s.round /\ AddScore(s, t, n).over = s.over
<1>1. s.score[Americans] \in Nat /\ s.score[British] \in Nat /\ Total(s) \in Nat
  BY SidesDiffer DEF Ledger, Total
<1>2. CASE t = None
  BY <1>1, <1>2 DEF AddScore
<1>3. CASE t # None
  <2> DEFINE r == AddScore(s, t, n)
  <2>1. /\ DOMAIN r = Fields /\ r.round = s.round /\ r.over = s.over
        /\ r.score = [s.score EXCEPT ![t] = @ + n]
    BY <1>3 DEF Ledger, AddScore, Fields
  <2>2. r.score \in [Playing -> Nat]
    <3>1. t \in Playing => s.score[t] + n \in Nat
      BY DEF Ledger
    <3> QED BY <2>1, <3>1 DEF Ledger
  <2>3. Total(r) <= Total(s) + n
    <3>1. DOMAIN s.score = Playing
      BY DEF Ledger
    <3>2. CASE t = Americans
      BY <3>1, <3>2, <2>1, <1>1, SidesDiffer DEF Total
    <3>3. CASE t = British
      BY <3>1, <3>3, <2>1, <1>1, SidesDiffer DEF Total
    <3>4. CASE t \notin Playing
      BY <3>1, <3>4, <2>1, <1>1, SidesDiffer DEF Total
    <3> QED BY <3>2, <3>3, <3>4, SidesDiffer
  <2> QED BY <2>1, <2>2, <2>3, <1>3 DEF Ledger
<1> QED BY <1>2, <1>3

\* When a round ends, its point and its number go together.
LEMMA NextRoundSound ==
  ASSUME NEW s, Ledger(s), PointsFromRounds => Total(s) <= s.round
  PROVE  /\ Sound(NextRound(s))
         /\ ~UsingTickets => NextRound(s).over = s.over
<1>1. CASE UsingTickets /\ s.round >= TicketRounds
  BY <1>1, GoToIntermissionBooks DEF NextRound, Sound
<1>2. CASE ~(UsingTickets /\ s.round >= TicketRounds)
  <2> DEFINE counted == IF UsingTickets THEN [s EXCEPT !.round = @ + 1] ELSE s
             next    == RestartRound(counted, UsingTickets)
             r       == [next EXCEPT !.restarting = FALSE, !.restartIn = 1]
  <2>1. /\ Ledger(counted) /\ Total(counted) = Total(s) /\ counted.over = s.over
        /\ counted.round = IF UsingTickets THEN s.round + 1 ELSE s.round
    BY DEF Ledger, Total, Fields
  <2>2. UsingTickets \in BOOLEAN
    BY DEF UsingTickets
  <2> HIDE DEF counted
  <2>3. /\ Ledger(next) /\ Total(next) = Total(s)
        /\ next.round = counted.round /\ next.over = s.over
    BY <2>1, <2>2, RestartKeepsTotal
  <2> HIDE DEF next
  <2>4. SameBooks(r, next)
    BY <2>3 DEF Ledger, SameBooks, Fields
  <2>5. NextRound(s) = r
    BY <1>2 DEF NextRound, r, next, counted
  <2> HIDE DEF r
  <2>6. Ledger(r) /\ Total(r) = Total(s) /\ r.round = counted.round /\ r.over = s.over
    BY <2>3, <2>4 DEF SameBooks, Ledger, Total
  <2>7. PointsFromRounds => Total(r) <= r.round - 1
    <3> SUFFICES ASSUME PointsFromRounds
                 PROVE  Total(r) <= r.round - 1
      OBVIOUS
    <3>1. r.round = s.round + 1 /\ Total(r) <= s.round /\ s.round \in Nat
      BY <2>1, <2>6 DEF PointsFromRounds, Ledger
    <3> QED BY <3>1
  <2>8. Total(r) \in Nat /\ r.round \in Nat
    BY <2>6, SidesDiffer DEF Ledger, Total
  <2> QED BY <2>5, <2>6, <2>7, <2>8 DEF Sound
<1> QED BY <1>1, <1>2

\* A full cap ends a round only in the styles without tickets.
LEMMA FlagUpdateRunning ==
  ASSUME NEW s, Running(s)
  PROVE  Running(FlagUpdate(s))
<1>1. Ledger(s)
  BY DEF Running
<1>2. CASE UsingTickets
  <2>1. SameBooks(CheckTicketDrain(s), s) /\ DOMAIN s = Fields
    BY <1>1, DrainMethods DEF Ledger
  <2>2. SameBooks([CheckTicketDrain(s) EXCEPT !.flagIn = DrainPeriod], s)
    BY <2>1 DEF SameBooks, Fields
  <2> QED BY <1>2, <2>2, KeepRunning DEF FlagUpdate
<1>3. CASE ~UsingTickets
  <2>1. ASSUME NEW t \in Playing
        PROVE  Running(HandleScores(s, t, WinBonus))
    <3> DEFINE a == AddScore(s, t, WinBonus)
    <3>1. Ledger(a) /\ a.over = s.over
      BY <1>1, AddScoreBooks
    <3> HIDE DEF a
    <3>2. Sound(NextRound(a)) /\ NextRound(a).over = s.over
      BY <1>3, <3>1, NextRoundSound DEF PointsFromRounds
    <3> QED BY <1>3, <3>2 DEF HandleScores, Running, Sound, PointsFromRounds, a
  <2>2. Running(CheckFullcap(s))
    BY <2>1, SidesDiffer DEF CheckFullcap
  <2>3. SameBooks([CheckFullcap(s) EXCEPT !.flagIn = 1], CheckFullcap(s))
    BY <2>2 DEF Running, Ledger, SameBooks, Fields
  <2> QED BY <1>3, <2>2, <2>3, KeepRunning DEF FlagUpdate
<1> QED BY <1>2, <1>3

LEMMA BalanceRunning ==
  ASSUME NEW s, Running(s), NEW r \in BalanceTeams(s)
  PROVE  Running(r)
<1>1. Ledger(s)
  BY DEF Running
<1>2. CASE r = s
  BY <1>2
<1>3. CASE \E p : r = SwapPlayerTeam(s, p)
  BY <1>1, <1>3, PlayerMethods, KeepRunning
<1> QED BY <1>2, <1>3 DEF BalanceTeams

\* sv_restartmap begins the books anew, sv_restartround keeps them.
LEMMA CommandsRunning ==
  ASSUME NEW s, Running(s)
  PROVE  Running(RestartMap(s)) /\ Running(RestartRoundCommand(s))
<1>1. Ledger(s)
  BY DEF Running
<1>2. Running(RestartRoundCommand(s))
  <2> DEFINE r == RestartRound(s, FALSE)
  <2>1. Ledger(r) /\ Total(r) = Total(s) /\ r.round = s.round /\ r.over = s.over
    BY <1>1, RestartKeepsTotal
  <2>2. Running(r)
    BY <2>1 DEF Running
  <2> HIDE DEF r
  <2>3. SameBooks([r EXCEPT !.roundReset = Off], r)
    BY <2>1 DEF Ledger, SameBooks, Fields
  <2>4. SameBooks([s EXCEPT !.askRound = FALSE,
                            !.roundReset = Pending(s.askRound, @)], s)
    BY <1>1 DEF Ledger, SameBooks, Fields
  <2> QED BY <2>2, <2>3, <2>4, KeepRunning DEF RestartRoundCommand, r
<1>3. Running(RestartMap(s))
  <2> DEFINE new == [s EXCEPT !.score = [t \in Playing |-> 0], !.round = 1]
             r   == RestartRound(new, FALSE)
  <2>1. /\ Ledger(new) /\ new.over = s.over /\ new.round = 1
        /\ new.score[Americans] = 0 /\ new.score[British] = 0
    BY <1>1, SidesDiffer DEF Ledger, Fields
  <2>2. Total(new) = 0
    BY <2>1 DEF Total
  <2> HIDE DEF new
  <2>3. Ledger(r) /\ Total(r) = 0 /\ r.round = 1 /\ r.over = s.over
    BY <2>1, <2>2, RestartKeepsTotal
  <2> HIDE DEF r
  <2>4. Running(r)
    <3>1. ~s.over
      BY DEF Running
    <3>2. Total(r) <= r.round - 1
      BY <2>3
    <3> QED BY <2>3, <3>1, <3>2 DEF Running
  <2>5. SameBooks([r EXCEPT !.mapReset = Off, !.gameAge = 0], r)
    BY <2>3 DEF Ledger, SameBooks, Fields
  <2>6. SameBooks([s EXCEPT !.askMap = FALSE, !.mapReset = Pending(s.askMap, @)], s)
    BY <1>1 DEF Ledger, SameBooks, Fields
  <2>7. Running([r EXCEPT !.mapReset = Off, !.gameAge = 0])
    BY <2>4, <2>5, KeepRunning
  <2>8. Running([s EXCEPT !.askMap = FALSE, !.mapReset = Pending(s.askMap, @)])
    BY <2>6, KeepRunning
  <2> QED BY <2>7, <2>8 DEF RestartMap, r, new
<1> QED BY <1>2, <1>3

\* The end of a Think: the round system, the score limit.
LEMMA FinishThinkSound ==
  ASSUME NEW s, Running(s)
  PROVE  Sound(FinishThink(s))
<1>1. Ledger(s) /\ Sound(s)
  BY RunningIsSound DEF Running
<1>2. Sound(RoundSystem(s))
  <2>1. Sound(Decide(s))
    BY <1>1, DecideKeepsBooks, KeepSound
  <2>2. Sound(HandleScores(s, s.winner, 1))
    <3> DEFINE a == AddScore(s, s.winner, 1)
    <3>1. Ledger(a) /\ Total(a) <= Total(s) + 1 /\ a.round = s.round
      BY <1>1, AddScoreBooks
    <3>2. Total(s) \in Nat /\ s.round \in Nat /\ Total(a) \in Nat
      BY <1>1, <3>1, SidesDiffer DEF Ledger, Total
    <3> HIDE DEF a
    <3>3. PointsFromRounds => Total(a) <= a.round
      <4>1. PointsFromRounds => Total(s) <= s.round - 1
        BY DEF Running
      <4> QED BY <4>1, <3>1, <3>2
    <3> QED BY <3>1, <3>3, NextRoundSound DEF HandleScores, a
  <2>3. RoundSystem(s) \in {s, Decide(s), HandleScores(s, s.winner, 1)}
    <3>1. CASE ~RoundIsOver(s)
      BY <3>1 DEF RoundSystem
    <3>2. CASE RoundIsOver(s) /\ ~s.restarting
      BY <3>2 DEF RoundSystem
    <3>3. CASE RoundIsOver(s) /\ s.restarting /\ ~(s.restartIn < 0)
      BY <3>3 DEF RoundSystem
    <3>4. CASE RoundIsOver(s) /\ s.restarting /\ s.restartIn < 0
      BY <3>4 DEF RoundSystem
    <3> QED BY <3>1, <3>2, <3>3, <3>4
  <2> QED BY <1>1, <2>1, <2>2, <2>3
<1>3. ASSUME NEW r, Sound(r)
      PROVE  Sound(CheckFragLimit(r))
  <2>1. /\ Ledger(GoToIntermission(r)) /\ Total(GoToIntermission(r)) = Total(r)
        /\ GoToIntermission(r).round = r.round /\ GoToIntermission(r).over
    BY <1>3, GoToIntermissionBooks DEF Sound
  <2>2. r.round \in Nat /\ Total(r) \in Nat
    BY <1>3, SidesDiffer DEF Sound, Ledger, Total
  <2>3. PointsFromRounds => Total(r) <= r.round
    BY <1>3, <2>2 DEF Sound
  <2>4. Sound(GoToIntermission(r))
    BY <2>1, <2>3 DEF Sound
  <2> QED BY <1>3, <2>4 DEF CheckFragLimit
<1> QED BY <1>1, <1>2, <1>3 DEF FinishThink

LEMMA ThinkSound ==
  ASSUME NEW s, Sound(s), NEW r \in Think(s)
  PROVE  Sound(r)
<1>1. CASE s.over
  BY <1>1 DEF Think
<1>2. CASE ~s.over /\ TimeIsUp(s)
  <2>1. r = GoToIntermission(s)
    BY <1>2 DEF Think
  <2>2. /\ Ledger(r) /\ Total(r) = Total(s) /\ r.round = s.round /\ r.over
    BY <2>1, GoToIntermissionBooks DEF Sound
  <2>3. s.round \in Nat /\ Total(s) \in Nat
    BY SidesDiffer DEF Sound, Ledger, Total
  <2>4. PointsFromRounds => Total(s) <= s.round - 1
    BY <1>2 DEF Sound
  <2>5. PointsFromRounds => Total(r) <= r.round
    BY <2>2, <2>3, <2>4
  <2> QED BY <2>2, <2>5 DEF Sound
<1>3. CASE ~s.over /\ ~TimeIsUp(s)
  <2>1. Running(s)
    BY <1>3 DEF Sound, Running
  <2>2. PICK b \in BalanceTeams(FlagUpdate(s)) :
          r = FinishThink(Wave(RestartRoundCommand(RestartMap(b))))
    BY <1>3 DEF Think
  <2>3. Running(b)
    BY <2>1, FlagUpdateRunning, BalanceRunning
  <2>4. Running(RestartRoundCommand(RestartMap(b)))
    BY <2>3, CommandsRunning
  <2>5. Running(Wave(RestartRoundCommand(RestartMap(b))))
    BY <2>4, WaveKeepsBooks, KeepRunning DEF Running
  <2> QED BY <2>2, <2>5, FinishThinkSound
<1> QED BY <1>1, <1>2, <1>3

-----------------------------------------------------------------------------
(* The books of every state.                                               *)

LEMMA InitSound == Init => Sound(game)
<1> SUFFICES ASSUME Init PROVE Sound(game)
  OBVIOUS
<1>1. /\ DOMAIN game = Fields /\ game.score = [t \in Playing |-> 0]
      /\ game.round = 1 /\ game.over = FALSE
  BY DEF Init, Fields
<1>2. game.score[Americans] = 0 /\ game.score[British] = 0
  BY <1>1, SidesDiffer
<1>3. Ledger(game)
  <2>1. game.score \in [Playing -> Nat]
    BY <1>1
  <2>2. game.round \in Nat
    BY <1>1
  <2>3. game.over \in BOOLEAN
    BY <1>1, Zenon
  <2> QED BY <1>1, <2>1, <2>2, <2>3 DEF Ledger
<1>4. Total(game) <= game.round - 1
  BY <1>1, <1>2 DEF Total
<1> QED BY <1>1, <1>3, <1>4 DEF Sound

LEMMA NextSound == Sound(game) /\ [Next]_vars => Sound(game)'
<1>a. ASSUME [Next]_vars
      PROVE  PointsFromRounds' <=> PointsFromRounds
  BY <1>a, StyleStays DEF PointsFromRounds, UsingTickets
<1> SUFFICES ASSUME Sound(game), [Next]_vars
             PROVE  Sound(game')
  BY <1>a DEF Sound, Ledger, Total
<1>0. Ledger(game) /\ DOMAIN game = Fields
  BY DEF Sound, Ledger
<1>1. CASE AnyFrame
  <2>1. PICK dt \in {0, 1} : Frame(dt)
    BY <1>1 DEF AnyFrame
  <2>2. game' \in Think(Elapse(game, dt))
    BY <2>1 DEF Frame
  <2>3. Sound(Elapse(game, dt))
    BY <1>0, ElapseKeepsBooks, KeepSound
  <2> QED BY <2>2, <2>3, ThinkSound
<1>2. ASSUME NEW p \in Players, PlayerStep(p)
      PROVE  Sound(game')
  <2>1. Ledger(Die(game, p)) /\ SameBooks(Die(game, p), game)
    BY <1>0, PlayerMethods DEF Ledger, SameBooks
  <2>2. \A t : /\ SameBooks(ChangeTeam(Die(game, p), p, t), game)
               /\ SameBooks(Spawn(ChangeTeam(Die(game, p), p, t), p, t), game)
    <3> TAKE t
    <3>1. SameBooks(ChangeTeam(Die(game, p), p, t), Die(game, p))
      BY <2>1, PlayerMethods
    <3>2. Ledger(ChangeTeam(Die(game, p), p, t))
      BY <2>1, <3>1 DEF Ledger, SameBooks
    <3>3. SameBooks(Spawn(ChangeTeam(Die(game, p), p, t), p, t),
                    ChangeTeam(Die(game, p), p, t))
      BY <3>2, PlayerMethods
    <3> QED BY <2>1, <3>1, <3>3 DEF SameBooks
  <2>3. CASE ClientConnect(p)
    <3>1. SameBooks(game', game)
      BY <1>0, <2>3 DEF ClientConnect, SameBooks, Fields
    <3> QED BY <3>1, KeepSound
  <2>4. ASSUME NEW t \in Playing, AttemptJoin(p, t)
        PROVE  Sound(game')
    <3>1. SameBooks(game', game)
      BY <2>4, <2>2 DEF AttemptJoin
    <3> QED BY <3>1, KeepSound
  <2>5. CASE Spectate(p) \/ ClientDisconnected(p)
    BY <2>5, <2>2, KeepSound DEF Spectate, ClientDisconnected
  <2>6. CASE Killed(p)
    BY <2>6, <2>1, KeepSound DEF Killed
  <2> QED BY <1>2, <2>3, <2>4, <2>5, <2>6 DEF PlayerStep
<1>3. ASSUME NEW t \in MapInputs[respawnstyle], ForceWinRound(t)
      PROVE  Sound(game')
  <2> DEFINE a == AddScore(game, t, WinBonus)
  <2>1. /\ Ledger(a) /\ a.round = game.round
        /\ t = None => Total(a) = Total(game)
    BY <1>0, AddScoreBooks
  <2>2. game.round \in Nat /\ Total(game) \in Nat
    BY <1>0, SidesDiffer DEF Ledger, Total
  <2>3. PointsFromRounds => t = None /\ Total(game) <= game.round
    BY <2>2 DEF PointsFromRounds, Sound
  <2> HIDE DEF a
  <2>4. Sound(NextRound(a))
    BY <2>1, <2>3, NextRoundSound
  <2> QED BY <1>3, <2>4 DEF ForceWinRound, HandleScores, a
<1>4. CASE Console
  <2>1. SameBooks(game', game)
    BY <1>0, <1>4 DEF Console, SameBooks, Fields
  <2> QED BY <2>1, KeepSound
<1>5. ASSUME NEW f \in Flags, FlagChange(f)
      PROVE  Sound(game')
  <2>1. SameBooks(game', game)
    BY <1>0, <1>5 DEF FlagChange, SameBooks, Fields
  <2> QED BY <2>1, KeepSound
<1>6. CASE UNCHANGED vars
  BY <1>6 DEF vars
<1> QED BY <1>1, <1>2, <1>3, <1>4, <1>5, <1>6 DEF Next

\* With tickets, and no map input that hands out mp_winbonus, the sides have at
\* most one point together for each round that is over, for any number of players,
\* rounds and tickets, with any restart commands, limits, draws and flags, and
\* whatever was in the memory of the rules when they were made (HandleScores).
THEOREM PointsAreEarned == Spec => []OnePointPerRound
<1>1. Sound(game) => OnePointPerRound
  BY DEF Sound, OnePointPerRound, PointsFromRounds
<1> QED BY InitSound, NextSound, <1>1, PTL DEF Spec

-----------------------------------------------------------------------------
(* The lists of the teams.                                                 *)

\* Who is on a list, and that nobody is on it twice.
Entries(list) == {list[i] : i \in DOMAIN list}
Distinct(list) == \A i, j \in DOMAIN list : list[i] = list[j] => i = j

\* Taking a player off a list takes his entry and leaves the others.
LEMMA WithoutIs ==
  ASSUME NEW list \in Seq(Players), Distinct(list), NEW p
  PROVE  /\ Without(list, p) \in Seq(Players)
         /\ Distinct(Without(list, p))
         /\ Entries(Without(list, p)) = Entries(list) \ {p}
<1> DEFINE First(i) == i \in DOMAIN list /\ list[i] = p /\ \A j \in 1 .. i - 1 : list[j] # p
           first == CHOOSE i \in DOMAIN list :
                 list[i] = p /\ \A j \in 1 .. i - 1 : list[j] # p
           rest == [i \in 1 .. Len(list) - 1 |-> list[IF i < first THEN i ELSE i + 1]]
<1>1. CASE \E i \in DOMAIN list : list[i] = p
  <2>1. PICK k \in DOMAIN list : list[k] = p
    BY <1>1
  <2>2. \A j \in 1 .. k - 1 : list[j] # p
    BY <2>1 DEF Distinct
  <2>3. first = k
    BY <2>1, <2>2 DEF Distinct
  <2>4. Without(list, p) = rest
    BY <1>1 DEF Without
  <2> HIDE DEF first
  <2>5. rest \in Seq(Players) /\ DOMAIN rest = 1 .. Len(list) - 1
    BY <2>1, <2>3
  <2>6. Distinct(rest)
    BY <2>3, <2>1, <2>5 DEF Distinct
  <2>7. Entries(rest) \subseteq Entries(list) \ {p}
    BY <2>1, <2>3, <2>5 DEF Distinct, Entries
  <2>8. ASSUME NEW i \in DOMAIN list, list[i] # p
        PROVE  list[i] \in Entries(rest)
    <3>1. CASE i < k
      <4>1. i \in DOMAIN rest /\ rest[i] = list[i]
        BY <3>1, <2>1, <2>3, <2>5
      <4> QED BY <4>1 DEF Entries
    <3>2. CASE i > k
      <4>1. i - 1 \in DOMAIN rest /\ rest[i - 1] = list[i]
        BY <3>2, <2>1, <2>3, <2>5
      <4> QED BY <4>1 DEF Entries
    <3> QED BY <3>1, <3>2, <2>1, <2>8
  <2>9. Entries(list) \ {p} \subseteq Entries(rest)
    BY <2>8 DEF Entries
  <2> HIDE DEF rest
  <2> QED BY <2>4, <2>5, <2>6, <2>7, <2>9
<1>2. CASE ~\E i \in DOMAIN list : list[i] = p
  BY <1>2 DEF Without, Entries
<1> QED BY <1>1, <1>2

LEMMA AppendIs ==
  ASSUME NEW list \in Seq(Players), Distinct(list), NEW p \in Players,
         p \notin Entries(list)
  PROVE  /\ Append(list, p) \in Seq(Players)
         /\ Distinct(Append(list, p))
         /\ Entries(Append(list, p)) = Entries(list) \cup {p}
<1>1. /\ Append(list, p) \in Seq(Players)
      /\ DOMAIN Append(list, p) = 1 .. Len(list) + 1
      /\ \A i \in DOMAIN list : Append(list, p)[i] = list[i]
      /\ Append(list, p)[Len(list) + 1] = p
  OBVIOUS
<1>2. DOMAIN list = 1 .. Len(list) /\ Len(list) \in Nat
  OBVIOUS
<1>3. \A i \in 1 .. Len(list) + 1 : i \in DOMAIN list \/ i = Len(list) + 1
  BY <1>2
<1>4. Distinct(Append(list, p))
  <2> DEFINE longer == Append(list, p)
  <2>1. /\ DOMAIN longer = 1 .. Len(list) + 1
        /\ \A i \in DOMAIN list : longer[i] = list[i]
        /\ longer[Len(list) + 1] = p
    BY <1>1
  <2>2. \A i \in DOMAIN list : list[i] # p
    BY DEF Entries
  <2> HIDE DEF longer
  <2> SUFFICES ASSUME NEW i \in 1 .. Len(list) + 1, NEW j \in 1 .. Len(list) + 1,
                      longer[i] = longer[j]
               PROVE  i = j
    BY <2>1 DEF Distinct, longer
  <2> QED BY <1>3, <2>1, <2>2 DEF Distinct
<1>5. Entries(Append(list, p)) = Entries(list) \cup {p}
  <2> DEFINE longer == Append(list, p)
  <2>1. /\ DOMAIN longer = 1 .. Len(list) + 1
        /\ \A i \in DOMAIN list : longer[i] = list[i]
        /\ longer[Len(list) + 1] = p
    BY <1>1
  <2> HIDE DEF longer
  <2>2. Entries(longer) \subseteq Entries(list) \cup {p}
    BY <1>3, <2>1 DEF Entries
  <2>3. \A i \in DOMAIN list : i \in DOMAIN longer
    BY <1>2, <2>1
  <2>4. Entries(list) \subseteq Entries(longer)
    BY <2>1, <2>3 DEF Entries
  <2>5. Len(list) + 1 \in DOMAIN longer
    BY <1>2, <2>1
  <2>6. p \in Entries(longer)
    BY <2>1, <2>5 DEF Entries
  <2> QED BY <2>2, <2>4, <2>6 DEF longer
<1> QED BY <1>1, <1>4, <1>5

\* A list holds as many players as it is long.
LEMMA DistinctLength ==
  ASSUME NEW list \in Seq(Players), Distinct(list)
  PROVE  IsFiniteSet(Entries(list)) /\ Cardinality(Entries(list)) = Len(list)
<1> DEFINE h == [i \in 1 .. Len(list) |-> list[i]]
<1>1. Len(list) \in Nat /\ DOMAIN list = 1 .. Len(list)
  OBVIOUS
<1>2. h \in Bijection(1 .. Len(list), Entries(list))
  BY <1>1 DEF Bijection, Injection, Surjection, Entries, Distinct, IsInjective
<1>3. IsFiniteSet(1 .. Len(list)) /\ Cardinality(1 .. Len(list)) = Len(list)
  <2> DEFINE n == Len(list)
  <2>1. n \in Nat
    BY <1>1
  <2> HIDE DEF n
  <2>2. IsFiniteSet(1 .. n) /\ Cardinality(1 .. n) = n
    BY <2>1, FS_Interval
  <2> QED BY <2>2 DEF n
<1>4. ExistsBijection(1 .. Len(list), Entries(list))
  BY <1>2 DEF ExistsBijection
<1> QED BY <1>3, <1>4, FS_Bijection, FS_SameCardinalityBij

-----------------------------------------------------------------------------
(* The players.                                                            *)

\* Who is on a side is in the game and on one side only.
Listed(s, C) ==
  /\ \A t \in Playing : Distinct(s.list[t])
  /\ Members(s, Americans) \cap Members(s, British) = {}
  /\ Fighters(s) \subseteq C

\* With tickets whoever fights has used up his first spawn.
Used(s) == UsingTickets => \A p \in Fighters(s) : ~(s.alive[p] /\ s.fresh[p])

Fit(s, C) == s \in GameRecord /\ Listed(s, C) /\ Used(s)

\* r has the players of s.
SameMen(r, s) == r.list = s.list /\ r.alive = s.alive /\ r.fresh = s.fresh

\* The lists tell who is on a side.
LEMMA SameLists ==
  ASSUME NEW s, NEW r, r.list = s.list
  PROVE  /\ \A t : Members(r, t) = Members(s, t) /\ Strength(r, t) = Strength(s, t)
         /\ Fighters(r) = Fighters(s)
         /\ \A C : Listed(s, C) => Listed(r, C)
<1>1. \A t : Members(r, t) = Members(s, t) /\ Strength(r, t) = Strength(s, t)
  BY DEF Members, Strength
<1> QED BY <1>1 DEF Fighters, Listed

\* A phase that leaves the players alone has only the types to keep.
LEMMA KeepFit ==
  ASSUME NEW C, NEW s, NEW r \in GameRecord, Fit(s, C), SameMen(r, s)
  PROVE  Fit(r, C)
  BY SameLists DEF Fit, Used, SameMen

LEMMA MembersAre ==
  ASSUME NEW s, NEW t
  PROVE  Members(s, t) = Entries(s.list[t])
  BY DEF Members, Entries

LEMMA FightersArePlayers ==
  ASSUME NEW s \in GameRecord
  PROVE  \A t \in Playing : Members(s, t) \subseteq Players /\ Members(s, t) \subseteq Fighters(s)
<1>1. s.list \in [Playing -> Seq(Players)]
  BY DEF GameRecord
<1>2. \A t \in Playing : Members(s, t) \subseteq Players
  BY <1>1 DEF Members
<1> QED BY <1>2, SidesDiffer DEF Fighters

LEMMA ChangeTeamFit ==
  ASSUME NEW C, NEW s, Fit(s, C), NEW p \in C \cap Players, NEW t,
         t \in Playing /\ UsingTickets => ~(s.alive[p] /\ s.fresh[p])
  PROVE  /\ Fit(ChangeTeam(s, p, t), C)
         /\ \A u \in Playing : Members(ChangeTeam(s, p, t), u)
              = IF u = t THEN Members(s, u) \cup {p} ELSE Members(s, u) \ {p}
<1> DEFINE r == ChangeTeam(s, p, t)
<1>1. s.list \in [Playing -> Seq(Players)]
  BY DEF Fit, GameRecord
<1>2. ASSUME NEW u \in Playing
      PROVE  /\ r.list[u] = IF u = t THEN Append(Without(s.list[u], p), p) ELSE Without(s.list[u], p)
             /\ r.list[u] \in Seq(Players) /\ Distinct(r.list[u])
             /\ Members(r, u) = IF u = t THEN Members(s, u) \cup {p} ELSE Members(s, u) \ {p}
  <2>1. r.list[u] = IF u = t THEN Append(Without(s.list[u], p), p) ELSE Without(s.list[u], p)
    BY DEF ChangeTeam, Fit, GameRecord
  <2>2. s.list[u] \in Seq(Players) /\ Distinct(s.list[u])
    BY <1>1 DEF Fit, Listed
  <2>3. /\ Without(s.list[u], p) \in Seq(Players) /\ Distinct(Without(s.list[u], p))
        /\ Entries(Without(s.list[u], p)) = Entries(s.list[u]) \ {p}
    BY <2>2, WithoutIs
  <2>4. LET w == Without(s.list[u], p)
        IN  /\ Append(w, p) \in Seq(Players) /\ Distinct(Append(w, p))
            /\ Entries(Append(w, p)) = Entries(w) \cup {p}
    BY <2>3, AppendIs
  <2> QED BY <2>1, <2>3, <2>4, MembersAre
<1>3. /\ r \in GameRecord
      /\ r.alive = s.alive /\ r.fresh = s.fresh
  <2>1. r = [s EXCEPT !.list = r.list]
    BY DEF ChangeTeam, Fit, GameRecord
  <2>2. r.list \in [Playing -> Seq(Players)]
    <3>1. r.list = [u \in Playing |-> r.list[u]]
      BY DEF ChangeTeam, Fit, GameRecord
    <3> HIDE DEF r
    <3> QED BY <3>1, <1>2
  <2> HIDE DEF r
  <2> QED BY <2>1, <2>2 DEF Fit, GameRecord
<1> HIDE DEF r
<1>4. Listed(r, C)
  BY <1>2, SidesDiffer DEF Fit, Listed, Fighters
<1>5. Used(r)
  BY <1>2, <1>3, SidesDiffer DEF Fit, Used, Fighters
<1> QED BY <1>2, <1>3, <1>4, <1>5 DEF Fit, r

LEMMA DieFit ==
  ASSUME NEW C, NEW s, Fit(s, C), NEW p \in Players
  PROVE  Fit(Die(s, p), C) /\ ~Die(s, p).alive[p]
<1>1. /\ Die(s, p) \in GameRecord /\ Die(s, p).list = s.list /\ Die(s, p).fresh = s.fresh
      /\ Die(s, p).alive = [s.alive EXCEPT ![p] = FALSE] /\ s.alive \in [Players -> BOOLEAN]
  BY DEF Fit, GameRecord, Die
<1> QED BY <1>1, SameLists DEF Fit, Used

LEMMA SpawnFit ==
  ASSUME NEW C, NEW s, Fit(s, C), NEW p \in Players, NEW t \in Playing
  PROVE  Fit(Spawn(s, p, t), C)
<1> DEFINE r == Spawn(s, p, t)
<1>0. /\ s.alive \in [Players -> BOOLEAN] /\ s.fresh \in [Players -> BOOLEAN]
      /\ s.tickets \in [Playing -> Nat]
  BY DEF Fit, GameRecord
<1>1. /\ r.list = s.list /\ r.fresh = [s.fresh EXCEPT ![p] = @ /\ ~UsingTickets]
      /\ r.alive = [s.alive EXCEPT ![p] = TRUE]
      /\ r.tickets = [s.tickets EXCEPT ![t] = IF UsingTickets /\ ~s.fresh[p] /\ @ > 0 THEN @ - 1 ELSE @]
      /\ r = [s EXCEPT !.alive = r.alive, !.fresh = r.fresh, !.tickets = r.tickets]
  BY DEF Fit, GameRecord, Spawn
<1> HIDE DEF r
<1>2. /\ r.alive \in [Players -> BOOLEAN] /\ r.fresh \in [Players -> BOOLEAN]
      /\ r.tickets \in [Playing -> Nat]
  BY <1>0, <1>1
<1>3. r \in GameRecord
  BY <1>1, <1>2 DEF Fit, GameRecord
<1>4. Listed(r, C)
  BY <1>1, SameLists DEF Fit
<1>5. Used(r)
  <2> SUFFICES ASSUME UsingTickets, NEW q \in Fighters(s)
               PROVE  ~(r.alive[q] /\ r.fresh[q])
    BY <1>1, SameLists DEF Used
  <2>1. q \in Players /\ ~(s.alive[q] /\ s.fresh[q])
    BY FightersArePlayers, SidesDiffer DEF Fit, Used, Fighters
  <2>2. CASE q = p
    BY <2>2, <1>0, <1>1
  <2>3. CASE q # p
    BY <2>1, <2>3, <1>0, <1>1
  <2> QED BY <2>2, <2>3
<1> QED BY <1>3, <1>4, <1>5 DEF r, Fit

\* The swapped player is dead.
LEMMA BalanceFit ==
  ASSUME NEW C \in SUBSET Players, NEW s, Fit(s, C), NEW r \in BalanceTeams(s)
  PROVE  Fit(r, C)
<1>1. ASSUME NEW p \in Members(s, Bigger(s))
      PROVE  Fit(SwapPlayerTeam(s, p), C)
  <2>1. Bigger(s) \in Playing
    BY DEF Bigger, Playing
  <2>2. p \in C \cap Players
    BY <2>1, FightersArePlayers DEF Fit, Listed
  <2>3. CASE s.alive[p]
    BY <2>3 DEF SwapPlayerTeam
  <2>4. CASE ~s.alive[p]
    BY <2>2, <2>4, ChangeTeamFit DEF SwapPlayerTeam
  <2> QED BY <2>3, <2>4
<1> QED BY <1>1 DEF BalanceTeams

LEMMA OpponentIs ==
  /\ Opponent(Americans) = British /\ Opponent(British) = Americans
  /\ \A t \in Playing : Opponent(t) \in Playing /\ Opponent(t) # t /\ Opponent(Opponent(t)) = t
  BY SidesDiffer DEF Opponent

LEMMA SwapTeamsFit ==
  ASSUME NEW C, NEW s, Fit(s, C)
  PROVE  Fit(SwapTeams(s), C) /\ Fighters(SwapTeams(s)) = Fighters(s)
<1> DEFINE r == SwapTeams(s)
<1>1. /\ r.list = [t \in Playing |-> s.list[Opponent(t)]]
      /\ r.score = [t \in Playing |-> s.score[Opponent(t)]]
      /\ r.alive = s.alive /\ r.fresh = s.fresh
      /\ r = [s EXCEPT !.list = r.list, !.score = r.score]
  BY DEF Fit, GameRecord, SwapTeams
<1> HIDE DEF r
<1>2. r.list \in [Playing -> Seq(Players)] /\ r.score \in [Playing -> Nat]
  <2>1. s.list \in [Playing -> Seq(Players)] /\ s.score \in [Playing -> Nat]
    BY DEF Fit, GameRecord
  <2>2. \A t \in Playing : s.list[Opponent(t)] \in Seq(Players) /\ s.score[Opponent(t)] \in Nat
    BY <2>1, OpponentIs
  <2> QED BY <1>1, <2>2
<1>3. r \in GameRecord
  BY <1>1, <1>2 DEF Fit, GameRecord
<1>4. \A t \in Playing : r.list[t] = s.list[Opponent(t)] /\ Members(r, t) = Members(s, Opponent(t))
  BY <1>1 DEF Members
<1>5. Fighters(r) = Fighters(s)
  BY <1>4, OpponentIs, SidesDiffer DEF Fighters
<1>6. Listed(r, C)
  BY <1>4, <1>5, OpponentIs, SidesDiffer DEF Fit, Listed
<1>7. Used(r)
  BY <1>1, <1>5 DEF Fit, Used
<1> QED BY <1>3, <1>5, <1>6, <1>7 DEF Fit, r

LEMMA RespawnAllFit ==
  ASSUME NEW C, NEW s, Fit(s, C)
  PROVE  Fit(RespawnAll(s), C)
<1> DEFINE r == RespawnAll(s)
<1>1. /\ r.list = s.list
      /\ r.alive = [p \in Players |-> s.alive[p] \/ p \in Fighters(s)]
      /\ r.fresh = [p \in Players |-> s.fresh[p] /\ ~(UsingTickets /\ p \in Fighters(s))]
      /\ r = [s EXCEPT !.alive = r.alive, !.fresh = r.fresh]
  BY DEF Fit, GameRecord, RespawnAll
<1> HIDE DEF r
<1>2. s.alive \in [Players -> BOOLEAN] /\ s.fresh \in [Players -> BOOLEAN]
  BY DEF Fit, GameRecord
<1>3. r.alive \in [Players -> BOOLEAN] /\ r.fresh \in [Players -> BOOLEAN]
  BY <1>1, <1>2
<1>4. r \in GameRecord
  BY <1>1, <1>3 DEF Fit, GameRecord
<1>5. Used(r)
  <2>1. Fighters(r) = Fighters(s) /\ Fighters(s) \subseteq Players
    BY <1>1, SameLists, FightersArePlayers, SidesDiffer DEF Fit, Fighters
  <2> QED BY <1>1, <2>1 DEF Used
<1> QED BY <1>1, <1>4, <1>5, SameLists DEF Fit, r

LEMMA RestartMethodsFit ==
  ASSUME NEW C, NEW s, Fit(s, C)
  PROVE  Fit(ResetTickets(s), C) /\ Fit(ResetClocks(s), C)
<1>1. ResetTickets(s) \in GameRecord /\ SameMen(ResetTickets(s), s)
  <2>1. /\ DrainPeriod \in 0 .. DrainPeriod /\ StartTickets \in [Playing -> Nat]
        /\ [t \in Playing |-> 0] \in [Playing -> 0 .. Parts - 1]
    OBVIOUS
  <2> QED BY <2>1 DEF Fit, GameRecord, SameMen, ResetTickets
<1>2. ResetClocks(s) \in GameRecord /\ SameMen(ResetClocks(s), s)
  <2>1. 0 \in 0 .. RoundTime /\ 0 \in 0 .. RespawnTime
    BY DEF RoundTime
  <2> QED BY <2>1 DEF Fit, GameRecord, SameMen, ResetClocks
<1> QED BY <1>1, <1>2, KeepFit

LEMMA RestartRoundFit ==
  ASSUME respawnstyle \in Styles, NEW C, NEW s, Fit(s, C), NEW swapTeams \in BOOLEAN
  PROVE  Fit(RestartRound(s, swapTeams), C)
<1> DEFINE reset == [s EXCEPT !.held = StartingFlags, !.decided = FALSE]
           sides == IF swapTeams THEN SwapTeams(reset) ELSE reset
<1>1. StartingFlags \in [Flags -> Playing \cup {Unassigned, Inactive}]
  BY DEF StartingFlags, Flags
<1>2. reset \in GameRecord /\ SameMen(reset, s)
  BY <1>1 DEF Fit, GameRecord, SameMen
<1>3. Fit(reset, C)
  BY <1>2, KeepFit
<1> HIDE DEF reset
<1>4. Fit(sides, C)
  BY <1>3, SwapTeamsFit
<1> HIDE DEF sides
<1>5. Fit(ResetClocks(ResetTickets(RespawnAll(sides))), C)
  BY <1>4, RespawnAllFit, RestartMethodsFit
<1> QED BY <1>5 DEF RestartRound, sides, reset

LEMMA ScoresFit ==
  ASSUME NEW C, NEW s, Fit(s, C)
  PROVE  /\ Fit(GoToIntermission(s), C)
         /\ Fit(CheckFragLimit(s), C)
         /\ \A t \in Playing \cup {None}, n \in Nat : Fit(AddScore(s, t, n), C)
<1>1. GoToIntermission(s) \in GameRecord /\ SameMen(GoToIntermission(s), s)
  BY DEF Fit, GameRecord, SameMen, GoToIntermission
<1>2. ASSUME NEW t \in Playing \cup {None}, NEW n \in Nat, t # None
      PROVE  AddScore(s, t, n) \in GameRecord /\ SameMen(AddScore(s, t, n), s)
  <2>1. s.score \in [Playing -> Nat]
    BY DEF Fit, GameRecord
  <2>2. [s.score EXCEPT ![t] = @ + n] \in [Playing -> Nat]
    BY <1>2, <2>1
  <2>3. AddScore(s, t, n) = [s EXCEPT !.score = [s.score EXCEPT ![t] = @ + n]]
    BY <1>2 DEF AddScore
  <2> QED BY <2>2, <2>3 DEF Fit, GameRecord, SameMen
<1>3. \A t \in Playing \cup {None}, n \in Nat : Fit(AddScore(s, t, n), C)
  <2> TAKE t \in Playing \cup {None}, n \in Nat
  <2>1. CASE t = None
    BY <2>1 DEF AddScore
  <2>2. CASE t # None
    BY <2>2, <1>2, KeepFit
  <2> QED BY <2>1, <2>2
<1>4. Fit(GoToIntermission(s), C)
  BY <1>1, KeepFit
<1> QED BY <1>3, <1>4 DEF CheckFragLimit

LEMMA NextRoundFit ==
  ASSUME respawnstyle \in Styles, NEW C, NEW s, Fit(s, C)
  PROVE  Fit(NextRound(s), C)
<1> DEFINE counted == IF UsingTickets THEN [s EXCEPT !.round = @ + 1] ELSE s
           next    == RestartRound(counted, UsingTickets)
           r       == [next EXCEPT !.restarting = FALSE, !.restartIn = 1]
<1>1. counted \in GameRecord /\ SameMen(counted, s)
  <2>1. s.round + 1 \in Nat
    <3>1. s.round \in Nat
      BY DEF Fit, GameRecord
    <3> QED BY <3>1
  <2> QED BY <2>1 DEF Fit, GameRecord, SameMen
<1>2. Fit(counted, C)
  BY <1>1, KeepFit
<1> HIDE DEF counted
<1>3. Fit(next, C)
  <2>1. UsingTickets \in BOOLEAN
    BY DEF UsingTickets
  <2> QED BY <1>2, <2>1, RestartRoundFit
<1> HIDE DEF next
<1>4. r \in GameRecord /\ SameMen(r, next)
  <2>1. 1 \in -1 .. DecideDelay
    OBVIOUS
  <2> QED BY <1>3, <2>1 DEF Fit, GameRecord, SameMen
<1>5. Fit(r, C)
  BY <1>3, <1>4, KeepFit
<1> QED BY <1>5, ScoresFit DEF NextRound, r, next, counted

LEMMA HandleScoresFit ==
  ASSUME respawnstyle \in Styles, NEW C, NEW s, Fit(s, C), NEW t \in Playing \cup {None}, NEW n \in Nat
  PROVE  Fit(HandleScores(s, t, n), C)
  BY ScoresFit, NextRoundFit DEF HandleScores

LEMMA DrainFit ==
  ASSUME NEW C, NEW s, Fit(s, C), NEW t \in Playing
  PROVE  Fit(DrainOf(s, t), C)
<1> DEFINE sum == Drain[t] + s.fraction[t]
           r   == RemoveTickets(s, t, Drain[t])
<1>1. /\ s.fraction \in [Playing -> 0 .. Parts - 1] /\ s.tickets \in [Playing -> Nat]
      /\ sum \in Nat /\ sum \div Parts \in Nat /\ sum % Parts \in 0 .. Parts - 1
  <2>1. s.fraction \in [Playing -> 0 .. Parts - 1] /\ s.tickets \in [Playing -> Nat]
    BY DEF Fit, GameRecord
  <2>2. sum \in Nat
    BY <2>1
  <2> HIDE DEF sum
  <2> QED BY <2>1, <2>2, DivMod
<1>2. r \in GameRecord /\ SameMen(r, s)
  <2>1. CASE sum \div Parts >= s.tickets[t]
    <3>1. r = [s EXCEPT !.tickets = [s.tickets EXCEPT ![t] = 0],
                        !.fraction = [s.fraction EXCEPT ![t] = 0]]
      BY <2>1 DEF RemoveTickets
    <3>2. /\ [s.tickets EXCEPT ![t] = 0] \in [Playing -> Nat]
          /\ [s.fraction EXCEPT ![t] = 0] \in [Playing -> 0 .. Parts - 1]
      BY <1>1
    <3> QED BY <3>1, <3>2 DEF Fit, GameRecord, SameMen
  <2>2. CASE ~(sum \div Parts >= s.tickets[t])
    <3> DEFINE left == s.tickets[t] - sum \div Parts
               rest == sum % Parts
    <3>1. r = [s EXCEPT !.tickets = [s.tickets EXCEPT ![t] = left],
                        !.fraction = [s.fraction EXCEPT ![t] = rest]]
      BY <2>2 DEF RemoveTickets
    <3>2. left \in Nat /\ rest \in 0 .. Parts - 1
      <4>1. s.tickets[t] \in Nat
        BY <1>1
      <4> HIDE DEF sum
      <4> QED BY <4>1, <1>1, <2>2
    <3> HIDE DEF left, rest, r
    <3>3. /\ [s.tickets EXCEPT ![t] = left] \in [Playing -> Nat]
          /\ [s.fraction EXCEPT ![t] = rest] \in [Playing -> 0 .. Parts - 1]
      BY <1>1, <3>2
    <3> QED BY <3>1, <3>3 DEF Fit, GameRecord, SameMen
  <2> QED BY <2>1, <2>2
<1> QED BY <1>2, KeepFit DEF DrainOf

LEMMA FlagUpdateFit ==
  ASSUME respawnstyle \in Styles, NEW C, NEW s, Fit(s, C)
  PROVE  Fit(FlagUpdate(s), C)
<1>1. Fit(CheckTicketDrain(s), C)
  BY DrainFit, SidesDiffer DEF CheckTicketDrain
<1>2. Fit(CheckFullcap(s), C)
  BY HandleScoresFit, SidesDiffer DEF CheckFullcap
<1>3. ASSUME NEW r, Fit(r, C), NEW n \in 0 .. DrainPeriod
      PROVE  Fit([r EXCEPT !.flagIn = n], C)
  <2>1. [r EXCEPT !.flagIn = n] \in GameRecord /\ SameMen([r EXCEPT !.flagIn = n], r)
    BY <1>3 DEF Fit, GameRecord, SameMen
  <2> QED BY <2>1, <1>3, KeepFit
<1>4. 1 \in 0 .. DrainPeriod /\ DrainPeriod \in 0 .. DrainPeriod
  OBVIOUS
<1> QED BY <1>1, <1>2, <1>3, <1>4 DEF FlagUpdate

LEMMA CommandsFit ==
  ASSUME respawnstyle \in Styles, NEW C, NEW s, Fit(s, C)
  PROVE  Fit(RestartMap(s), C) /\ Fit(RestartRoundCommand(s), C)
<1>1. s.askMap \in BOOLEAN /\ s.askRound \in BOOLEAN /\ s.mapReset \in Off .. 1 /\ s.roundReset \in Off .. 1
  BY DEF Fit, GameRecord
<1>2. /\ Pending(s.askMap, s.mapReset) \in Off .. 1 /\ Pending(s.askRound, s.roundReset) \in Off .. 1
      /\ Off \in Off .. 1
  BY <1>1 DEF Pending, Off
<1>3. Fit(RestartMap(s), C)
  <2> DEFINE new  == [s EXCEPT !.score = [t \in Playing |-> 0], !.round = 1]
             next == RestartRound(new, FALSE)
  <2>1. new \in GameRecord /\ SameMen(new, s)
    BY DEF Fit, GameRecord, SameMen
  <2>2. Fit(new, C)
    BY <2>1, KeepFit
  <2> HIDE DEF new
  <2>3. Fit(next, C)
    BY <2>2, RestartRoundFit
  <2> HIDE DEF next
  <2>4. 0 \in 0 .. TimeLimit[respawnstyle]
    OBVIOUS
  <2>5. LET r == [next EXCEPT !.mapReset = Off, !.gameAge = 0]
        IN  r \in GameRecord /\ SameMen(r, next)
    BY <1>2, <2>3, <2>4 DEF Fit, GameRecord, SameMen
  <2>7. Fit([next EXCEPT !.mapReset = Off, !.gameAge = 0], C)
    BY <2>3, <2>5, KeepFit
  <2>6. LET r == [s EXCEPT !.askMap = FALSE, !.mapReset = Pending(s.askMap, s.mapReset)]
        IN  r \in GameRecord /\ SameMen(r, s)
    BY <1>2 DEF Fit, GameRecord, SameMen
  <2>8. Fit([s EXCEPT !.askMap = FALSE, !.mapReset = Pending(s.askMap, s.mapReset)], C)
    BY <2>6, KeepFit
  <2> QED BY <2>7, <2>8 DEF RestartMap, next, new
<1>4. Fit(RestartRoundCommand(s), C)
  <2> DEFINE next == RestartRound(s, FALSE)
  <2>3. Fit(next, C)
    BY RestartRoundFit
  <2> HIDE DEF next
  <2>5. LET r == [next EXCEPT !.roundReset = Off]
        IN  r \in GameRecord /\ SameMen(r, next)
    BY <1>2, <2>3 DEF Fit, GameRecord, SameMen
  <2>6. LET r == [s EXCEPT !.askRound = FALSE, !.roundReset = Pending(s.askRound, s.roundReset)]
        IN  r \in GameRecord /\ SameMen(r, s)
    BY <1>2 DEF Fit, GameRecord, SameMen
  <2>7. Fit([next EXCEPT !.roundReset = Off], C)
    BY <2>3, <2>5, KeepFit
  <2>8. Fit([s EXCEPT !.askRound = FALSE, !.roundReset = Pending(s.askRound, s.roundReset)], C)
    BY <2>6, KeepFit
  <2> QED BY <2>7, <2>8 DEF RestartRoundCommand, next
<1> QED BY <1>3, <1>4

LEMMA ReinforcedAre ==
  ASSUME NEW C, NEW s, Fit(s, C), NEW t \in Playing
  PROVE  /\ Reinforced(s, t) \subseteq Members(s, t) /\ Reinforced(s, t) \subseteq Players
         /\ IsFiniteSet(Reinforced(s, t))
<1>1. s.list[t] \in Seq(Players) /\ Distinct(s.list[t])
  BY DEF Fit, GameRecord, Listed
<1>2. Reinforced(s, t) \subseteq Members(s, t)
  BY DEF Reinforced, Members
<1>3. IsFiniteSet(Members(s, t))
  BY <1>1, DistinctLength, MembersAre
<1> QED BY <1>2, <1>3, FS_Subset, FightersArePlayers DEF Fit

\* The wave uses up the allowances of those it spawns, and the tickets.
LEMMA WaveFit ==
  ASSUME NEW C, NEW s, Fit(s, C)
  PROVE  Fit(Wave(s), C)
<1> DEFINE r  == RespawnWave(s)
           up == Reinforced(s, Americans) \cup Reinforced(s, British)
           cost(t) == Cardinality({p \in Reinforced(s, t) : ~s.fresh[p]})
<1>1. /\ r.list = s.list
      /\ r.alive = [p \in Players |-> s.alive[p] \/ p \in up]
      /\ r.fresh = [p \in Players |-> s.fresh[p] /\ ~(UsingTickets /\ p \in up)]
      /\ r.tickets = [t \in Playing |->
                       IF ~UsingTickets THEN s.tickets[t]
                       ELSE IF cost(t) > s.tickets[t] THEN 0 ELSE s.tickets[t] - cost(t)]
      /\ r = [s EXCEPT !.alive = r.alive, !.fresh = r.fresh, !.tickets = r.tickets, !.waveAge = 0]
  BY DEF Fit, GameRecord, RespawnWave
<1>2. ASSUME NEW t \in Playing
      PROVE  cost(t) \in Nat
  <2>1. IsFiniteSet({p \in Reinforced(s, t) : ~s.fresh[p]})
    BY ReinforcedAre, FS_Subset
  <2> QED BY <2>1, FS_CardinalityType
<1> HIDE DEF r, up, cost
<1>3. s.alive \in [Players -> BOOLEAN] /\ s.fresh \in [Players -> BOOLEAN] /\ s.tickets \in [Playing -> Nat]
  BY DEF Fit, GameRecord
<1>4. r.alive \in [Players -> BOOLEAN] /\ r.fresh \in [Players -> BOOLEAN]
  BY <1>1, <1>3
<1>5. r.tickets \in [Playing -> Nat]
  BY <1>1, <1>2, <1>3
<1>6. r \in GameRecord
  <2>1. 0 \in 0 .. RespawnTime
    OBVIOUS
  <2> DEFINE v == [s EXCEPT !.waveAge = 0]
  <2>2. v \in GameRecord
    BY <2>1 DEF Fit, GameRecord
  <2>3. r = [v EXCEPT !.alive = r.alive, !.fresh = r.fresh, !.tickets = r.tickets]
    BY <1>1 DEF Fit, GameRecord
  <2> HIDE DEF v
  <2> QED BY <1>4, <1>5, <2>2, <2>3 DEF GameRecord
<1>7. Used(r)
  <2> SUFFICES ASSUME UsingTickets, NEW p \in Fighters(s)
               PROVE  ~(r.alive[p] /\ r.fresh[p])
    BY <1>1, SameLists DEF Used
  <2>1. p \in Players /\ ~(s.alive[p] /\ s.fresh[p])
    BY FightersArePlayers, SidesDiffer DEF Fit, Used, Fighters
  <2> QED BY <2>1, <1>1
<1>8. Fit(r, C)
  BY <1>1, <1>6, <1>7, SameLists DEF Fit
<1> QED BY <1>8 DEF Wave, r

LEMMA RoundSystemFit ==
  ASSUME respawnstyle \in Styles, NEW C, NEW s, Fit(s, C)
  PROVE  Fit(RoundSystem(s), C)
<1>1. Fit(Decide(s), C)
  <2>1. Victor(s) \in Playing \cup {None} /\ DecideDelay \in -1 .. DecideDelay
    BY DEF Victor
  <2>2. Decide(s) \in GameRecord /\ SameMen(Decide(s), s)
    BY <2>1 DEF Fit, GameRecord, SameMen, Decide
  <2> QED BY <2>2, KeepFit
<1>2. Fit(HandleScores(s, s.winner, 1), C)
  <2>1. s.winner \in Playing \cup {None}
    BY DEF Fit, GameRecord
  <2> QED BY <2>1, HandleScoresFit
<1>3. RoundSystem(s) \in {s, Decide(s), HandleScores(s, s.winner, 1)}
  <2>1. CASE ~RoundIsOver(s)
    BY <2>1 DEF RoundSystem
  <2>2. CASE RoundIsOver(s) /\ ~s.restarting
    BY <2>2 DEF RoundSystem
  <2>3. CASE RoundIsOver(s) /\ s.restarting /\ ~(s.restartIn < 0)
    BY <2>3 DEF RoundSystem
  <2>4. CASE RoundIsOver(s) /\ s.restarting /\ s.restartIn < 0
    BY <2>4 DEF RoundSystem
  <2> QED BY <2>1, <2>2, <2>3, <2>4
<1> QED BY <1>1, <1>2, <1>3

\* All phases of a Think, one after the other.
LEMMA ThinkFit ==
  ASSUME respawnstyle \in Styles, NEW C \in SUBSET Players, NEW s, Fit(s, C), NEW r \in Think(s)
  PROVE  Fit(r, C)
<1>1. CASE s.over \/ TimeIsUp(s)
  BY <1>1, ScoresFit DEF Think
<1>2. CASE ~(s.over \/ TimeIsUp(s))
  <2>1. PICK b \in BalanceTeams(FlagUpdate(s)) :
          r = FinishThink(Wave(RestartRoundCommand(RestartMap(b))))
    BY <1>2 DEF Think
  <2>2. Fit(b, C)
    BY FlagUpdateFit, BalanceFit
  <2>3. Fit(RestartRoundCommand(RestartMap(b)), C)
    BY <2>2, CommandsFit
  <2>4. Fit(Wave(RestartRoundCommand(RestartMap(b))), C)
    BY <2>3, WaveFit
  <2> QED BY <2>1, <2>4, RoundSystemFit, ScoresFit DEF FinishThink
<1> QED BY <1>1, <1>2

LEMMA ElapseFit ==
  ASSUME respawnstyle \in Styles, NEW C, NEW s, Fit(s, C), NEW dt
  PROVE  Fit(Elapse(s, dt), C)
<1>0. /\ s.restartIn \in -1 .. DecideDelay /\ s.flagIn \in 0 .. DrainPeriod
      /\ s.waveAge \in 0 .. RespawnTime /\ s.roundAge \in 0 .. RoundTime
      /\ s.gameAge \in 0 .. TimeLimit[respawnstyle]
      /\ s.roundReset \in Off .. 1 /\ s.mapReset \in Off .. 1
  BY DEF Fit, GameRecord
<1>1. /\ Down(s.restartIn, -1) \in -1 .. DecideDelay /\ Down(s.flagIn, 0) \in 0 .. DrainPeriod
      /\ Up(s.waveAge, RespawnTime) \in 0 .. RespawnTime
      /\ (IF s.roundReset = Off THEN s.roundReset ELSE Down(s.roundReset, 0)) \in Off .. 1
      /\ (IF s.mapReset = Off THEN s.mapReset ELSE Down(s.mapReset, 0)) \in Off .. 1
  BY <1>0 DEF Down, Up, Off
<1>2. RoundTime \in Nat /\ TimeLimit[respawnstyle] \in Nat
  BY DEF RoundTime
<1>3. Up(s.roundAge, RoundTime) \in 0 .. RoundTime
  BY <1>0, <1>2 DEF Up
<1>4. Up(s.gameAge, TimeLimit[respawnstyle]) \in 0 .. TimeLimit[respawnstyle]
  BY <1>0, <1>2 DEF Up
<1>5. CASE dt = 0
  BY <1>5 DEF Elapse
<1>6. CASE dt # 0
  <2>1. Elapse(s, dt) \in GameRecord /\ SameMen(Elapse(s, dt), s)
    BY <1>6, <1>1, <1>3, <1>4 DEF Fit, GameRecord, SameMen, Elapse
  <2> QED BY <2>1, KeepFit
<1> QED BY <1>5, <1>6

-----------------------------------------------------------------------------
(* The players of every state.                                             *)

\* The inductive invariant.
IInv ==
  /\ respawnstyle \in Styles
  /\ client \subseteq Players
  /\ Fit(game, client)

LEMMA InitFit == Init => IInv
<1> SUFFICES ASSUME Init PROVE IInv
  OBVIOUS
<1>1. respawnstyle \in Styles /\ client = {}
  BY DEF Init
<1>2. game \in GameRecord
  <2>1. PICK restarting \in BOOLEAN, restartIn \in -1 .. DecideDelay,
             roundReset \in Off .. 1, mapReset \in Off .. 1 :
         game =
            [list |-> [t \in Playing |-> <<>>],
             alive |-> [p \in Players |-> FALSE],
             fresh |-> [p \in Players |-> FALSE],
             tickets |-> StartTickets, fraction |-> [t \in Playing |-> 0],
             score |-> [t \in Playing |-> 0], round |-> 1,
             restarting |-> restarting, restartIn |-> restartIn,
             winner |-> None, flagIn |-> DrainPeriod,
             waveAge |-> 0, roundAge |-> 0, gameAge |-> 0,
             askRound |-> FALSE, askMap |-> FALSE,
             roundReset |-> roundReset, mapReset |-> mapReset,
             held |-> StartingFlags, over |-> FALSE, decided |-> FALSE]
    BY DEF Init
  <2>2. /\ [t \in Playing |-> <<>>] \in [Playing -> Seq(Players)]
        /\ [p \in Players |-> FALSE] \in [Players -> BOOLEAN]
        /\ [t \in Playing |-> 0] \in [Playing -> 0 .. Parts - 1]
        /\ [t \in Playing |-> 0] \in [Playing -> Nat]
    OBVIOUS
  <2>3. StartingFlags \in [Flags -> Playing \cup {Unassigned, Inactive}]
    BY <1>1 DEF StartingFlags, Flags
  <2>4. /\ 0 \in 0 .. RespawnTime /\ 0 \in 0 .. RoundTime /\ DrainPeriod \in 0 .. DrainPeriod
        /\ 0 \in 0 .. TimeLimit[respawnstyle] /\ StartTickets \in [Playing -> Nat]
    BY <1>1 DEF RoundTime
  <2> QED BY <2>1, <2>2, <2>3, <2>4 DEF GameRecord
<1>3. /\ game.list = [t \in Playing |-> <<>>] /\ game.alive = [p \in Players |-> FALSE]
  BY DEF Init
<1>4. \A t \in Playing : Distinct(game.list[t]) /\ Members(game, t) = {}
  BY <1>3 DEF Distinct, Members
<1>5. Listed(game, client) /\ Used(game)
  BY <1>4, SidesDiffer DEF Listed, Used, Fighters
<1> QED BY <1>1, <1>2, <1>5 DEF IInv, Fit

LEMMA PrimedFit ==
  ASSUME respawnstyle' = respawnstyle, Fit(game', client'), IInv, client' \subseteq Players
  PROVE  IInv'
  BY DEF IInv, Fit, GameRecord, Listed, Used, Members, Fighters, RoundTime, UsingTickets, Flags

LEMMA ConnectFit ==
  ASSUME IInv, NEW p \in Players, ClientConnect(p)
  PROVE  Fit(game', client')
<1>1. /\ game' \in GameRecord /\ game'.list = game.list
      /\ game'.alive = [game.alive EXCEPT ![p] = TRUE]
      /\ game'.fresh = [game.fresh EXCEPT ![p] = TRUE]
      /\ game.alive \in [Players -> BOOLEAN] /\ game.fresh \in [Players -> BOOLEAN]
  BY DEF IInv, Fit, GameRecord, ClientConnect
<1>2. client' = client \cup {p} /\ p \notin client
  BY DEF ClientConnect
<1>3. Listed(game', client')
  BY <1>1, <1>2, SameLists DEF IInv, Fit, Listed
<1>4. Used(game')
  <2> SUFFICES ASSUME UsingTickets, NEW q \in Fighters(game)
               PROVE  ~(game'.alive[q] /\ game'.fresh[q])
    BY <1>1, SameLists DEF Used
  <2>1. q # p /\ ~(game.alive[q] /\ game.fresh[q])
    BY <1>2 DEF IInv, Fit, Used, Listed
  <2> QED BY <1>1, <2>1
<1> QED BY <1>1, <1>3, <1>4 DEF Fit

\* Whoever joins dies first, so he brings no life with an allowance to a side.
LEMMA JoinFit ==
  ASSUME IInv, NEW p \in Players, NEW t \in Playing, AttemptJoin(p, t)
  PROVE  Fit(game', client')
<1>1. client' = client /\ p \in client \cap Players
  BY DEF AttemptJoin
<1>2. Fit(Die(game, p), client) /\ ~Die(game, p).alive[p]
  BY DieFit DEF IInv
<1>3. Fit(ChangeTeam(Die(game, p), p, t), client)
  BY <1>1, <1>2, ChangeTeamFit
<1>4. game' \in {ChangeTeam(Die(game, p), p, t), Spawn(ChangeTeam(Die(game, p), p, t), p, t)}
  BY DEF AttemptJoin
<1> QED BY <1>1, <1>3, <1>4, SpawnFit

\* A spectator and a player who leaves are on no list afterwards.
LEMMA OffTheListsFit ==
  ASSUME IInv, NEW p \in client, NEW C, C \in {client, client \ {p}}
  PROVE  Fit(ChangeTeam(Die(game, p), p, Unassigned), C)
<1> DEFINE d == Die(game, p)
           r == ChangeTeam(d, p, Unassigned)
<1>1. Fit(d, client) /\ p \in client \cap Players
  BY DieFit DEF IInv
<1>2. Unassigned \notin Playing
  BY DEF Playing, Unassigned, Americans, British
<1> HIDE DEF d
<1>3. /\ Fit(r, client)
      /\ \A u \in Playing : Members(r, u) = Members(d, u) \ {p}
  BY <1>1, <1>2, ChangeTeamFit
<1> HIDE DEF r
<1>4. Fighters(r) \subseteq client \ {p}
  BY <1>3, SidesDiffer DEF Fit, Listed, Fighters
<1> QED BY <1>3, <1>4 DEF Fit, Listed, r, d

LEMMA NextFit == IInv /\ [Next]_vars => IInv'
<1> SUFFICES ASSUME IInv, [Next]_vars PROVE IInv'
  OBVIOUS
<1>0. respawnstyle' = respawnstyle /\ respawnstyle \in Styles /\ Fit(game, client) /\ client \in SUBSET Players
  BY StyleStays DEF IInv
<1> SUFFICES Fit(game', client') /\ client' \subseteq Players
  BY <1>0, PrimedFit
<1>1. CASE AnyFrame
  <2>1. PICK dt \in {0, 1} : Frame(dt)
    BY <1>1 DEF AnyFrame
  <2>2. game' \in Think(Elapse(game, dt)) /\ client' = client
    BY <2>1 DEF Frame
  <2> QED BY <1>0, <2>2, ElapseFit, ThinkFit
<1>2. ASSUME NEW p \in Players, PlayerStep(p)
      PROVE  Fit(game', client') /\ client' \subseteq Players
  <2>1. CASE ClientConnect(p)
    BY <1>0, <2>1, ConnectFit DEF ClientConnect
  <2>2. ASSUME NEW t \in Playing, AttemptJoin(p, t)
        PROVE  Fit(game', client') /\ client' \subseteq Players
    BY <1>0, <2>2, JoinFit DEF AttemptJoin
  <2>3. CASE Spectate(p)
    BY <1>0, <2>3, OffTheListsFit DEF Spectate
  <2>4. CASE Killed(p)
    BY <1>0, <2>4, DieFit DEF Killed
  <2>5. CASE ClientDisconnected(p)
    BY <1>0, <2>5, OffTheListsFit DEF ClientDisconnected
  <2> QED BY <1>2, <2>1, <2>2, <2>3, <2>4, <2>5 DEF PlayerStep
<1>3. ASSUME NEW t \in MapInputs[respawnstyle], ForceWinRound(t)
      PROVE  Fit(game', client') /\ client' \subseteq Players
  <2>1. t \in Playing \cup {None}
    BY <1>0
  <2>2. game' = HandleScores(game, t, WinBonus) /\ client' = client
    BY <1>3 DEF ForceWinRound
  <2>3. WinBonus \in Nat
    OBVIOUS
  <2> QED BY <1>0, <2>1, <2>2, <2>3, HandleScoresFit
<1>4. CASE Console
  <2>1. CASE game' = [game EXCEPT !.askRound = TRUE]
    <3>1. game' \in GameRecord /\ SameMen(game', game)
      BY <1>0, <2>1 DEF Fit, GameRecord, SameMen
    <3> QED BY <1>0, <1>4, <3>1, KeepFit DEF Console
  <2>2. CASE game' = [game EXCEPT !.askMap = TRUE]
    <3>1. game' \in GameRecord /\ SameMen(game', game)
      BY <1>0, <2>2 DEF Fit, GameRecord, SameMen
    <3> QED BY <1>0, <1>4, <3>1, KeepFit DEF Console
  <2> QED BY <1>4, <2>1, <2>2 DEF Console
<1>5. ASSUME NEW f \in Flags, FlagChange(f)
      PROVE  Fit(game', client') /\ client' \subseteq Players
  <2>1. PICK h \in Playing \cup {Unassigned, Inactive} : game' = [game EXCEPT !.held[f] = h]
    BY <1>5 DEF FlagChange
  <2>2. game' \in GameRecord /\ SameMen(game', game) /\ client' = client
    BY <1>0, <1>5, <2>1 DEF FlagChange, Fit, GameRecord, SameMen
  <2> QED BY <1>0, <2>2, KeepFit
<1>6. CASE UNCHANGED vars
  BY <1>0, <1>6 DEF vars
<1> QED BY <1>1, <1>2, <1>3, <1>4, <1>5, <1>6 DEF Next

LEMMA AlwaysFit == Spec => []IInv
  BY InitFit, NextFit, PTL DEF Spec

\* Every state has its type: tickets are never negative, a fraction is less than a
\* ticket, clocks and deadlines stay in their ranges, lists hold players.
THEOREM TypeCorrect == Spec => []TypeOK
<1>1. IInv => TypeOK
  BY DEF IInv, Fit, TypeOK
<1> QED BY <1>1, AlwaysFit, PTL

\* Nobody is on both lists or twice on one, and nobody who has left is on any, for
\* any number of players, autobalance, swap, restart and map input.
THEOREM RostersKept == Spec => []Rosters
<1>1. ASSUME IInv PROVE Rosters
  <2>1. ASSUME NEW t \in Playing
        PROVE  Strength(game, t) = Cardinality(Members(game, t))
    <3>1. game.list \in [Playing -> Seq(Players)] /\ Distinct(game.list[t])
      BY <1>1 DEF IInv, Fit, GameRecord, Listed
    <3>2. game.list[t] \in Seq(Players)
      BY <3>1
    <3> QED BY <3>2,  <3>1, DistinctLength, MembersAre DEF Strength
  <2> QED BY <1>1, <2>1 DEF IInv, Fit, Listed, Rosters
<1> QED BY <1>1, AlwaysFit, PTL

\* With tickets nobody keeps his first-spawn allowance while he fights.
THEOREM AllowanceUsed == Spec => []AllowanceIsUsed
<1>1. IInv => AllowanceIsUsed
  BY DEF IInv, Fit, Used, AllowanceIsUsed
<1> QED BY <1>1, AlwaysFit, PTL

-----------------------------------------------------------------------------
(* What a phase of a Think changes.                                        *)

\* r differs from s in the fields F at most.
Changes(r, s, F) == \A x \in Fields \ F : r[x] = s[x]

LEMMA ElapseChanges ==
  ASSUME NEW s \in GameRecord, NEW dt
  PROVE  /\ Changes(Elapse(s, dt), s, {"restartIn", "flagIn", "waveAge", "roundAge", "gameAge",
                                       "roundReset", "mapReset"})
         /\ Elapse(s, dt).roundReset = Off <=> s.roundReset = Off
         /\ Elapse(s, dt).mapReset = Off <=> s.mapReset = Off
<1>1. CASE dt = 0
  BY <1>1 DEF Elapse, Changes
<1>2. CASE dt # 0
  <2>1. s.roundReset \in Off .. 1 /\ s.mapReset \in Off .. 1
    BY DEF GameRecord
  <2>2. DOMAIN s = Fields
    BY DEF GameRecord, Fields
  <2>3. /\ Elapse(s, dt).roundReset = IF s.roundReset = Off THEN s.roundReset ELSE Down(s.roundReset, 0)
        /\ Elapse(s, dt).mapReset = IF s.mapReset = Off THEN s.mapReset ELSE Down(s.mapReset, 0)
    BY <1>2, <2>2 DEF Elapse, Fields
  <2>4. Changes(Elapse(s, dt), s, {"restartIn", "flagIn", "waveAge", "roundAge", "gameAge",
                                       "roundReset", "mapReset"})
    BY <1>2, <2>2 DEF Elapse, Changes, Fields
  <2> QED BY <2>1, <2>3, <2>4 DEF Down, Off
<1> QED BY <1>1, <1>2

LEMMA BalanceChanges ==
  ASSUME NEW s \in GameRecord, NEW r \in BalanceTeams(s)
  PROVE  Changes(r, s, {"list"})
<1>1. \A p, t : Changes(ChangeTeam(s, p, t), s, {"list"})
  BY DEF GameRecord, Changes, ChangeTeam, Fields
<1>2. \A p : Changes(SwapPlayerTeam(s, p), s, {"list"})
  BY <1>1 DEF SwapPlayerTeam, Changes
<1> QED BY <1>2 DEF BalanceTeams, Changes

\* What RestartRound sets anew.
Restarts ==
  {"held", "decided", "alive", "fresh", "tickets", "fraction", "flagIn",
   "roundAge", "waveAge"}

LEMMA RestartRoundChanges ==
  ASSUME NEW s \in GameRecord
  PROVE  /\ Changes(RestartRound(s, FALSE), s, Restarts)
         /\ Changes(RestartRound(s, TRUE), s, Restarts \cup {"list", "score"})
         /\ RestartRound(s, TRUE).list = [t \in Playing |-> s.list[Opponent(t)]]
         /\ RestartRound(s, TRUE).score = [t \in Playing |-> s.score[Opponent(t)]]
<1> DEFINE reset == [s EXCEPT !.held = StartingFlags, !.decided = FALSE]
           Anew(u) == ResetClocks(ResetTickets(RespawnAll(u)))
<1>0. DOMAIN s = Fields
  BY DEF GameRecord, Fields
<1>1. DOMAIN reset = Fields /\ Changes(reset, s, {"held", "decided"})
  BY <1>0 DEF Changes, Fields
<1>2. ASSUME NEW u, DOMAIN u = Fields
      PROVE  Changes(Anew(u), u, Restarts)
  <2>1. DOMAIN RespawnAll(u) = Fields /\ Changes(RespawnAll(u), u, {"alive", "fresh"})
    BY <1>2 DEF RespawnAll, Changes, Fields
  <2>2. ASSUME NEW v, DOMAIN v = Fields
        PROVE  DOMAIN ResetTickets(v) = Fields /\ Changes(ResetTickets(v), v, {"tickets", "fraction", "flagIn"})
    BY <2>2 DEF ResetTickets, Changes, Fields
  <2>3. ASSUME NEW v, DOMAIN v = Fields
        PROVE  Changes(ResetClocks(v), v, {"roundAge", "waveAge"})
    BY <2>3 DEF ResetClocks, Changes, Fields
  <2> QED BY <2>1, <2>2, <2>3 DEF Changes, Restarts
<1>3. /\ DOMAIN SwapTeams(reset) = Fields /\ Changes(SwapTeams(reset), reset, {"list", "score"})
      /\ SwapTeams(reset).list = [t \in Playing |-> s.list[Opponent(t)]]
      /\ SwapTeams(reset).score = [t \in Playing |-> s.score[Opponent(t)]]
  BY <1>0 DEF SwapTeams, Changes, Fields
<1>4. RestartRound(s, FALSE) = Anew(reset) /\ RestartRound(s, TRUE) = Anew(SwapTeams(reset))
  BY DEF RestartRound
<1> HIDE DEF reset, Anew
<1>5. Changes(Anew(reset), reset, Restarts) /\ Changes(Anew(SwapTeams(reset)), SwapTeams(reset), Restarts)
  BY <1>1, <1>2, <1>3
<1>6. Changes(RestartRound(s, FALSE), s, Restarts)
  BY <1>1, <1>4, <1>5 DEF Changes, Restarts
<1>7. Changes(RestartRound(s, TRUE), s, Restarts \cup {"list", "score"})
  BY <1>1, <1>3, <1>4, <1>5 DEF Changes, Restarts
<1>8. /\ RestartRound(s, TRUE).list = SwapTeams(reset).list
      /\ RestartRound(s, TRUE).score = SwapTeams(reset).score
  BY <1>4, <1>5 DEF Changes, Restarts, Fields
<1> QED BY <1>3, <1>6, <1>7, <1>8

LEMMA RestartMapChanges ==
  ASSUME NEW C, NEW s, Fit(s, C)
  PROVE  \/ /\ s.mapReset = 0 /\ RestartMap(s).mapReset = Off /\ ~s.askMap
            /\ Changes(RestartMap(s), s, Restarts \cup {"score", "round", "mapReset", "gameAge"})
            /\ RestartMap(s).round = 1 /\ RestartMap(s).score = [t \in Playing |-> 0]
         \/ /\ Changes(RestartMap(s), s, {"askMap", "mapReset"})
            /\ s.mapReset = Off /\ ~s.askMap => RestartMap(s).mapReset = Off /\ ~RestartMap(s).askMap
<1>0. s \in GameRecord /\ DOMAIN s = Fields
  BY DEF Fit, GameRecord, Fields
<1>1. CASE Pending(s.askMap, s.mapReset) = 0
  <2> DEFINE new  == [s EXCEPT !.score = [t \in Playing |-> 0], !.round = 1]
             next == RestartRound(new, FALSE)
             r    == [next EXCEPT !.mapReset = Off, !.gameAge = 0]
  <2>1. /\ new \in GameRecord /\ new.round = 1 /\ new.score = [t \in Playing |-> 0]
        /\ Changes(new, s, {"score", "round"}) /\ SameMen(new, s)
    BY <1>0 DEF GameRecord, Changes, Fields, SameMen
  <2>2. Fit(new, C)
    BY <2>1, KeepFit
  <2> HIDE DEF new
  <2>3. Changes(next, new, Restarts)
    BY <2>1, RestartRoundChanges
  <2>4. DOMAIN next = Fields
    <3>1. \A u : DOMAIN u = Fields => DOMAIN ResetClocks(ResetTickets(RespawnAll(u))) = Fields
      BY DEF ResetClocks, ResetTickets, RespawnAll
    <3> QED BY <2>1, <3>1 DEF RestartRound, GameRecord, Fields
  <2> HIDE DEF next
  <2>5. r.mapReset = Off /\ Changes(r, next, {"mapReset", "gameAge"})
    BY <2>4 DEF Changes, Fields
  <2>6. RestartMap(s) = r
    BY <1>1 DEF RestartMap, r, next, new
  <2> HIDE DEF r
  <2>7. Changes(r, s, Restarts \cup {"score", "round", "mapReset", "gameAge"})
    BY <2>1, <2>3, <2>5 DEF Changes
  <2>8. r.round = 1 /\ r.score = [t \in Playing |-> 0]
    BY <2>1, <2>3, <2>5 DEF Changes, Restarts, Fields
  <2>9. s.mapReset = 0 /\ ~s.askMap
    BY <1>1 DEF Pending
  <2> QED BY <2>5, <2>6, <2>7, <2>8, <2>9
<1>2. CASE ~(Pending(s.askMap, s.mapReset) = 0)
  <2>1. RestartMap(s) = [s EXCEPT !.askMap = FALSE, !.mapReset = Pending(s.askMap, s.mapReset)]
    BY <1>2 DEF RestartMap
  <2> QED BY <1>0, <2>1 DEF Changes, Pending, Fields
<1> QED BY <1>1, <1>2

LEMMA RestartRoundCommandChanges ==
  ASSUME NEW C, NEW s, Fit(s, C)
  PROVE  \/ /\ s.roundReset = 0 /\ RestartRoundCommand(s).roundReset = Off /\ ~s.askRound
            /\ Changes(RestartRoundCommand(s), s, Restarts \cup {"roundReset"})
         \/ /\ Changes(RestartRoundCommand(s), s, {"askRound", "roundReset"})
            /\ s.roundReset = Off /\ ~s.askRound
                 => RestartRoundCommand(s).roundReset = Off /\ ~RestartRoundCommand(s).askRound
<1>0. s \in GameRecord /\ DOMAIN s = Fields
  BY DEF Fit, GameRecord, Fields
<1>1. CASE Pending(s.askRound, s.roundReset) = 0
  <2> DEFINE next == RestartRound(s, FALSE)
             r    == [next EXCEPT !.roundReset = Off]
  <2>3. Changes(next, s, Restarts)
    BY <1>0, RestartRoundChanges
  <2>4. DOMAIN next = Fields
    <3>1. \A u : DOMAIN u = Fields => DOMAIN ResetClocks(ResetTickets(RespawnAll(u))) = Fields
      BY DEF ResetClocks, ResetTickets, RespawnAll
    <3> QED BY <1>0, <3>1 DEF RestartRound, Fields
  <2> HIDE DEF next
  <2>5. r.roundReset = Off /\ Changes(r, next, {"roundReset"})
    BY <2>4 DEF Changes, Fields
  <2>6. RestartRoundCommand(s) = r
    BY <1>1 DEF RestartRoundCommand, r, next
  <2> HIDE DEF r
  <2>7. Changes(r, s, Restarts \cup {"roundReset"})
    BY <2>3, <2>5 DEF Changes
  <2>9. s.roundReset = 0 /\ ~s.askRound
    BY <1>1 DEF Pending
  <2> QED BY <2>5, <2>6, <2>7, <2>9
<1>2. CASE ~(Pending(s.askRound, s.roundReset) = 0)
  <2>1. RestartRoundCommand(s) = [s EXCEPT !.askRound = FALSE, !.roundReset = Pending(s.askRound, s.roundReset)]
    BY <1>2 DEF RestartRoundCommand
  <2> QED BY <1>0, <2>1 DEF Changes, Pending, Fields
<1> QED BY <1>1, <1>2

LEMMA WaveChanges ==
  ASSUME NEW s \in GameRecord
  PROVE  Changes(Wave(s), s, {"alive", "fresh", "tickets", "waveAge"})
  BY DEF Wave, RespawnWave, Changes, GameRecord, Fields

LEMMA CheckFragLimitChanges ==
  ASSUME NEW s \in GameRecord
  PROVE  Changes(CheckFragLimit(s), s, {"over"})
  BY DEF CheckFragLimit, GoToIntermission, Changes, GameRecord, Fields

\* The end of a round, and the end of the match instead.
LEMMA NextRoundChanges ==
  ASSUME respawnstyle \in Styles, NEW C, NEW s, Fit(s, C)
  PROVE  \/ /\ UsingTickets /\ NextRound(s).over /\ Changes(NextRound(s), s, {"over"})
         \/ /\ NextRound(s).round = (IF UsingTickets THEN s.round + 1 ELSE s.round)
            /\ ~NextRound(s).restarting
            /\ Changes(NextRound(s), s, Restarts \cup {"list", "score", "round", "restarting", "restartIn"})
            /\ UsingTickets =>
                 /\ NextRound(s).list = [t \in Playing |-> s.list[Opponent(t)]]
                 /\ NextRound(s).score = [t \in Playing |-> s.score[Opponent(t)]]
            /\ ~UsingTickets => NextRound(s).list = s.list /\ NextRound(s).score = s.score
<1>0. s \in GameRecord /\ DOMAIN s = Fields
  BY DEF Fit, GameRecord, Fields
<1>1. CASE UsingTickets /\ s.round >= TicketRounds
  BY <1>0, <1>1 DEF NextRound, GoToIntermission, Changes, Fields
<1>2. CASE ~(UsingTickets /\ s.round >= TicketRounds)
  <2> DEFINE counted == IF UsingTickets THEN [s EXCEPT !.round = @ + 1] ELSE s
             next    == RestartRound(counted, UsingTickets)
             r       == [next EXCEPT !.restarting = FALSE, !.restartIn = 1]
  <2>1. /\ counted \in GameRecord /\ DOMAIN counted = Fields
        /\ Changes(counted, s, {"round"})
        /\ counted.round = (IF UsingTickets THEN s.round + 1 ELSE s.round)
    <3>0. s.round \in Nat
      BY <1>0 DEF GameRecord
    <3>1. s.round + 1 \in Nat
      BY <3>0
    <3>2. CASE UsingTickets
      BY <1>0, <3>1, <3>2 DEF GameRecord, Changes, Fields
    <3>3. CASE ~UsingTickets
      BY <1>0, <3>3 DEF Changes
    <3> QED BY <3>2, <3>3
  <2>2. counted.list = s.list /\ counted.score = s.score
    BY <2>1 DEF Changes, Fields
  <2> HIDE DEF counted
  <2>3. /\ Changes(next, counted, Restarts \cup {"list", "score"})
        /\ UsingTickets =>
                 /\ next.list = [t \in Playing |-> s.list[Opponent(t)]]
                 /\ next.score = [t \in Playing |-> s.score[Opponent(t)]]
        /\ ~UsingTickets => next.list = s.list /\ next.score = s.score
    <3>1. CASE UsingTickets
      <4>0. UsingTickets = TRUE
        BY <3>1 DEF UsingTickets
      <4>1. next = RestartRound(counted, TRUE)
        BY <4>0
      <4> QED BY <2>1, <2>2, <3>1, <4>1, RestartRoundChanges
    <3>2. CASE ~UsingTickets
      <4>0. UsingTickets = FALSE
        BY <3>2 DEF UsingTickets
      <4>1. next = RestartRound(counted, FALSE)
        BY <4>0
      <4>2. Changes(next, counted, Restarts)
        BY <2>1, <4>1, RestartRoundChanges
      <4> HIDE DEF next
      <4> QED BY <2>2, <3>2, <4>2 DEF Changes, Restarts, Fields
    <3> QED BY <3>1, <3>2
  <2>4. DOMAIN next = Fields
    <3>1. \A u : DOMAIN u = Fields => DOMAIN ResetClocks(ResetTickets(RespawnAll(u))) = Fields
      BY DEF ResetClocks, ResetTickets, RespawnAll
    <3> QED BY <2>1, <3>1 DEF RestartRound, SwapTeams
  <2> HIDE DEF next
  <2>5. ~r.restarting /\ Changes(r, next, {"restarting", "restartIn"})
    BY <2>4 DEF Changes, Fields
  <2>6. NextRound(s) = r
    BY <1>2 DEF NextRound, r, next, counted
  <2> HIDE DEF r
  <2>7. Changes(r, s, Restarts \cup {"list", "score", "round", "restarting", "restartIn"})
    BY <2>1, <2>3, <2>5 DEF Changes
  <2>8. r.round = counted.round /\ r.list = next.list /\ r.score = next.score
    BY <2>3, <2>5 DEF Changes, Restarts, Fields
  <2> QED BY <2>1, <2>3, <2>5, <2>6, <2>7, <2>8
<1> QED BY <1>1, <1>2

LEMMA AddScoreChanges ==
  ASSUME NEW s \in GameRecord, NEW t \in Playing \cup {None}, NEW n \in Nat
  PROVE  /\ Changes(AddScore(s, t, n), s, {"score"})
         /\ \A u \in Playing : AddScore(s, t, n).score[u] = s.score[u] + (IF t = u THEN n ELSE 0)
<1>1. s.score \in [Playing -> Nat] /\ DOMAIN s = Fields
  BY DEF GameRecord, Fields
<1>2. None \notin Playing
  BY DEF None, Playing, Americans, British
<1>3. CASE t = None
  <2>1. AddScore(s, t, n) = s
    BY <1>3 DEF AddScore
  <2>2. \A u \in Playing : t # u /\ s.score[u] \in Nat
    BY <1>1, <1>2, <1>3
  <2> QED BY <2>1, <2>2 DEF Changes
<1>4. CASE t # None
  <2>1. AddScore(s, t, n).score = [s.score EXCEPT ![t] = @ + n] /\ Changes(AddScore(s, t, n), s, {"score"})
    BY <1>1, <1>4 DEF AddScore, Changes, Fields
  <2> QED BY <1>1, <2>1
<1> QED BY <1>3, <1>4

\* The round system calls the result, or hands out the point and the round.
LEMMA RoundSystemChanges ==
  ASSUME NEW s
  PROVE  \/ RoundSystem(s) = s
         \/ RoundSystem(s) = Decide(s)
         \/ s.restarting /\ RoundSystem(s) = HandleScores(s, s.winner, 1)
<1>1. CASE ~RoundIsOver(s)
  BY <1>1 DEF RoundSystem
<1>2. CASE RoundIsOver(s) /\ ~s.restarting
  BY <1>2 DEF RoundSystem
<1>3. CASE RoundIsOver(s) /\ s.restarting /\ ~(s.restartIn < 0)
  BY <1>3 DEF RoundSystem
<1>4. CASE RoundIsOver(s) /\ s.restarting /\ s.restartIn < 0
  BY <1>4 DEF RoundSystem
<1> QED BY <1>1, <1>2, <1>3, <1>4

LEMMA DecideChanges ==
  ASSUME NEW s \in GameRecord
  PROVE  /\ Changes(Decide(s), s, {"restarting", "restartIn", "winner", "decided"})
         /\ Decide(s).decided
  BY DEF Decide, Changes, GameRecord, Fields

\* The frames of a match that is played.
LEMMA Frames ==
  ASSUME IInv, AnyFrame
  PROVE  \/ /\ Changes(game', game, {"restartIn", "flagIn", "waveAge", "roundAge", "gameAge",
                                       "roundReset", "mapReset", "over"})
            /\ game'.over
            /\ game'.roundReset = Off <=> game.roundReset = Off
            /\ game'.mapReset = Off <=> game.mapReset = Off
         \/ \E dt \in {0, 1} : \E b \in BalanceTeams(FlagUpdate(Elapse(game, dt))) :
              /\ ~game.over
              /\ game' = FinishThink(Wave(RestartRoundCommand(RestartMap(b))))
<1>1. PICK dt \in {0, 1} : game' \in Think(Elapse(game, dt))
  BY DEF AnyFrame, Frame
<1> DEFINE e == Elapse(game, dt)
<1>2. /\ e \in GameRecord /\ e.over = game.over
      /\ e.roundReset = Off <=> game.roundReset = Off
      /\ e.mapReset = Off <=> game.mapReset = Off
      /\ Changes(e, game, {"restartIn", "flagIn", "waveAge", "roundAge", "gameAge",
                                       "roundReset", "mapReset"})
  <2>1. Fit(game, client) /\ respawnstyle \in Styles /\ game \in GameRecord
    BY DEF IInv, Fit
  <2>2. e \in GameRecord
    BY <2>1, ElapseFit DEF Fit
  <2> QED BY <2>1, <2>2, ElapseChanges DEF Changes, Fields
<1> HIDE DEF e
<1>3. CASE e.over
  <2>1. game' = e
    BY <1>1, <1>3 DEF Think, e
  <2> QED BY <2>1, <1>2, <1>3 DEF Changes
<1>4. CASE ~e.over /\ TimeIsUp(e)
  <2>1. game' = GoToIntermission(e)
    BY <1>1, <1>4 DEF Think, e
  <2>2. game'.over /\ Changes(game', e, {"over"})
    BY <1>2, <2>1 DEF GoToIntermission, Changes, GameRecord, Fields
  <2>3. game'.roundReset = e.roundReset /\ game'.mapReset = e.mapReset
    BY <2>2 DEF Changes, Fields
  <2> QED BY <1>2, <2>2, <2>3 DEF Changes
<1>5. CASE ~e.over /\ ~TimeIsUp(e)
  <2>1. PICK b \in BalanceTeams(FlagUpdate(e)) :
          game' = FinishThink(Wave(RestartRoundCommand(RestartMap(b))))
    BY <1>1, <1>5 DEF Think, e
  <2> QED BY <1>2, <1>5, <2>1 DEF e
<1> QED BY <1>3, <1>4, <1>5

LEMMA FrameFit ==
  ASSUME IInv, NEW dt, NEW b \in BalanceTeams(FlagUpdate(Elapse(game, dt)))
  PROVE  /\ Fit(Elapse(game, dt), client) /\ Fit(FlagUpdate(Elapse(game, dt)), client)
         /\ Fit(b, client) /\ Fit(RestartMap(b), client)
         /\ Fit(RestartRoundCommand(RestartMap(b)), client)
         /\ Fit(Wave(RestartRoundCommand(RestartMap(b))), client)
         /\ Fit(RoundSystem(Wave(RestartRoundCommand(RestartMap(b)))), client)
<1>1. respawnstyle \in Styles /\ client \in SUBSET Players /\ Fit(game, client)
  BY DEF IInv
<1>2. Fit(Elapse(game, dt), client) /\ Fit(FlagUpdate(Elapse(game, dt)), client)
  BY <1>1, ElapseFit, FlagUpdateFit
<1>3. Fit(b, client)
  BY <1>1, <1>2, BalanceFit
<1>4. Fit(RestartMap(b), client)
  BY <1>1, <1>3, CommandsFit
<1>5. Fit(RestartRoundCommand(RestartMap(b)), client)
  BY <1>1, <1>4, CommandsFit
<1>6. Fit(Wave(RestartRoundCommand(RestartMap(b))), client)
  BY <1>5, WaveFit
<1> QED BY <1>1, <1>2, <1>3, <1>4, <1>5, <1>6, RoundSystemFit

LEMMA DrainChanges ==
  ASSUME NEW s \in GameRecord
  PROVE  Changes(CheckTicketDrain(s), s, {"tickets", "fraction"})
<1>1. DOMAIN s = Fields
  BY DEF GameRecord, Fields
<1>2. ASSUME NEW r, DOMAIN r = Fields, NEW t
      PROVE  DOMAIN DrainOf(r, t) = Fields /\ Changes(DrainOf(r, t), r, {"tickets", "fraction"})
  BY <1>2 DEF DrainOf, RemoveTickets, Changes, Fields
<1> QED BY <1>1, <1>2 DEF CheckTicketDrain, Changes

\* The flags drain tickets, or win a full cap.
LEMMA FlagUpdateChanges ==
  ASSUME respawnstyle \in Styles, NEW C, NEW s, Fit(s, C)
  PROVE  \/ UsingTickets /\ Changes(FlagUpdate(s), s, {"tickets", "fraction", "flagIn"})
         \/ ~UsingTickets /\ Changes(FlagUpdate(s), s, {"flagIn"})
         \/ \E t \in Playing :
              /\ ~UsingTickets /\ Fullcap(s, t)
              /\ ~FlagUpdate(s).restarting
              /\ Changes(FlagUpdate(s), s, Restarts \cup {"score", "restarting", "restartIn"})
              /\ \A u \in Playing : FlagUpdate(s).score[u] = s.score[u] + (IF t = u THEN WinBonus ELSE 0)
<1>0. s \in GameRecord /\ DOMAIN s = Fields
  BY DEF Fit, GameRecord, Fields
<1>1. CASE s.flagIn > 0
  BY <1>0, <1>1 DEF FlagUpdate, Changes
<1>2. CASE ~(s.flagIn > 0) /\ UsingTickets
  <2>1. Fit(CheckTicketDrain(s), C)
    BY DrainFit, SidesDiffer DEF CheckTicketDrain
  <2>2. DOMAIN CheckTicketDrain(s) = Fields
    BY <2>1 DEF Fit, GameRecord, Fields
  <2>3. Changes(FlagUpdate(s), CheckTicketDrain(s), {"flagIn"})
    BY <1>2, <2>2 DEF FlagUpdate, Changes, Fields
  <2> QED BY <1>0, <1>2, <2>3, DrainChanges DEF Changes
<1>3. CASE ~(s.flagIn > 0) /\ ~UsingTickets
  <2>1. Fit(CheckFullcap(s), C)
    BY HandleScoresFit, SidesDiffer DEF CheckFullcap
  <2>2. DOMAIN CheckFullcap(s) = Fields
    BY <2>1 DEF Fit, GameRecord, Fields
  <2>3. FlagUpdate(s) = [CheckFullcap(s) EXCEPT !.flagIn = 1]
    BY <1>3 DEF FlagUpdate
  <2>4. Changes(FlagUpdate(s), CheckFullcap(s), {"flagIn"})
    BY <2>2, <2>3 DEF Changes, Fields
  <2>5. CASE CheckFullcap(s) = s
    BY <1>3, <2>4, <2>5
  <2>6. ASSUME NEW t \in Playing, Fullcap(s, t), CheckFullcap(s) = HandleScores(s, t, WinBonus)
        PROVE  /\ ~FlagUpdate(s).restarting
               /\ Changes(FlagUpdate(s), s, Restarts \cup {"score", "restarting", "restartIn"})
               /\ \A u \in Playing : FlagUpdate(s).score[u] = s.score[u] + (IF t = u THEN WinBonus ELSE 0)
    <3> DEFINE a == AddScore(s, t, WinBonus)
               n == NextRound(a)
    <3>1. /\ Fit(a, C) /\ Changes(a, s, {"score"})
          /\ \A u \in Playing : a.score[u] = s.score[u] + (IF t = u THEN WinBonus ELSE 0)
      <4>1. Fit(a, C)
        BY ScoresFit
      <4> QED BY <1>0, <4>1, AddScoreChanges
    <3> HIDE DEF a
    <3>2. /\ n.round = a.round /\ ~n.restarting /\ n.list = a.list /\ n.score = a.score
          /\ Changes(n, a, Restarts \cup {"list", "score", "round", "restarting", "restartIn"})
      BY <1>3, <3>1, NextRoundChanges
    <3>3. CheckFullcap(s) = n
      BY <2>6 DEF HandleScores, a
    <3> HIDE DEF n
    <3>4. Changes(n, s, Restarts \cup {"score", "restarting", "restartIn"})
      BY <3>1, <3>2 DEF Changes, Restarts, Fields
    <3>5. /\ FlagUpdate(s).score = n.score /\ FlagUpdate(s).restarting = n.restarting
          /\ Changes(FlagUpdate(s), s, Restarts \cup {"score", "restarting", "restartIn"})
      BY <2>4, <3>3, <3>4 DEF Changes, Restarts, Fields
    <3> QED BY <3>1, <3>2, <3>5
  <2>7. \/ CheckFullcap(s) = s
        \/ \E t \in Playing : Fullcap(s, t) /\ CheckFullcap(s) = HandleScores(s, t, WinBonus)
    <3>1. CASE Fullcap(s, Americans)
      BY <3>1, SidesDiffer DEF CheckFullcap
    <3>2. CASE ~Fullcap(s, Americans) /\ Fullcap(s, British)
      BY <3>2, SidesDiffer DEF CheckFullcap
    <3>3. CASE ~Fullcap(s, Americans) /\ ~Fullcap(s, British)
      BY <3>3 DEF CheckFullcap
    <3> QED BY <3>1, <3>2, <3>3
  <2> QED BY <1>3, <2>5, <2>6, <2>7
<1> QED BY <1>1, <1>2, <1>3

LEMMA NoFlagsNoCap ==
  ASSUME NEW s, Flags = {}, NEW t
  PROVE  ~Fullcap(s, t) /\ ~Dominates(s, t)
<1>1. Counted(s) = {}
  BY DEF Counted
<1>2. HeldBy(s, t) = {} /\ Cappable(s, t) = {}
  BY <1>1 DEF HeldBy, Cappable
<1>3. Cardinality({}) = 0
  BY FS_EmptySet
<1>4. ~Dominates(s, t)
  BY <1>2, <1>3 DEF Dominates
<1> QED BY <1>1, <1>4 DEF Fullcap

\* Autobalance, commands and wave leave the books alone, or begin them anew.
Middle ==
  {"list", "askMap", "askRound", "mapReset", "roundReset", "gameAge"} \cup Restarts

LEMMA MiddleChanges ==
  ASSUME NEW C, NEW f, Fit(f, C), NEW b \in BalanceTeams(f), Fit(b, C),
         Fit(RestartMap(b), C), Fit(RestartRoundCommand(RestartMap(b)), C)
  PROVE  LET w == Wave(RestartRoundCommand(RestartMap(b)))
         IN  /\ Changes(w, f, Middle \cup {"score", "round"})
             /\ \/ w.score = f.score /\ w.round = f.round
                \/ w.score = [t \in Playing |-> 0] /\ w.round = 1
             /\ w.list = b.list
             /\ ~f.askMap /\ ~f.askRound /\ f.mapReset = Off /\ f.roundReset = Off =>
                  /\ ~w.askMap /\ ~w.askRound /\ w.mapReset = Off /\ w.roundReset = Off
                  /\ w.decided = f.decided /\ w.score = f.score /\ w.round = f.round
<1> DEFINE m == RestartMap(b)
           c == RestartRoundCommand(m)
           w == Wave(c)
<1>1. Changes(b, f, {"list"})
  BY BalanceChanges DEF Fit
<1>2. /\ Changes(m, b, Restarts \cup {"score", "round", "mapReset", "gameAge", "askMap"})
      /\ \/ m.score = [t \in Playing |-> 0] /\ m.round = 1
         \/ m.score = b.score /\ m.round = b.round
      /\ ~b.askMap /\ b.mapReset = Off =>
           /\ ~m.askMap /\ m.mapReset = Off
           /\ Changes(m, b, {"askMap", "mapReset"})
  <2>1. 0 # Off
    BY DEF Off
  <2> QED BY <2>1, RestartMapChanges DEF Changes, Fields, Restarts
<1>3. /\ Changes(c, m, Restarts \cup {"roundReset", "askRound"})
      /\ ~m.askRound /\ m.roundReset = Off =>
           /\ ~c.askRound /\ c.roundReset = Off
           /\ Changes(c, m, {"askRound", "roundReset"})
  <2>1. 0 # Off
    BY DEF Off
  <2> QED BY <2>1, RestartRoundCommandChanges DEF Changes, Fields, Restarts
<1>4. Changes(w, c, {"alive", "fresh", "tickets", "waveAge"})
  BY WaveChanges DEF Fit
<1> HIDE DEF m, c, w
<1>5. Changes(w, f, Middle \cup {"score", "round"})
  BY <1>1, <1>2, <1>3, <1>4 DEF Changes, Middle, Restarts
<1>6. /\ w.list = b.list
      /\ \/ w.score = f.score /\ w.round = f.round
         \/ w.score = [t \in Playing |-> 0] /\ w.round = 1
  BY <1>1, <1>2, <1>3, <1>4 DEF Changes, Restarts, Fields
<1>7. ASSUME ~f.askMap, ~f.askRound, f.mapReset = Off, f.roundReset = Off
      PROVE  /\ ~w.askMap /\ ~w.askRound /\ w.mapReset = Off /\ w.roundReset = Off
             /\ w.decided = f.decided /\ w.score = f.score /\ w.round = f.round
  <2>1. /\ ~b.askMap /\ ~b.askRound /\ b.mapReset = Off /\ b.roundReset = Off
        /\ b.decided = f.decided /\ b.score = f.score /\ b.round = f.round
    BY <1>1, <1>7 DEF Changes, Fields
  <2>2. /\ ~m.askMap /\ ~m.askRound /\ m.mapReset = Off /\ m.roundReset = Off
        /\ m.decided = f.decided /\ m.score = f.score /\ m.round = f.round
    BY <1>2, <2>1 DEF Changes, Fields
  <2>3. /\ ~c.askMap /\ ~c.askRound /\ c.mapReset = Off /\ c.roundReset = Off
        /\ c.decided = f.decided /\ c.score = f.score /\ c.round = f.round
    BY <1>3, <2>2 DEF Changes, Fields
  <2> QED BY <1>4, <2>3 DEF Changes, Fields
<1> QED BY <1>5, <1>6, <1>7 DEF w, c, m

\* The point of the round that is scored.
Point(s, t) == IF s.winner = t THEN 1 ELSE 0
\* What the call of a result sets.
Calls == {"restarting", "restartIn", "winner", "decided", "over"}

\* The ends of a Think: nothing, a result is called, the last round is scored, or
\* the round is scored and the next one begins.
LEMMA FinishChanges ==
  ASSUME respawnstyle \in Styles, NEW C, NEW s, Fit(s, C)
  PROVE  LET r == FinishThink(s)
         IN  \/ Changes(r, s, {"over"})
             \/ r.decided /\ Changes(r, s, Calls)
             \/ UsingTickets /\ s.restarting /\ r.over /\ Changes(r, s, {"score", "over"})
                  /\ \A t \in Playing : r.score[t] = s.score[t] + Point(s, t)
             \/ /\ s.restarting /\ ~r.restarting
                /\ Changes(r, s, Restarts \cup {"list", "score", "round", "restarting", "restartIn", "over"})
                /\ r.round = (IF UsingTickets THEN s.round + 1 ELSE s.round)
                /\ UsingTickets => \A t \in Playing :
                     /\ r.list[Opponent(t)] = s.list[t]
                     /\ r.score[Opponent(t)] = s.score[t] + Point(s, t)
<1> DEFINE q == RoundSystem(s)
           a == AddScore(s, s.winner, 1)
           n == NextRound(a)
<1>0. s \in GameRecord /\ Fit(q, C) /\ s.winner \in Playing \cup {None}
  BY RoundSystemFit DEF Fit, GameRecord
<1>1. CASE respawnstyle \notin {2, 3, 4} \/ TooFewPlayers(s)
  <2>1. FinishThink(s) \in {s, CheckFragLimit(s)}
    BY <1>1 DEF FinishThink
  <2> QED BY <1>0, <2>1, CheckFragLimitChanges DEF Changes
<1>2. CASE respawnstyle \in {2, 3, 4} /\ ~TooFewPlayers(s)
  <2>1. FinishThink(s) = CheckFragLimit(q) /\ Changes(CheckFragLimit(q), q, {"over"})
    BY <1>0, <1>2, CheckFragLimitChanges DEF FinishThink, Fit
  <2> DEFINE r == CheckFragLimit(q)
  <2> HIDE DEF r
  <2>2. CASE q = s
    BY <2>1, <2>2 DEF r
  <2>3. CASE q = Decide(s)
    <3>1. Changes(q, s, {"restarting", "restartIn", "winner", "decided"}) /\ q.decided
      BY <1>0, <2>3, DecideChanges
    <3>2. r.decided /\ Changes(r, s, Calls)
      BY <2>1, <3>1 DEF r, Changes, Calls, Fields
    <3> QED BY <2>1, <3>2 DEF r
  <2>4. CASE s.restarting /\ q = HandleScores(s, s.winner, 1)
    <3>1. /\ Fit(a, C) /\ Changes(a, s, {"score"})
          /\ \A t \in Playing : a.score[t] = s.score[t] + Point(s, t)
      <4>1. 1 \in Nat
        OBVIOUS
      <4>2. Fit(a, C)
        BY <1>0, <4>1, ScoresFit
      <4>3. /\ Changes(a, s, {"score"})
            /\ \A t \in Playing : a.score[t] = s.score[t] + (IF s.winner = t THEN 1 ELSE 0)
        <5> DEFINE won == s.winner
        <5>1. won \in Playing \cup {None}
          BY <1>0
        <5> HIDE DEF won
        <5>2. /\ Changes(AddScore(s, won, 1), s, {"score"})
              /\ \A t \in Playing : AddScore(s, won, 1).score[t] = s.score[t] + (IF won = t THEN 1 ELSE 0)
          BY <1>0, <4>1, <5>1, AddScoreChanges
        <5> QED BY <5>2 DEF won
      <4> QED BY <4>2, <4>3 DEF Point
    <3>2. q = n
      BY <2>4 DEF HandleScores
    <3> HIDE DEF a, q
    <3>3. CASE UsingTickets /\ Changes(n, a, {"over"}) /\ n.over
      <4>1. Changes(r, s, {"score", "over"}) /\ r.score = a.score
        BY <2>1, <3>1, <3>2, <3>3 DEF Changes, Fields, r
      <4>2. r.over
        <5>1. GoToIntermission(q).over
          BY <1>0 DEF Fit, GameRecord, GoToIntermission
        <5> QED BY <3>2, <3>3, <5>1 DEF CheckFragLimit, r
      <4> QED BY <2>1, <2>4, <3>1, <3>3, <4>1, <4>2 DEF r
    <3>4. CASE /\ n.round = (IF UsingTickets THEN a.round + 1 ELSE a.round)
               /\ ~n.restarting
               /\ Changes(n, a, Restarts \cup {"list", "score", "round", "restarting", "restartIn"})
               /\ UsingTickets =>
                    /\ n.list = [t \in Playing |-> a.list[Opponent(t)]]
                    /\ n.score = [t \in Playing |-> a.score[Opponent(t)]]
      <4>1. /\ ~r.restarting
            /\ r.round = (IF UsingTickets THEN s.round + 1 ELSE s.round)
            /\ r.list = n.list /\ r.score = n.score
        BY <2>1, <3>1, <3>2, <3>4 DEF Changes, Fields, r
      <4>2. Changes(r, s, Restarts \cup {"list", "score", "round", "restarting", "restartIn", "over"})
        BY <2>1, <3>1, <3>2, <3>4 DEF Changes, r
      <4>3. ASSUME UsingTickets, NEW t \in Playing
            PROVE  r.list[Opponent(t)] = s.list[t] /\ r.score[Opponent(t)] = s.score[t] + Point(s, t)
        <5>1. a.list = s.list
          BY <3>1 DEF Changes, Fields
        <5> QED BY <3>1, <3>4, <4>1, <4>3, <5>1, OpponentIs
      <4> QED BY <2>1, <2>4, <4>1, <4>2, <4>3 DEF r
    <3> QED BY <3>1, <3>3, <3>4, NextRoundChanges
  <2> QED BY <2>2, <2>3, <2>4, RoundSystemChanges
<1> QED BY <1>1, <1>2

-----------------------------------------------------------------------------
(* The first round of a match.                                             *)

\* Nobody has a point in the first of several rounds.
Opening(s) ==
  /\ s.round >= 1
  /\ UsingTickets /\ ~s.over /\ s.round = 1 => \A t \in Playing : s.score[t] = 0

LEMMA KeepOpening ==
  ASSUME NEW s, NEW r, Opening(s), r.round = s.round, r.score = s.score, s.over => r.over
  PROVE  Opening(r)
  BY DEF Opening

LEMMA NextRoundOpening ==
  ASSUME respawnstyle \in Styles, NEW C, NEW s, Fit(s, C), s.round >= 1
  PROVE  Opening(NextRound(s))
<1>1. s.round \in Nat
  BY DEF Fit, GameRecord
<1>2. CASE UsingTickets /\ NextRound(s).over /\ Changes(NextRound(s), s, {"over"})
  BY <1>2 DEF Changes, Fields, Opening
<1>3. CASE NextRound(s).round = (IF UsingTickets THEN s.round + 1 ELSE s.round)
  BY <1>1, <1>3 DEF Opening
<1> QED BY <1>2, <1>3, NextRoundChanges

\* What the players and the map's logic do to the rules.
LEMMA PlayersChange ==
  ASSUME game \in GameRecord, NEW p \in Players, PlayerStep(p)
  PROVE  Changes(game', game, {"list", "alive", "fresh", "tickets"})
<1>1. ASSUME NEW s, DOMAIN s = Fields, NEW t
      PROVE  /\ DOMAIN Die(s, p) = Fields /\ Changes(Die(s, p), s, {"alive"})
             /\ DOMAIN ChangeTeam(s, p, t) = Fields /\ Changes(ChangeTeam(s, p, t), s, {"list"})
             /\ Changes(Spawn(s, p, t), s, {"alive", "fresh", "tickets"})
  BY <1>1 DEF Die, ChangeTeam, Spawn, Changes, Fields
<1>2. DOMAIN game = Fields
  BY DEF GameRecord, Fields
<1>3. \A t : /\ Changes(ChangeTeam(Die(game, p), p, t), game, {"list", "alive", "fresh", "tickets"})
            /\ Changes(Spawn(ChangeTeam(Die(game, p), p, t), p, t), game, {"list", "alive", "fresh", "tickets"})
  <2> TAKE t
  <2> DEFINE d == Die(game, p)
             r == ChangeTeam(d, p, t)
  <2>1. DOMAIN d = Fields /\ Changes(d, game, {"alive"})
    BY <1>1, <1>2
  <2> HIDE DEF d
  <2>2. DOMAIN r = Fields /\ Changes(r, d, {"list"})
    BY <1>1, <2>1
  <2> HIDE DEF r
  <2>3. Changes(Spawn(r, p, t), r, {"alive", "fresh", "tickets"})
    BY <1>1, <2>2
  <2> QED BY <2>1, <2>2, <2>3 DEF Changes, r, d
<1>4. CASE ClientConnect(p)
  BY <1>2, <1>4 DEF ClientConnect, Changes, Fields
<1>5. ASSUME NEW t \in Playing, AttemptJoin(p, t)
      PROVE  Changes(game', game, {"list", "alive", "fresh", "tickets"})
  <2>1. game' \in {ChangeTeam(Die(game, p), p, t), Spawn(ChangeTeam(Die(game, p), p, t), p, t)}
    BY <1>5 DEF AttemptJoin
  <2> QED BY <1>3, <2>1
<1>6. CASE Spectate(p) \/ ClientDisconnected(p)
  BY <1>3, <1>6 DEF Spectate, ClientDisconnected
<1>7. CASE Killed(p)
  BY <1>1, <1>2, <1>7 DEF Killed, Changes
<1> QED BY <1>4, <1>5, <1>6, <1>7 DEF PlayerStep

LEMMA InputsChange ==
  ASSUME game \in GameRecord, Console \/ \E f \in Flags : FlagChange(f)
  PROVE  Changes(game', game, {"askRound", "askMap", "held"})
<1>1. DOMAIN game = Fields
  BY DEF GameRecord, Fields
<1>2. CASE Console
  BY <1>1, <1>2 DEF Console, Changes, Fields
<1>3. CASE \E f \in Flags : FlagChange(f)
  BY <1>1, <1>3 DEF FlagChange, Changes, Fields
<1> QED BY <1>2, <1>3

LEMMA OpeningStays ==
  ASSUME IInv, Opening(game), [Next]_vars
  PROVE  Opening(game')
<1>0. /\ respawnstyle \in Styles /\ client \in SUBSET Players /\ Fit(game, client)
      /\ game \in GameRecord /\ DOMAIN game = Fields
  BY DEF IInv, Fit, GameRecord, Fields
<1>1. CASE AnyFrame
  <2>1. CASE /\ Changes(game', game, {"restartIn", "flagIn", "waveAge", "roundAge", "gameAge",
                                       "roundReset", "mapReset", "over"})
             /\ game'.over
    <3>1. game'.round = game.round /\ game'.score = game.score
      BY <2>1 DEF Changes, Fields
    <3> QED BY <2>1, <3>1 DEF Opening
  <2>2. ASSUME NEW dt \in {0, 1}, NEW b \in BalanceTeams(FlagUpdate(Elapse(game, dt))),
               ~game.over, game' = FinishThink(Wave(RestartRoundCommand(RestartMap(b))))
        PROVE  Opening(game')
    <3> DEFINE e == Elapse(game, dt)
               f == FlagUpdate(e)
               w == Wave(RestartRoundCommand(RestartMap(b)))
    <3>1. Fit(e, client) /\ Fit(f, client) /\ Fit(w, client)
      BY FrameFit
    <3>2. e.round = game.round /\ e.score = game.score /\ e.over = game.over
      BY <1>0, ElapseChanges DEF Changes, Fields
    <3>3. Opening(f) /\ ~f.over
      <4>1. f.round = e.round /\ f.over = e.over /\ (UsingTickets => f.score = e.score)
        BY <1>0, <3>1, FlagUpdateChanges DEF Changes, Fields, Restarts
      <4> HIDE DEF e, f
      <4> QED BY <2>2, <3>2, <4>1 DEF Opening
    <3>4. /\ \/ w.score = f.score /\ w.round = f.round
             \/ w.score = [t \in Playing |-> 0] /\ w.round = 1
          /\ w.over = f.over
      BY <3>1, FrameFit, MiddleChanges DEF Changes, Middle, Restarts, Fields
    <3> HIDE DEF e, f, w
    <3>5. Opening(w)
      BY <3>3, <3>4 DEF Opening
    <3>6. w.round \in Nat /\ w.round >= 1
      BY <3>1, <3>5 DEF Opening, Fit, GameRecord
    <3>7. game' = FinishThink(w)
      BY <2>2 DEF w
    <3>8. \/ game'.round = w.round /\ game'.score = w.score
          \/ UsingTickets /\ game'.over /\ game'.round = w.round
          \/ game'.round = (IF UsingTickets THEN w.round + 1 ELSE w.round)
      BY <1>0, <3>1, <3>7, FinishChanges DEF Changes, Calls, Restarts, Fields
    <3> QED BY <3>3, <3>4, <3>5, <3>6, <3>8 DEF Opening
  <2> QED BY <1>1, <2>1, <2>2, Frames
<1>2. ASSUME NEW p \in Players, PlayerStep(p)
      PROVE  Opening(game')
  <2>1. game'.round = game.round /\ game'.score = game.score /\ game'.over = game.over
    BY <1>0, <1>2, PlayersChange DEF Changes, Fields
  <2> QED BY <2>1, KeepOpening
<1>3. ASSUME NEW t \in MapInputs[respawnstyle], ForceWinRound(t)
      PROVE  Opening(game')
  <2> DEFINE a == AddScore(game, t, WinBonus)
  <2>1. t \in Playing \cup {None} /\ WinBonus \in Nat
    BY <1>0
  <2>2. Fit(a, client)
    BY <1>0, <2>1, ScoresFit
  <2>3. a.round >= 1
    <3>1. a.round = game.round
      <4>1. Changes(a, game, {"score"})
        BY <1>0, <2>1, AddScoreChanges
      <4> HIDE DEF a
      <4> QED BY <4>1 DEF Changes, Fields
    <3> QED BY <3>1 DEF Opening
  <2> QED BY <1>0, <1>3, <2>2, <2>3, NextRoundOpening DEF ForceWinRound, HandleScores
<1>4. CASE Console
  <2>1. game'.round = game.round /\ game'.score = game.score /\ game'.over = game.over
    BY <1>0, <1>4, InputsChange DEF Changes, Fields
  <2> QED BY <2>1, KeepOpening
<1>5. ASSUME NEW f \in Flags, FlagChange(f)
      PROVE  Opening(game')
  <2>1. game'.round = game.round /\ game'.score = game.score /\ game'.over = game.over
    BY <1>0, <1>5, InputsChange DEF Changes, Fields
  <2> QED BY <2>1, KeepOpening
<1>6. CASE UNCHANGED vars
  BY <1>6 DEF vars
<1> QED BY <1>1, <1>2, <1>3, <1>4, <1>5, <1>6 DEF Next

LEMMA InitOpening == Init => Opening(game)
  BY SidesDiffer DEF Init, Opening

LEMMA AlwaysOpening == Spec => []Opening(game)
<1>1. ASSUME IInv, Opening(game), [Next]_vars
      PROVE  Opening(game)'
  <2>1. Opening(game') /\ respawnstyle' = respawnstyle
    BY <1>1, OpeningStays, StyleStays
  <2> QED BY <2>1 DEF Opening, UsingTickets
<1> QED BY <1>1, InitOpening, AlwaysFit, PTL DEF Spec

\* When a ticket round ends and another follows, every player goes to the other
\* side and his side's score comes with him, with the point he won.
THEOREM ScoresFollow == Spec => ScoresFollowPlayers
<1>1. ASSUME IInv, Opening(game), [Next]_vars,
             ~AutoBalance, UsingTickets, game'.round > game.round, Scored,
             NEW t \in Playing
      PROVE  /\ Members(game', Opponent(t)) = Members(game, t)
             /\ game'.score[Opponent(t)] = game.score[t] + (IF game.winner = t THEN 1 ELSE 0)
  <2>0. /\ respawnstyle \in Styles /\ client \in SUBSET Players /\ Fit(game, client)
        /\ game \in GameRecord /\ DOMAIN game = Fields /\ game.round \in Nat
    BY <1>1 DEF IInv, Fit, GameRecord, Fields
  <2>1. ~Changes(game', game, {"restartIn", "flagIn", "waveAge", "roundAge", "gameAge",
                               "roundReset", "mapReset", "over"})
    BY <1>1, <2>0 DEF Changes, Fields
  <2>a. PICK dt \in {0, 1} : \E b \in BalanceTeams(FlagUpdate(Elapse(game, dt))) :
          /\ ~game.over
          /\ game' = FinishThink(Wave(RestartRoundCommand(RestartMap(b))))
    BY <1>1, <2>1, Frames DEF Scored
  <2>2. PICK b \in BalanceTeams(FlagUpdate(Elapse(game, dt))) :
          /\ ~game.over
          /\ game' = FinishThink(Wave(RestartRoundCommand(RestartMap(b))))
    BY <2>a
  <2> DEFINE e == Elapse(game, dt)
             f == FlagUpdate(e)
             w == Wave(RestartRoundCommand(RestartMap(b)))
  <2>3. Fit(e, client) /\ Fit(f, client) /\ Fit(b, client) /\ Fit(w, client)
    BY <1>1, FrameFit
  <2>4. /\ e.round = game.round /\ e.score = game.score /\ e.list = game.list /\ e.winner = game.winner
    BY <2>0, ElapseChanges DEF Changes, Fields
  <2>5. f.round = e.round /\ f.score = e.score /\ f.list = e.list /\ f.winner = e.winner
    BY <1>1, <2>0, <2>3, FlagUpdateChanges DEF Changes, Fields
  <2>6. b = f
    BY <1>1 DEF BalanceTeams, Uneven
  <2>7. /\ \/ w.score = f.score /\ w.round = f.round
           \/ w.score = [u \in Playing |-> 0] /\ w.round = 1
        /\ w.list = b.list /\ w.winner = f.winner
    BY <1>1, <2>3, FrameFit, MiddleChanges DEF Changes, Middle, Restarts, Fields
  <2>8. game' = FinishThink(w)
    BY <2>2
  <2> HIDE DEF e, f, w
  <2>9. w.round <= game.round /\ w.round \in Nat
    BY <1>1, <2>0, <2>4, <2>5, <2>7 DEF Opening
  <2>10. /\ game'.round = w.round + 1
         /\ game'.list[Opponent(t)] = w.list[t]
         /\ game'.score[Opponent(t)] = w.score[t] + Point(w, t)
    BY <1>1, <2>0, <2>3, <2>8, <2>9, FinishChanges DEF Changes, Calls, Fields
  <2>11. w.score[t] = game.score[t]
    <3>1. CASE w.score = f.score
      BY <3>1, <2>4, <2>5
    <3>2. CASE w.score = [u \in Playing |-> 0] /\ w.round = 1
      <4>1. game.round = 1
        BY <1>1, <2>0, <2>10, <3>2 DEF Opening
      <4> QED BY <1>1, <2>2, <3>2, <4>1 DEF Opening
    <3> QED BY <3>1, <3>2, <2>7
  <2>12. game'.list[Opponent(t)] = game.list[t]
    BY <2>4, <2>5, <2>6, <2>7, <2>10
  <2> QED BY <2>4, <2>5, <2>7, <2>10, <2>11, <2>12 DEF Members, Point
<1>2. IInv /\ Opening(game) /\ [Next]_vars =>
        [~AutoBalance /\ UsingTickets /\ game'.round > game.round /\ Scored =>
           \A t \in Playing :
             /\ Members(game', Opponent(t)) = Members(game, t)
             /\ game'.score[Opponent(t)] = game.score[t] + (IF game.winner = t THEN 1 ELSE 0)]_vars
  BY <1>1
<1> QED BY <1>2, AlwaysFit, AlwaysOpening, PTL DEF Spec, ScoresFollowPlayers

-----------------------------------------------------------------------------
(* Decided rounds.                                                         *)

\* Nothing but the round system restarts rounds, and it has called a result
\* that it is going to score.
Called(s) ==
  /\ ~s.askMap /\ ~s.askRound /\ s.mapReset = Off /\ s.roundReset = Off
  /\ s.restarting => s.decided

LEMMA FrameCalled ==
  ASSUME IInv, Called(game), AnyFrame
  PROVE  /\ Called(game')
         /\ Flags = {} /\ Scored => game.decided
<1>0. /\ respawnstyle \in Styles /\ client \in SUBSET Players /\ Fit(game, client)
      /\ game \in GameRecord /\ DOMAIN game = Fields
  BY DEF IInv, Fit, GameRecord, Fields
<1>a. ASSUME game'.round = game.round, game'.score = game.score
      PROVE  ~Scored
  <2>0. game.round \in Nat /\ game.score \in [Playing -> Nat]
    BY <1>0 DEF GameRecord
  <2>1. Total(game') = Total(game) /\ Total(game) \in Int
    BY <1>a, <2>0, SidesDiffer DEF Total
  <2> QED BY <1>a, <2>0, <2>1 DEF Scored
<1>1. CASE /\ Changes(game', game, {"restartIn", "flagIn", "waveAge", "roundAge", "gameAge",
                                    "roundReset", "mapReset", "over"})
           /\ game'.roundReset = Off <=> game.roundReset = Off
           /\ game'.mapReset = Off <=> game.mapReset = Off
  <2>1. Called(game')
    BY <1>1 DEF Called, Changes, Fields
  <2>2. game'.round = game.round /\ game'.score = game.score
    BY <1>1 DEF Changes, Fields
  <2> QED BY <1>a, <2>1, <2>2
<1>2. ASSUME NEW dt \in {0, 1}, NEW b \in BalanceTeams(FlagUpdate(Elapse(game, dt))),
             game' = FinishThink(Wave(RestartRoundCommand(RestartMap(b))))
      PROVE  Called(game') /\ (Flags = {} /\ Scored => game.decided)
  <2> DEFINE e == Elapse(game, dt)
             f == FlagUpdate(e)
             w == Wave(RestartRoundCommand(RestartMap(b)))
  <2>1. Fit(e, client) /\ Fit(f, client) /\ Fit(b, client) /\ Fit(w, client)
    BY FrameFit
  <2>2. /\ Called(e) /\ e.decided = game.decided
        /\ e.round = game.round /\ e.score = game.score
    BY <1>0, ElapseChanges DEF Changes, Fields, Called
  <2>3. Called(f) /\ (f.restarting => f.decided = game.decided)
    BY <1>0, <2>1, <2>2, FlagUpdateChanges DEF Changes, Fields, Restarts, Called
  <2>4. Flags = {} => f.round = e.round /\ f.score = e.score
    BY <1>0, <2>1, FlagUpdateChanges, NoFlagsNoCap DEF Changes, Fields
  <2>5. /\ Called(w) /\ (w.restarting => w.decided = game.decided)
        /\ w.score = f.score /\ w.round = f.round
    <3>1. w.restarting = f.restarting
      BY <2>1, FrameFit, MiddleChanges DEF Changes, Fields, Middle, Restarts
    <3>2. /\ ~w.askMap /\ ~w.askRound /\ w.mapReset = Off /\ w.roundReset = Off
          /\ w.decided = f.decided /\ w.score = f.score /\ w.round = f.round
      BY <2>1, <2>3, FrameFit, MiddleChanges DEF Called
    <3> HIDE DEF w, f
    <3> QED BY <2>3, <3>1, <3>2 DEF Called
  <2>6. game' = FinishThink(w)
    BY <1>2
  <2> HIDE DEF e, f, w
  <2>7. Called(game')
    BY <1>0, <2>1, <2>5, <2>6, FinishChanges DEF Changes, Calls, Restarts, Fields, Called
  <2>8. ASSUME Flags = {}, Scored
        PROVE  game.decided
    <3>1. \/ game'.round = w.round /\ game'.score = w.score
          \/ w.restarting
      BY <1>0, <2>1, <2>6, FinishChanges DEF Changes, Calls, Fields
    <3>2. w.round = game.round /\ w.score = game.score
      BY <2>2, <2>4, <2>5, <2>8
    <3>3. w.restarting
      BY <1>a, <2>8, <3>1, <3>2
    <3> QED BY <2>5, <3>3 DEF Called
  <2> QED BY <2>7, <2>8
<1> QED BY <1>1, <1>2, Frames

LEMMA CalledStays ==
  ASSUME IInv, Called(game), [Next]_vars, \A r \in Styles : Commands[r] = {}
  PROVE  Called(game')
<1>0. /\ respawnstyle \in Styles /\ client \in SUBSET Players /\ Fit(game, client)
      /\ game \in GameRecord /\ DOMAIN game = Fields
  BY DEF IInv, Fit, GameRecord, Fields
<1>1. CASE AnyFrame
  BY <1>1, FrameCalled
<1>2. ASSUME NEW p \in Players, PlayerStep(p)
      PROVE  Called(game')
  BY <1>0, <1>2, PlayersChange DEF Changes, Fields, Called
<1>3. ASSUME NEW t \in MapInputs[respawnstyle], ForceWinRound(t)
      PROVE  Called(game')
  <2> DEFINE a == AddScore(game, t, WinBonus)
             n == NextRound(a)
  <2>1. t \in Playing \cup {None} /\ WinBonus \in Nat
    BY <1>0
  <2>2. Fit(a, client) /\ Changes(a, game, {"score"})
    BY <1>0, <2>1, ScoresFit, AddScoreChanges
  <2>3. game' = n
    BY <1>3 DEF ForceWinRound, HandleScores
  <2> HIDE DEF a
  <2>4. \/ Changes(n, a, {"over"})
        \/ ~n.restarting /\ Changes(n, a, Restarts \cup {"list", "score", "round", "restarting", "restartIn"})
    BY <1>0, <2>2, NextRoundChanges
  <2> HIDE DEF n
  <2> QED BY <2>2, <2>3, <2>4 DEF Changes, Fields, Restarts, Called
<1>4. CASE Console
  BY <1>0, <1>4 DEF Console
<1>5. ASSUME NEW f \in Flags, FlagChange(f)
      PROVE  Called(game')
  <2>1. PICK h \in Playing \cup {Unassigned, Inactive} : game' = [game EXCEPT !.held[f] = h]
    BY <1>5 DEF FlagChange
  <2> QED BY <1>0, <2>1 DEF Called, Fields
<1>6. CASE UNCHANGED vars
  BY <1>6 DEF vars
<1> QED BY <1>1, <1>2, <1>3, <1>4, <1>5, <1>6 DEF Next

\* Where nothing is typed at the console and the memory of the rules is clean,
\* every round that a frame scores is one whose result was called.
THEOREM RoundsAreDecided ==
  ASSUME ZeroedMemory, \A r \in Styles : Commands[r] = {}
  PROVE  Spec => DecidedRoundsOnly
<1>1. Init => Called(game)
  <2> SUFFICES ASSUME Init PROVE Called(game)
    OBVIOUS
  <2>1. /\ ~game.askMap /\ ~game.askRound /\ game.mapReset = Off /\ game.roundReset = Off
        /\ ~game.restarting
    BY DEF Init
  <2> QED BY <2>1 DEF Called
<1>2. IInv /\ Called(game) /\ [Next]_vars => Called(game)'
  BY CalledStays DEF Called
<1>3. IInv /\ Called(game) /\ [Next]_vars => [Flags = {} /\ Scored => game.decided]_vars
  BY FrameCalled DEF Scored
<1> QED BY <1>1, <1>2, <1>3, AlwaysFit, PTL DEF Spec, DecidedRoundsOnly

\* The flags of the map are finitely many and count for both sides or for none:
\* then a full cap is won by a side that holds every flag that counts.
THEOREM FullcapsAreFull ==
  ASSUME IsFiniteSet(AllFlags),
         \A f \in AllFlags : ForTeam[f] = 0 /\ FullCap[f] \in {0, 3}
  PROVE  Spec => FullcapIsFull
<1>1. ASSUME NEW s, Counted(s) \subseteq AllFlags, respawnstyle = 1, NEW t \in Playing, Fullcap(s, t)
      PROVE  Cappable(s, t) # {} /\ Cappable(s, t) \subseteq HeldBy(s, t)
  <2>1. ~UsingTickets /\ \A f \in Counted(s) : FullCap[f] = 0 /\ ForTeam[f] = 0
    BY <1>1 DEF UsingTickets, Counted
  <2>2. Cappable(s, t) = Counted(s)
    BY <2>1 DEF Cappable
  <2>3. HeldBy(s, t) \subseteq Counted(s)
    BY DEF HeldBy
  <2>4. IsFiniteSet(Counted(s))
    BY <1>1, FS_Subset
  <2>5. Cardinality(HeldBy(s, t)) = Cardinality(Counted(s)) /\ Counted(s) # {}
    BY <1>1, <2>2 DEF Fullcap, HoldsAll
  <2>6. HeldBy(s, t) = Counted(s)
    BY <2>3, <2>4, <2>5, FS_Subset
  <2> QED BY <2>2, <2>5, <2>6
<1>2. ASSUME IInv, [Next]_vars, NEW t \in Playing, respawnstyle = 1, WinBonus > 0, Won(t), AnyFrame
      PROVE  Cappable(game, t) # {} /\ Cappable(game, t) \subseteq HeldBy(game, t)
  <2>0. /\ respawnstyle \in Styles /\ client \in SUBSET Players /\ Fit(game, client)
        /\ game \in GameRecord /\ DOMAIN game = Fields /\ ~UsingTickets
        /\ game.score \in [Playing -> Nat]
    <3>1. Fit(game, client) /\ respawnstyle \in Styles /\ client \in SUBSET Players
      BY <1>2 DEF IInv
    <3>2. game \in GameRecord /\ DOMAIN game = Fields /\ game.score \in [Playing -> Nat]
      BY <3>1 DEF Fit, GameRecord, Fields
    <3>3. ~UsingTickets
      BY <1>2 DEF UsingTickets
    <3> QED BY <3>1, <3>2, <3>3
  <2>1. game'.score[t] = game.score[t] + WinBonus /\ game.score[t] \in Nat /\ WinBonus \in Nat
    BY <1>2, <2>0 DEF Won
  <2>2. ~Changes(game', game, {"restartIn", "flagIn", "waveAge", "roundAge", "gameAge",
                               "roundReset", "mapReset", "over"})
    BY <1>2, <2>1 DEF Changes, Fields
  <2>a. PICK dt \in {0, 1} : \E b \in BalanceTeams(FlagUpdate(Elapse(game, dt))) :
          game' = FinishThink(Wave(RestartRoundCommand(RestartMap(b))))
    BY <1>2, <2>2, Frames
  <2>b. PICK b \in BalanceTeams(FlagUpdate(Elapse(game, dt))) :
          game' = FinishThink(Wave(RestartRoundCommand(RestartMap(b))))
    BY <2>a
  <2> DEFINE e == Elapse(game, dt)
             f == FlagUpdate(e)
             w == Wave(RestartRoundCommand(RestartMap(b)))
  <2>3. Fit(e, client) /\ Fit(f, client) /\ Fit(b, client) /\ Fit(w, client)
    BY <1>2, FrameFit
  <2>4. e.score = game.score /\ e.held = game.held
    BY <2>0, ElapseChanges DEF Changes, Fields
  <2>5. w.score = f.score \/ w.score = [u \in Playing |-> 0]
    BY <2>3, <1>2, FrameFit, MiddleChanges
  <2>6. game'.score = w.score
    <3>1. FinishThink(w) = CheckFragLimit(w)
      BY <1>2 DEF FinishThink
    <3>2. Changes(game', w, {"over"})
      BY <2>b, <2>3, <3>1, CheckFragLimitChanges DEF Fit
    <3> HIDE DEF w
    <3> QED BY <3>2 DEF Changes, Fields
  <2>7. \/ f.score = e.score
        \/ \E u \in Playing : /\ Fullcap(e, u)
                              /\ f.score[t] = e.score[t] + (IF u = t THEN WinBonus ELSE 0)
    BY <2>0, <2>3, FlagUpdateChanges DEF Changes, Fields
  <2> HIDE DEF e, f, w
  <2>8. Fullcap(e, t)
    <3>1. w.score = f.score
      BY <1>2, <2>1, <2>5, <2>6
    <3> QED BY <1>2, <2>1, <2>4, <2>6, <2>7, <3>1
  <2>9. Counted(e) \subseteq AllFlags
    BY <2>0 DEF Counted, Flags
  <2>10. Cappable(e, t) # {} /\ Cappable(e, t) \subseteq HeldBy(e, t)
    BY <1>1, <1>2, <2>8, <2>9
  <2> QED BY <2>4, <2>10 DEF Cappable, HeldBy, Counted
<1>3. IInv /\ [Next]_vars =>
        [\A t \in Playing :
           respawnstyle = 1 /\ WinBonus > 0 /\ Won(t) /\ AnyFrame
             => Cappable(game, t) # {} /\ Cappable(game, t) \subseteq HeldBy(game, t)]_vars
  BY <1>2
<1> QED BY <1>3, AlwaysFit, PTL DEF Spec, FullcapIsFull

-----------------------------------------------------------------------------
(* Tickets.                                                                *)

\* A frame of the styles with tickets that restarts nothing: the drain, the
\* autobalance and the wave work on the tickets, in this order.
LEMMA QuietFrame ==
  ASSUME IInv, UsingTickets, ~Restarted, AnyFrame
  PROVE  \/ /\ game'.tickets = game.tickets /\ game'.fraction = game.fraction
            /\ game'.alive = game.alive
         \/ \E dt \in {0, 1} : \E c : LET f == FlagUpdate(Elapse(game, dt))
                                          w == Wave(c)
                                      IN  /\ Fit(Elapse(game, dt), client) /\ Fit(c, client)
                                          /\ c.tickets = f.tickets /\ c.fraction = f.fraction
                                          /\ c.alive = game.alive /\ c.fresh = game.fresh
                                          /\ game'.tickets = w.tickets /\ game'.fraction = f.fraction
                                          /\ game'.alive = w.alive /\ game'.list = c.list
<1>0. /\ respawnstyle \in Styles /\ client \in SUBSET Players /\ Fit(game, client)
      /\ game \in GameRecord /\ DOMAIN game = Fields /\ game.round \in Nat
  BY DEF IInv, Fit, GameRecord, Fields
<1>1. CASE Changes(game', game, {"restartIn", "flagIn", "waveAge", "roundAge", "gameAge",
                                    "roundReset", "mapReset", "over"})
  BY <1>1 DEF Changes, Fields
<1>2. ASSUME NEW dt \in {0, 1}, NEW b \in BalanceTeams(FlagUpdate(Elapse(game, dt))),
             game' = FinishThink(Wave(RestartRoundCommand(RestartMap(b))))
      PROVE  \E c : LET f == FlagUpdate(Elapse(game, dt))
                        w == Wave(c)
                    IN  /\ Fit(Elapse(game, dt), client) /\ Fit(c, client)
                        /\ c.tickets = f.tickets /\ c.fraction = f.fraction
                        /\ c.alive = game.alive /\ c.fresh = game.fresh
                        /\ game'.tickets = w.tickets /\ game'.fraction = f.fraction
                        /\ game'.alive = w.alive /\ game'.list = c.list
  <2> DEFINE e == Elapse(game, dt)
             f == FlagUpdate(e)
             m == RestartMap(b)
             c == RestartRoundCommand(m)
             w == Wave(c)
  <2>1. Fit(e, client) /\ Fit(f, client) /\ Fit(b, client) /\ Fit(m, client) /\ Fit(c, client) /\ Fit(w, client)
    BY FrameFit
  <2>2. /\ Changes(e, game, {"restartIn", "flagIn", "waveAge", "roundAge", "gameAge",
                                       "roundReset", "mapReset"})
        /\ e.mapReset # Off => game.mapReset # Off
        /\ e.roundReset # Off => game.roundReset # Off
    BY <1>0, ElapseChanges
  <2>3. Changes(f, e, {"tickets", "fraction", "flagIn"})
    BY <1>0, <2>1, FlagUpdateChanges
  <2>4. Changes(b, f, {"list"})
    BY <2>1, BalanceChanges DEF Fit
  <2>5. \/ /\ b.mapReset = 0 /\ m.mapReset = Off
           /\ Changes(m, b, Restarts \cup {"score", "round", "mapReset", "gameAge"})
        \/ Changes(m, b, {"askMap", "mapReset"})
    BY <2>1, RestartMapChanges
  <2>6. \/ /\ m.roundReset = 0 /\ c.roundReset = Off
           /\ Changes(c, m, Restarts \cup {"roundReset"})
        \/ Changes(c, m, {"askRound", "roundReset"})
    BY <2>1, RestartRoundCommandChanges
  <2>7. Changes(w, c, {"alive", "fresh", "tickets", "waveAge"})
    BY <2>1, WaveChanges DEF Fit
  <2>8. \/ Changes(game', w, Calls \cup {"score"})
        \/ /\ Changes(game', w, Restarts \cup {"list", "score", "round", "restarting", "restartIn", "over"})
           /\ game'.round = w.round + 1
    BY <1>0, <1>2, <2>1, FinishChanges DEF Changes, Calls
  <2>9. 0 # Off
    BY DEF Off
  <2>g. game'.mapReset = w.mapReset /\ game'.roundReset = w.roundReset
    BY <2>8 DEF Changes, Calls, Restarts, Fields
  <2> HIDE DEF e, f, m, c, w
  <2>10. Changes(m, b, {"askMap", "mapReset"})
    <3>1. ASSUME b.mapReset = 0, m.mapReset = Off
          PROVE  Restarted
      <4>1. game.mapReset # Off
        BY <2>2, <2>3, <2>4, <2>9, <3>1 DEF Changes, Fields
      <4>2. game'.mapReset = Off
        BY <2>6, <2>7, <2>g, <3>1 DEF Changes, Fields, Restarts
      <4> QED BY <4>1, <4>2 DEF Restarted
    <3> QED BY <2>5, <3>1
  <2>11. Changes(c, m, {"askRound", "roundReset"})
    <3>1. ASSUME m.roundReset = 0, c.roundReset = Off
          PROVE  Restarted
      <4>1. game.roundReset # Off
        BY <2>2, <2>3, <2>4, <2>9, <2>10, <3>1 DEF Changes, Fields
      <4>2. game'.roundReset = Off
        BY <2>7, <2>g, <3>1 DEF Changes, Fields
      <4> QED BY <4>1, <4>2 DEF Restarted
    <3> QED BY <2>6, <3>1
  <2>12. w.round = game.round
    BY <2>2, <2>3, <2>4, <2>7, <2>10, <2>11 DEF Changes, Fields
  <2>13. Changes(game', w, Calls \cup {"score"})
    <3>1. game'.round = game.round
      BY DEF Restarted
    <3> QED BY <1>0, <2>8, <2>12, <3>1
  <2>14. /\ c.tickets = f.tickets /\ c.fraction = f.fraction
         /\ c.alive = game.alive /\ c.fresh = game.fresh
    BY <2>2, <2>3, <2>4, <2>10, <2>11 DEF Changes, Fields
  <2>15. /\ game'.tickets = w.tickets /\ game'.fraction = f.fraction
         /\ game'.alive = w.alive /\ game'.list = c.list
    BY <2>7, <2>13, <2>14 DEF Changes, Fields, Calls
  <2> QED BY <2>1, <2>14, <2>15 DEF w, f, e
<1>3. \/ Changes(game', game, {"restartIn", "flagIn", "waveAge", "roundAge", "gameAge",
                                    "roundReset", "mapReset", "over"})
      \/ \E dt \in {0, 1} : \E b \in BalanceTeams(FlagUpdate(Elapse(game, dt))) :
              game' = FinishThink(Wave(RestartRoundCommand(RestartMap(b))))
  BY Frames
<1> QED BY <1>1, <1>2, <1>3

\* What a wave does to the tickets.
Cost(s, t) == Cardinality({p \in Reinforced(s, t) : ~s.fresh[p]})

LEMMA WaveIs ==
  ASSUME NEW C, NEW s, Fit(s, C), UsingTickets
  PROVE  \/ Wave(s) = s
         \/ LET w == Wave(s)
            IN  /\ w.alive = [p \in Players |-> s.alive[p] \/ p \in Reinforced(s, Americans) \cup Reinforced(s, British)]
                /\ w.tickets = [t \in Playing |->
                       IF Cost(s, t) > s.tickets[t] THEN 0 ELSE s.tickets[t] - Cost(s, t)]
<1>1. CASE Wave(s) = RespawnWave(s)
  <2>1. /\ RespawnWave(s).alive = [p \in Players |-> s.alive[p] \/ p \in Reinforced(s, Americans) \cup Reinforced(s, British)]
        /\ RespawnWave(s).tickets = [t \in Playing |->
                     IF ~UsingTickets THEN s.tickets[t]
                     ELSE IF Cost(s, t) > s.tickets[t] THEN 0 ELSE s.tickets[t] - Cost(s, t)]
    BY DEF Fit, GameRecord, RespawnWave, Cost
  <2> QED BY <1>1, <2>1
<1> QED BY <1>1 DEF Wave

LEMMA ReinforcedRise ==
  ASSUME NEW C, NEW s, Fit(s, C), NEW t \in Playing, NEW p \in Reinforced(s, t)
  PROVE  p \in Players /\ p \in Members(s, t) /\ ~s.alive[p]
<1>1. PICK i \in DOMAIN s.list[t] : ~s.alive[s.list[t][i]] /\ p = s.list[t][i]
  BY DEF Reinforced
<1> QED BY <1>1, ReinforcedAre

\* What the drain takes from one side.
LEMMA DrainOfIs ==
  ASSUME NEW C, NEW s, Fit(s, C), NEW t \in Playing
  PROVE  /\ Changes(DrainOf(s, t), s, {"tickets", "fraction"})
         /\ \A u \in Playing \ {t} : DrainOf(s, t).tickets[u] = s.tickets[u] /\ DrainOf(s, t).fraction[u] = s.fraction[u]
         /\ Worth(DrainOf(s, t), t) = IF Dominates(s, Opponent(t)) THEN Drained(s, t, Drain[t]) ELSE Worth(s, t)
<1> DEFINE sum == Drain[t] + s.fraction[t]
           r   == RemoveTickets(s, t, Drain[t])
<1>0. /\ s.fraction \in [Playing -> 0 .. Parts - 1] /\ s.tickets \in [Playing -> Nat]
      /\ DOMAIN s = Fields
  BY DEF Fit, GameRecord, Fields
<1>1. s.fraction[t] \in Nat /\ s.fraction[t] < Parts /\ s.tickets[t] \in Nat /\ Drain[t] \in Nat /\ Parts \in Nat \ {0}
  BY <1>0
<1>2. CASE ~Dominates(s, Opponent(t))
  BY <1>2 DEF DrainOf, Changes
<1>3. CASE Dominates(s, Opponent(t))
  <2>1. DrainOf(s, t) = r
    BY <1>3 DEF DrainOf
  <2>2. /\ sum \in Nat /\ sum \div Parts \in Nat /\ sum % Parts \in 0 .. Parts - 1
        /\ sum % Parts = sum - Parts * (sum \div Parts)
    <3>1. sum \in Nat
      BY <1>1
    <3> HIDE DEF sum
    <3> QED BY <1>1, <3>1, DivMod
  <2>3. CASE sum \div Parts >= s.tickets[t]
    <3>1. /\ r.tickets = [s.tickets EXCEPT ![t] = 0] /\ r.fraction = [s.fraction EXCEPT ![t] = 0]
          /\ Changes(r, s, {"tickets", "fraction"})
      BY <1>0, <2>3 DEF RemoveTickets, Changes, Fields
    <3>2. r.tickets[t] = 0 /\ r.fraction[t] = 0
      BY <1>0, <3>1
    <3>3. Worth(r, t) = 0
      BY <3>2, <1>1 DEF Worth
    <3>4. s.tickets[t] * Parts <= sum
      <4> DEFINE q == sum \div Parts
                 k == s.tickets[t]
      <4>1. Parts * k <= Parts * q
        <5>1. q \in Nat /\ k \in Nat /\ k <= q
          BY <1>1, <2>2, <2>3
        <5> HIDE DEF q, k
        <5> QED BY <1>1, <5>1
      <4>2. Parts * q <= sum
        <5>1. q \in Nat /\ Parts * q \in Int /\ sum \in Nat /\ sum % Parts \in Nat /\ sum % Parts = sum - Parts * q
          BY <1>1, <2>2
        <5> HIDE DEF q, sum
        <5> QED BY <5>1
      <4>3. k \in Nat /\ k * Parts = Parts * k
        BY <1>1
      <4> HIDE DEF sum, q
      <4> QED BY <1>1, <2>2, <4>1, <4>2, <4>3 DEF q
    <3>5. Drained(s, t, Drain[t]) = 0
      <4> DEFINE k == s.tickets[t] * Parts
      <4>1. k \in Nat /\ k <= sum
        BY <1>1, <3>4
      <4>2. ~(k - s.fraction[t] > Drain[t])
        <5> HIDE DEF k
        <5> QED BY <1>1, <4>1
      <4> QED BY <4>2 DEF Drained, Worth
    <3>6. \A u \in Playing \ {t} : r.tickets[u] = s.tickets[u] /\ r.fraction[u] = s.fraction[u]
      BY <1>0, <3>1
    <3> QED BY <1>3, <2>1, <3>1, <3>3, <3>5, <3>6
  <2>4. CASE ~(sum \div Parts >= s.tickets[t])
    <3> DEFINE q == sum \div Parts
               k == s.tickets[t]
               left == k - q
               rest == sum % Parts
    <3>1. /\ r.tickets = [s.tickets EXCEPT ![t] = left] /\ r.fraction = [s.fraction EXCEPT ![t] = rest]
          /\ Changes(r, s, {"tickets", "fraction"})
      BY <1>0, <2>4 DEF RemoveTickets, Changes, Fields
    <3>2. r.tickets[t] = left /\ r.fraction[t] = rest
      BY <1>0, <3>1
    <3>3. Worth(r, t) = left * Parts - rest
      BY <3>2 DEF Worth
    <3>4. /\ k \in Nat /\ q \in Nat /\ q < k /\ rest \in Nat /\ rest < Parts
          /\ rest = sum - Parts * q /\ sum \in Nat
      BY <1>1, <2>2, <2>4
    <3> HIDE DEF q, rest, k, left
    <3>5. left * Parts = k * Parts - Parts * q /\ left >= 1 /\ left \in Nat
      BY <1>1, <3>4 DEF left
    <3>6. left * Parts >= Parts
      BY <1>1, <3>5
    <3>7. Worth(r, t) = k * Parts - sum /\ Worth(r, t) > 0
      <4>1. k * Parts \in Int /\ Parts * q \in Int /\ left * Parts \in Int
        BY <1>1, <3>4, <3>5
      <4> HIDE DEF sum
      <4> QED BY <1>1, <3>3, <3>4, <3>5, <3>6, <4>1
    <3>8. Worth(s, t) = k * Parts - s.fraction[t] /\ k * Parts \in Int
      BY <1>1 DEF Worth, k
    <3>9. Worth(r, t) = Worth(s, t) - Drain[t]
      BY <1>1, <3>7, <3>8
    <3>10. Drained(s, t, Drain[t]) = Worth(r, t)
      BY <1>1, <3>7, <3>8, <3>9 DEF Drained
    <3>11. \A u \in Playing \ {t} : r.tickets[u] = s.tickets[u] /\ r.fraction[u] = s.fraction[u]
      BY <1>0, <3>1
    <3> QED BY <1>3, <2>1, <3>1, <3>10, <3>11
  <2> QED BY <2>3, <2>4
<1> QED BY <1>2, <1>3

\* Whoever rises in a frame that restarts nothing has been reinforced.
LEMMA RisenAre ==
  ASSUME NEW C, NEW c, Fit(c, C), UsingTickets, NEW t \in Playing,
         game'.list = c.list, c.alive = game.alive, game'.alive = Wave(c).alive
  PROVE  \/ Wave(c) = c /\ Risen(t) = {}
         \/ /\ Risen(t) = Reinforced(c, t)
            /\ Wave(c).tickets = [u \in Playing |->
                   IF Cost(c, u) > c.tickets[u] THEN 0 ELSE c.tickets[u] - Cost(c, u)]
<1>1. Members(game', t) = Members(c, t)
  BY DEF Members
<1>2. CASE Wave(c) = c
  BY <1>2 DEF Risen
<1>3. CASE /\ Wave(c).alive = [p \in Players |-> c.alive[p] \/ p \in Reinforced(c, Americans) \cup Reinforced(c, British)]
           /\ Wave(c).tickets = [u \in Playing |->
                   IF Cost(c, u) > c.tickets[u] THEN 0 ELSE c.tickets[u] - Cost(c, u)]
  <2>1. \A u \in Playing : \A p \in Reinforced(c, u) : p \in Players /\ p \in Members(c, u) /\ ~c.alive[p]
    BY ReinforcedRise
  <2>2. Members(c, t) \subseteq Players
    BY FightersArePlayers DEF Fit
  <2>3. Members(c, Americans) \cap Members(c, British) = {}
    BY DEF Fit, Listed
  <2>4. Risen(t) \subseteq Reinforced(c, t)
    BY <1>1, <1>3, <2>1, <2>2, <2>3, SidesDiffer DEF Risen
  <2>5. Reinforced(c, t) \subseteq Risen(t)
    BY <1>1, <1>3, <2>1, SidesDiffer DEF Risen
  <2> QED BY <1>3, <2>4, <2>5
<1> QED BY <1>2, <1>3, WaveIs

LEMMA DominatesSame ==
  ASSUME NEW s, NEW r, r.held = s.held, NEW t
  PROVE  Dominates(r, t) = Dominates(s, t)
<1>1. Counted(r) = Counted(s)
  BY DEF Counted
<1>2. HeldBy(r, t) = HeldBy(s, t) /\ Cappable(r, t) = Cappable(s, t)
  BY <1>1 DEF HeldBy, Cappable
<1> QED BY <1>2 DEF Dominates

LEMMA CheckTicketDrainIs ==
  ASSUME NEW C, NEW s, Fit(s, C), NEW t \in Playing
  PROVE  Worth(CheckTicketDrain(s), t)
           = IF Dominates(s, Opponent(t)) THEN Drained(s, t, Drain[t]) ELSE Worth(s, t)
<1> DEFINE d == DrainOf(s, British)
           r == DrainOf(d, Americans)
<1>0. Americans \in Playing /\ British \in Playing
  BY SidesDiffer
<1>1. Fit(d, C)
  BY <1>0, DrainFit
<1>2. /\ Changes(d, s, {"tickets", "fraction"})
      /\ d.tickets[Americans] = s.tickets[Americans] /\ d.fraction[Americans] = s.fraction[Americans]
      /\ Worth(d, British) = IF Dominates(s, Opponent(British)) THEN Drained(s, British, Drain[British])
                             ELSE Worth(s, British)
  BY <1>0, DrainOfIs, SidesDiffer
<1> HIDE DEF d
<1>3. /\ r.tickets[British] = d.tickets[British] /\ r.fraction[British] = d.fraction[British]
      /\ Worth(r, Americans) = IF Dominates(d, Opponent(Americans)) THEN Drained(d, Americans, Drain[Americans])
                               ELSE Worth(d, Americans)
  BY <1>0, <1>1, DrainOfIs, SidesDiffer
<1>4. Dominates(d, Opponent(Americans)) = Dominates(s, Opponent(Americans))
  <2>1. d.held = s.held
    BY <1>2 DEF Changes, Fields
  <2> QED BY <2>1, DominatesSame
<1>5. Worth(d, Americans) = Worth(s, Americans)
      /\ Drained(d, Americans, Drain[Americans]) = Drained(s, Americans, Drain[Americans])
  <2>1. Worth(d, Americans) = Worth(s, Americans)
    BY <1>2 DEF Worth
  <2> QED BY <2>1 DEF Drained
<1>6. CheckTicketDrain(s) = r
  BY DEF CheckTicketDrain, d
<1>7. Worth(r, British) = Worth(d, British)
  BY <1>3 DEF Worth
<1> HIDE DEF r
<1>8. CASE t = Americans
  BY <1>3, <1>4, <1>5, <1>6, <1>8
<1>9. CASE t = British
  BY <1>2, <1>6, <1>7, <1>9
<1> QED BY <1>8, <1>9, SidesDiffer

\* A drain takes the whole amount, decimals included, and only from a side whose
\* opponents have more than half of their flags: of the two readings of the drains
\* it is the first that the code follows, in every frame (CheckTicketDrain).
THEOREM DrainsAreExact == Spec => DrainIsExact
<1>1. ASSUME IInv, [Next]_vars, NEW t \in Playing,
             Worth(game', t) # Worth(game, t), DrainOnly
      PROVE  /\ Dominates(game, Opponent(t))
             /\ Worth(game', t) = Drained(game, t, Drain[t])
  <2>0. /\ respawnstyle \in Styles /\ Fit(game, client) /\ game \in GameRecord /\ DOMAIN game = Fields
        /\ UsingTickets /\ ~Restarted /\ AnyFrame
    BY <1>1 DEF IInv, Fit, GameRecord, Fields, DrainOnly
  <2>1. ~(game'.tickets = game.tickets /\ game'.fraction = game.fraction)
    BY <1>1 DEF Worth
  <2>2. PICK dt \in {0, 1} :
          \E c : LET f == FlagUpdate(Elapse(game, dt))
                     w == Wave(c)
                 IN  /\ Fit(Elapse(game, dt), client) /\ Fit(c, client)
                     /\ c.tickets = f.tickets /\ c.fraction = f.fraction
                     /\ c.alive = game.alive /\ c.fresh = game.fresh
                     /\ game'.tickets = w.tickets /\ game'.fraction = f.fraction
                     /\ game'.alive = w.alive /\ game'.list = c.list
    BY <1>1, <2>0, <2>1, QuietFrame
  <2> DEFINE e == Elapse(game, dt)
             f == FlagUpdate(e)
  <2>3. PICK c : LET w == Wave(c)
                 IN  /\ Fit(e, client) /\ Fit(c, client)
                     /\ c.tickets = f.tickets /\ c.fraction = f.fraction
                     /\ c.alive = game.alive /\ c.fresh = game.fresh
                     /\ game'.tickets = w.tickets /\ game'.fraction = f.fraction
                     /\ game'.alive = w.alive /\ game'.list = c.list
    BY <2>2
  <2>4. Wave(c).tickets[t] = c.tickets[t]
    <3>1. CASE Wave(c) = c
      BY <3>1
    <3>2. CASE /\ Risen(t) = Reinforced(c, t)
               /\ Wave(c).tickets = [u \in Playing |->
                   IF Cost(c, u) > c.tickets[u] THEN 0 ELSE c.tickets[u] - Cost(c, u)]
      <4>1. Reinforced(c, t) = {}
        BY <1>1, <3>2 DEF DrainOnly
      <4>2. Cost(c, t) = 0
        <5>1. {p \in Reinforced(c, t) : ~c.fresh[p]} = {}
          BY <4>1
        <5> QED BY <5>1, FS_EmptySet DEF Cost
      <4>3. c.tickets[t] \in Nat
        BY <2>3 DEF Fit, GameRecord
      <4> QED BY <3>2, <4>2, <4>3
    <3>3. \/ Wave(c) = c /\ Risen(t) = {}
          \/ /\ Risen(t) = Reinforced(c, t)
             /\ Wave(c).tickets = [u \in Playing |->
                   IF Cost(c, u) > c.tickets[u] THEN 0 ELSE c.tickets[u] - Cost(c, u)]
      <4>1. /\ Fit(c, client) /\ game'.list = c.list /\ c.alive = game.alive
            /\ game'.alive = Wave(c).alive
        BY <2>3
      <4> QED BY <2>0, <4>1, RisenAre
    <3> QED BY <3>1, <3>2, <3>3
  <2>5. Worth(game', t) = Worth(f, t)
    BY <2>3, <2>4 DEF Worth
  <2>6. /\ e.tickets = game.tickets /\ e.fraction = game.fraction /\ e.held = game.held
    BY <2>0, ElapseChanges DEF Changes, Fields
  <2>7. /\ Worth(e, t) = Worth(game, t)
        /\ Drained(e, t, Drain[t]) = Drained(game, t, Drain[t])
        /\ Dominates(e, Opponent(t)) = Dominates(game, Opponent(t))
    <3>1. Worth(e, t) = Worth(game, t)
      BY <2>6 DEF Worth
    <3> QED BY <2>6, <3>1, DominatesSame DEF Drained
  <2> HIDE DEF e
  <2>8. f # e
    BY <1>1, <2>5, <2>7
  <2>9. f = [CheckTicketDrain(e) EXCEPT !.flagIn = DrainPeriod]
    BY <2>0, <2>8 DEF FlagUpdate
  <2>10. Worth(f, t) = Worth(CheckTicketDrain(e), t)
    <3>1. DOMAIN CheckTicketDrain(e) = Fields
      <4>1. Fit(CheckTicketDrain(e), client)
        BY <2>3, DrainFit, SidesDiffer DEF CheckTicketDrain
      <4> QED BY <4>1 DEF Fit, GameRecord, Fields
    <3>2. f.tickets = CheckTicketDrain(e).tickets /\ f.fraction = CheckTicketDrain(e).fraction
      BY <2>9, <3>1 DEF Fields
    <3> HIDE DEF f
    <3> QED BY <3>2 DEF Worth
  <2> HIDE DEF f
  <2>11. Worth(CheckTicketDrain(e), t)
           = IF Dominates(e, Opponent(t)) THEN Drained(e, t, Drain[t]) ELSE Worth(e, t)
    BY <2>3, CheckTicketDrainIs
  <2> QED BY <1>1, <2>5, <2>7, <2>10, <2>11
<1>2. Drain \in Amounts
  BY DEF Amounts
<1>3. IInv /\ [Next]_vars =>
        [(\E t \in Playing : Worth(game', t) # Worth(game, t)) /\ DrainOnly =>
           \E amount \in Amounts : \A t \in Playing :
             Worth(game', t) # Worth(game, t) =>
               /\ Dominates(game, Opponent(t))
               /\ Worth(game', t) = Drained(game, t, amount[t])]_vars
  BY <1>1, <1>2
<1> QED BY <1>3, AlwaysFit, PTL DEF Spec, DrainIsExact

\* A wave stops with the last ticket: whoever pays has at most so many payers
\* before him on the list as leaves a ticket for him.
LEMMA WaveIsPaid ==
  ASSUME NEW C, NEW s, Fit(s, C), UsingTickets, NEW t \in Playing
  PROVE  Cost(s, t) \in Nat /\ Cost(s, t) <= s.tickets[t]
<1> DEFINE q == s.list[t]
           n == Len(q)
           payers(i) == {j \in 1 .. i - 1 : ~s.alive[q[j]] /\ ~s.fresh[q[j]]}
           Pay == {j \in 1 .. n : /\ ~s.alive[q[j]] /\ ~s.fresh[q[j]]
                                  /\ Cardinality(payers(j)) < s.tickets[t]}
           Payers == {p \in Reinforced(s, t) : ~s.fresh[p]}
<1>1. q \in Seq(Players) /\ n \in Nat /\ DOMAIN q = 1 .. n /\ s.tickets[t] \in Nat
  <2>1. s.list \in [Playing -> Seq(Players)] /\ s.tickets \in [Playing -> Nat]
    BY DEF Fit, GameRecord
  <2>2. s.list[t] \in Seq(Players) /\ s.tickets[t] \in Nat
    BY <2>1
  <2> QED BY <2>2
<1>2. \A j \in 1 .. n : payers(j) \in SUBSET (1 .. n)
  BY <1>1
<1>3. IsFiniteSet(1 .. n)
  <2> HIDE DEF n
  <2> QED BY <1>1, FS_Interval
<1>4. IsFiniteSet(Pay) /\ \A j \in 1 .. n : IsFiniteSet(payers(j))
  BY <1>2, <1>3, FS_Subset
<1>5. Payers = {q[j] : j \in Pay}
  BY <1>1 DEF Reinforced
<1>6. IsFiniteSet(Payers) /\ Cardinality(Payers) <= Cardinality(Pay)
  <2> DEFINE h == [j \in Pay |-> q[j]]
  <2>1. h \in Surjection(Pay, Payers)
    <3>1. h \in [Pay -> Payers] /\ \A p \in Payers : \E j \in Pay : h[j] = p
      BY <1>5
    <3> HIDE DEF h, Pay, Payers
    <3> QED BY <3>1 DEF Surjection
  <2> HIDE DEF h, Pay, Payers
  <2> QED BY <1>4, <2>1, FS_Surjection
<1>7. Cardinality(Pay) \in Nat /\ Cardinality(Payers) \in Nat
  BY <1>4, <1>6, FS_CardinalityType
<1>8. Cardinality(Pay) <= s.tickets[t]
  <2>1. CASE Pay = {}
    <3>1. Cardinality(Pay) = 0
      BY <2>1, FS_EmptySet
    <3> QED BY <1>1, <3>1
  <2>2. CASE Pay # {}
    <3>1. PICK m \in Pay : \A i \in Pay : i <= m
      <4>1. Pay \in SUBSET (1 .. n)
        OBVIOUS
      <4> HIDE DEF Pay, n
      <4> QED BY <1>1, <2>2, <4>1, GreatestNumber
    <3>2. /\ Pay \ {m} \subseteq payers(m)
          /\ m \in 1 .. n /\ Cardinality(payers(m)) < s.tickets[t]
      <4>1. m \in 1 .. n /\ Cardinality(payers(m)) < s.tickets[t]
        BY <3>1
      <4>2. ASSUME NEW i \in Pay \ {m} PROVE i \in payers(m)
        <5>1. i \in 1 .. n /\ i <= m /\ i # m /\ ~s.alive[q[i]] /\ ~s.fresh[q[i]]
          BY <3>1
        <5>2. i \in 1 .. m - 1
          <6> HIDE DEF n, q, Pay
          <6> QED BY <1>1, <4>1, <5>1
        <5> QED BY <5>1, <5>2
      <4> QED BY <4>1, <4>2
    <3> HIDE DEF Pay, payers, n
    <3>3. Cardinality(Pay \ {m}) <= Cardinality(payers(m)) /\ Cardinality(payers(m)) \in Nat
      BY <1>4, <3>2, FS_Subset, FS_CardinalityType
    <3>4. Cardinality(Pay \ {m}) = Cardinality(Pay) - 1
      BY <1>4, <3>1, FS_RemoveElement
    <3> QED BY <1>1, <1>7, <3>2, <3>3, <3>4
  <2> QED BY <2>1, <2>2
<1>9. Cost(s, t) = Cardinality(Payers)
  BY DEF Cost
<1> HIDE DEF Pay, Payers
<1> QED BY <1>1, <1>6, <1>7, <1>8, <1>9

\* With tickets and no flags to drain them, whoever enters the fight in a frame
\* that restarts nothing costs his side a ticket it had, or it was his first spawn.
THEOREM WavesArePaid == Spec => ReinforcementsArePaid
<1>1. ASSUME IInv, [Next]_vars, UsingTickets, Flags = {}, ~Restarted, AnyFrame,
             NEW t \in Playing
      PROVE  Cardinality({p \in Risen(t) : ~game.fresh[p]}) = game.tickets[t] - game'.tickets[t]
  <2>0. /\ respawnstyle \in Styles /\ Fit(game, client) /\ game \in GameRecord
        /\ game.tickets \in [Playing -> Nat]
    BY <1>1 DEF IInv, Fit, GameRecord
  <2>1. ASSUME Risen(t) = {}, game'.tickets[t] = game.tickets[t]
        PROVE  Cardinality({p \in Risen(t) : ~game.fresh[p]}) = game.tickets[t] - game'.tickets[t]
    <3>1. {p \in Risen(t) : ~game.fresh[p]} = {}
      BY <2>1
    <3> QED BY <2>0, <2>1, <3>1, FS_EmptySet
  <2>2. CASE game'.tickets = game.tickets /\ game'.alive = game.alive
    BY <2>1, <2>2 DEF Risen
  <2>3. ASSUME NEW dt \in {0, 1}, NEW c,
               Fit(Elapse(game, dt), client), Fit(c, client),
               c.tickets = FlagUpdate(Elapse(game, dt)).tickets,
               c.alive = game.alive, c.fresh = game.fresh,
               game'.tickets = Wave(c).tickets, game'.alive = Wave(c).alive,
               game'.list = c.list
        PROVE  Cardinality({p \in Risen(t) : ~game.fresh[p]}) = game.tickets[t] - game'.tickets[t]
    <3> DEFINE e == Elapse(game, dt)
    <3>1. e.tickets = game.tickets /\ e \in GameRecord /\ DOMAIN e = Fields
      <4>1. e.tickets = game.tickets
        BY <2>0, ElapseChanges DEF Changes, Fields
      <4> QED BY <2>3, <4>1 DEF Fit, GameRecord, Fields
    <3> HIDE DEF e
    <3>2. CheckTicketDrain(e) = e
      <4>1. \A u : DrainOf(e, u) = e
        BY <1>1, NoFlagsNoCap DEF DrainOf
      <4> QED BY <4>1 DEF CheckTicketDrain
    <3>3. FlagUpdate(e).tickets = e.tickets
      BY <1>1, <3>1, <3>2 DEF FlagUpdate, Fields
    <3>4. c.tickets = game.tickets
      BY <2>3, <3>1, <3>3 DEF e
    <3>5. CASE Wave(c) = c /\ Risen(t) = {}
      BY <2>1, <2>3, <3>4, <3>5
    <3>6. CASE /\ Risen(t) = Reinforced(c, t)
               /\ Wave(c).tickets = [u \in Playing |->
                   IF Cost(c, u) > c.tickets[u] THEN 0 ELSE c.tickets[u] - Cost(c, u)]
      <4>1. Cost(c, t) \in Nat /\ Cost(c, t) <= c.tickets[t]
        BY <1>1, <2>3, WaveIsPaid
      <4>2. game'.tickets[t] = game.tickets[t] - Cost(c, t)
        BY <2>0, <2>3, <3>4, <3>6, <4>1
      <4>3. Cost(c, t) = Cardinality({p \in Risen(t) : ~game.fresh[p]})
        BY <2>3, <3>6 DEF Cost
      <4> QED BY <2>0, <4>1, <4>2, <4>3
    <3>7. \/ Wave(c) = c /\ Risen(t) = {}
          \/ /\ Risen(t) = Reinforced(c, t)
             /\ Wave(c).tickets = [u \in Playing |->
                   IF Cost(c, u) > c.tickets[u] THEN 0 ELSE c.tickets[u] - Cost(c, u)]
      BY <1>1, <2>3, RisenAre
    <3> QED BY <3>5, <3>6, <3>7
  <2>4. \/ game'.tickets = game.tickets /\ game'.alive = game.alive
        \/ \E dt \in {0, 1} : \E c :
              /\ Fit(Elapse(game, dt), client) /\ Fit(c, client)
              /\ c.tickets = FlagUpdate(Elapse(game, dt)).tickets
              /\ c.alive = game.alive /\ c.fresh = game.fresh
              /\ game'.tickets = Wave(c).tickets /\ game'.alive = Wave(c).alive
              /\ game'.list = c.list
    BY <1>1, QuietFrame
  <2> QED BY <2>2, <2>3, <2>4
<1>2. IInv /\ [Next]_vars =>
        [UsingTickets /\ Flags = {} /\ ~Restarted /\ AnyFrame =>
           \A t \in Playing :
             Cardinality({p \in Risen(t) : ~game.fresh[p]})
               = game.tickets[t] - game'.tickets[t]]_vars
  BY <1>1
<1> QED BY <1>2, AlwaysFit, PTL DEF Spec, ReinforcementsArePaid

-----------------------------------------------------------------------------
(* The clocks of a round.                                                  *)

\* Everybody on a side is alive: what every restart leaves.
Revived(s) == \A q \in Fighters(s) : s.alive[q]

LEMMA KeepRevived ==
  ASSUME NEW C, NEW s, Fit(s, C), NEW r, r.list = s.list, Revived(s),
         \A q \in Players : s.alive[q] => r.alive[q]
  PROVE  Revived(r)
<1>1. Fighters(s) \subseteq Players
  BY FightersArePlayers, SidesDiffer DEF Fit, Fighters
<1> QED BY <1>1, SameLists DEF Revived

LEMMA RestartRoundIs ==
  ASSUME NEW C, NEW s, Fit(s, C), NEW swapTeams \in BOOLEAN
  PROVE  /\ Revived(RestartRound(s, swapTeams))
         /\ RestartRound(s, swapTeams).held = StartingFlags
<1> DEFINE reset == [s EXCEPT !.held = StartingFlags, !.decided = FALSE]
           u == IF swapTeams THEN SwapTeams(reset) ELSE reset
           v == RespawnAll(u)
           r == ResetClocks(ResetTickets(v))
<1>1. s \in GameRecord /\ DOMAIN s = Fields /\ Fighters(s) \subseteq Players
  BY FightersArePlayers, SidesDiffer DEF Fit, GameRecord, Fields, Fighters
<1>2. /\ DOMAIN reset = Fields /\ reset.held = StartingFlags
      /\ reset.list = s.list
  BY <1>1 DEF Fields
<1> HIDE DEF reset
<1>3. DOMAIN u = Fields /\ u.held = StartingFlags /\ Fighters(u) \subseteq Players
  <2>1. Fighters(reset) \subseteq Players
    BY <1>1, <1>2, SameLists
  <2>2. CASE swapTeams
    <3>1. /\ DOMAIN SwapTeams(reset) = Fields /\ SwapTeams(reset).held = StartingFlags
          /\ SwapTeams(reset).list = [t \in Playing |-> reset.list[Opponent(t)]]
      BY <1>2 DEF SwapTeams, Fields
    <3>2. /\ SwapTeams(reset).list[Americans] = reset.list[British]
          /\ SwapTeams(reset).list[British] = reset.list[Americans]
      BY <3>1, OpponentIs, SidesDiffer
    <3>3. Fighters(SwapTeams(reset)) = Fighters(reset)
      BY <3>2 DEF Fighters, Members
    <3> QED BY <2>1, <2>2, <3>1, <3>3
  <2> QED BY <1>2, <2>1, <2>2
<1> HIDE DEF u
<1>4. /\ DOMAIN v = Fields /\ v.held = u.held /\ v.list = u.list
      /\ v.alive = [p \in Players |-> u.alive[p] \/ p \in Fighters(u)]
  BY <1>3 DEF RespawnAll, Fields
<1>5. Revived(v)
  <2>1. Fighters(v) = Fighters(u)
    BY <1>4, SameLists
  <2> QED BY <1>3, <1>4, <2>1 DEF Revived
<1> HIDE DEF v
<1>6. r.held = v.held /\ r.list = v.list /\ r.alive = v.alive
  BY <1>4 DEF ResetClocks, ResetTickets, Fields
<1>7. RestartRound(s, swapTeams) = r
  BY DEF RestartRound, r, v, u, reset
<1> HIDE DEF r
<1>8. Revived(r)
  BY <1>5, <1>6, SameLists DEF Revived
<1> QED BY <1>3, <1>4, <1>6, <1>7, <1>8

LEMMA NextRoundIs ==
  ASSUME respawnstyle \in Styles, NEW C, NEW s, Fit(s, C)
  PROVE  LET r == NextRound(s)
         IN  \/ UsingTickets /\ r.over
             \/ /\ Revived(r) /\ ~r.restarting /\ r.held = StartingFlags
                /\ r.over = s.over
                /\ UsingTickets => r.round = s.round + 1 /\ s.round < TicketRounds
<1>0. s \in GameRecord /\ DOMAIN s = Fields /\ s.round \in Nat /\ TicketRounds \in Nat
  BY RoundsAssumption DEF Fit, GameRecord, Fields
<1>1. CASE UsingTickets /\ s.round >= TicketRounds
  BY <1>0, <1>1 DEF NextRound, GoToIntermission, Fields
<1>2. CASE ~(UsingTickets /\ s.round >= TicketRounds)
  <2> DEFINE counted == IF UsingTickets THEN [s EXCEPT !.round = @ + 1] ELSE s
             next    == RestartRound(counted, UsingTickets)
             r       == [next EXCEPT !.restarting = FALSE, !.restartIn = 1]
  <2>1. /\ counted \in GameRecord /\ SameMen(counted, s) /\ counted.over = s.over
        /\ counted.round = (IF UsingTickets THEN s.round + 1 ELSE s.round)
    <3>1. s.round + 1 \in Nat
      BY <1>0
    <3> QED BY <1>0, <3>1 DEF GameRecord, SameMen, Fields
  <2>2. Fit(counted, C)
    BY <2>1, KeepFit
  <2>3. UsingTickets \in BOOLEAN
    BY DEF UsingTickets
  <2> HIDE DEF counted
  <2>4. /\ Revived(next) /\ next.held = StartingFlags
        /\ Changes(next, counted, Restarts \cup {"list", "score"}) /\ Fit(next, C)
    <3>1. Revived(next) /\ next.held = StartingFlags /\ Fit(next, C)
      BY <2>2, <2>3, RestartRoundIs, RestartRoundFit
    <3>2. \/ Changes(next, counted, Restarts)
          \/ Changes(next, counted, Restarts \cup {"list", "score"})
      BY <2>1, <2>3, RestartRoundChanges
    <3> HIDE DEF next
    <3>3. Changes(next, counted, Restarts \cup {"list", "score"})
      BY <3>2 DEF Changes
    <3> QED BY <3>1, <3>3
  <2>5. DOMAIN next = Fields /\ next.over = counted.over /\ next.round = counted.round
    BY <2>4 DEF Fit, GameRecord, Fields, Changes, Restarts
  <2> HIDE DEF next
  <2>6. /\ r.list = next.list /\ r.alive = next.alive /\ r.held = next.held
        /\ r.over = next.over /\ r.round = next.round /\ ~r.restarting
    BY <2>5 DEF Fields
  <2>7. NextRound(s) = r
    BY <1>2 DEF NextRound, r, next, counted
  <2> HIDE DEF r
  <2>8. Revived(r)
    BY <2>4, <2>6, SameLists DEF Revived
  <2> QED BY <1>0, <1>2, <2>1, <2>4, <2>5, <2>6, <2>7, <2>8
<1> QED BY <1>1, <1>2

\* What the restarts hang on.
Timed == {"over", "round", "restarting", "restartIn", "roundAge", "waveAge", "held",
          "flagIn"}
OnTime(r, s) == \A x \in Timed : r[x] = s[x]

LEMMA Untimed ==
  ASSUME NEW s, NEW r, NEW F, Changes(r, s, F), F \cap Timed = {}
  PROVE  OnTime(r, s)
  BY DEF Changes, OnTime, Timed, Fields

Anew(s) == Revived(s) /\ s.held = StartingFlags

LEMMA FlagUpdateRuns ==
  ASSUME respawnstyle \in Styles, NEW C, NEW s, Fit(s, C)
  PROVE  /\ FlagUpdate(s).over = s.over
         /\ \/ \A x \in Timed \ {"flagIn"} : FlagUpdate(s)[x] = s[x]
            \/ ~UsingTickets /\ Anew(FlagUpdate(s))
         /\ ~UsingTickets => \/ s.flagIn > 0 /\ FlagUpdate(s) = s
                             \/ Anew(FlagUpdate(s))
                             \/ ~(s.flagIn > 0) /\ \A t \in Playing : ~Fullcap(s, t)
<1> DEFINE f == FlagUpdate(s)
<1>1. /\ f.over = s.over
      /\ (\A x \in Timed \ {"flagIn"} : f[x] = s[x]) \/ \E t \in Playing : ~UsingTickets /\ Fullcap(s, t)
  BY FlagUpdateChanges DEF Changes, Fields, Restarts, Timed
<1>2. s.flagIn > 0 => f = s
  BY DEF FlagUpdate
<1>3. ASSUME NEW t \in Playing, ~UsingTickets, Fullcap(s, t), ~(s.flagIn > 0)
      PROVE  Anew(f)
  <2>1. f = [CheckFullcap(s) EXCEPT !.flagIn = 1]
    BY <1>3 DEF FlagUpdate
  <2>2. PICK u \in Playing : CheckFullcap(s) = HandleScores(s, u, WinBonus)
    <3>1. CASE Fullcap(s, Americans)
      BY <3>1, SidesDiffer DEF CheckFullcap
    <3>2. CASE ~Fullcap(s, Americans)
      BY <1>3, <3>2, SidesDiffer DEF CheckFullcap
    <3> QED BY <3>1, <3>2
  <2> DEFINE a == AddScore(s, u, WinBonus)
             n == NextRound(a)
  <2>3. Fit(a, C) /\ n = CheckFullcap(s)
    BY <2>2, ScoresFit, RoundsAssumption DEF HandleScores
  <2>4. Fit(n, C) /\ Anew(n)
    BY <1>3, <2>3, NextRoundFit, NextRoundIs DEF Anew
  <2> HIDE DEF a, n, f
  <2>5. f.list = n.list /\ f.alive = n.alive /\ f.held = n.held
    BY <2>1, <2>3, <2>4 DEF Fit, GameRecord
  <2> QED BY <2>4, <2>5, SameLists DEF Anew, Revived
<1> HIDE DEF f
<1> QED BY <1>1, <1>2, <1>3 DEF f

\* Nobody is to be moved where everybody lives.
LEMMA BalanceRuns ==
  ASSUME NEW C, NEW s, Fit(s, C), NEW b \in BalanceTeams(s)
  PROVE  /\ OnTime(b, s)
         /\ Revived(s) => b = s
<1>1. OnTime(b, s)
  BY BalanceChanges, Untimed DEF Fit, Timed
<1>2. ASSUME Revived(s) PROVE b = s
  <2>1. ASSUME NEW p \in Members(s, Bigger(s)), b = SwapPlayerTeam(s, p) PROVE b = s
    <3>1. Bigger(s) \in Playing
      BY SidesDiffer DEF Bigger
    <3>2. p \in Fighters(s)
      BY <3>1, SidesDiffer DEF Fighters
    <3> QED BY <1>2, <2>1, <3>2 DEF Revived, SwapPlayerTeam
  <2> QED BY <2>1 DEF BalanceTeams
<1> QED BY <1>1, <1>2

\* No restart command is under way.
Quiet(s) == ~s.askMap /\ ~s.askRound /\ s.mapReset = Off /\ s.roundReset = Off

LEMMA CommandsRun ==
  ASSUME respawnstyle \in Styles, NEW C, NEW b, Fit(b, C)
  PROVE  LET c == RestartRoundCommand(RestartMap(b))
         IN  /\ c.over = b.over
             /\ OnTime(c, b) \/ Anew(c)
             /\ Anew(b) => Anew(c)
             /\ Quiet(b) => OnTime(c, b)
             /\ c.list = b.list
<1> DEFINE m == RestartMap(b)
           c == RestartRoundCommand(m)
<1>0. Fit(m, C) /\ Fit(c, C) /\ DOMAIN b = Fields /\ DOMAIN m = Fields /\ DOMAIN c = Fields
  <2>1. Fit(m, C)
    BY CommandsFit
  <2>2. Fit(c, C)
    BY <2>1, CommandsFit
  <2> QED BY <2>1, <2>2 DEF Fit, GameRecord, Fields
<1>z. Off # 0
  BY DEF Off
<1>1. /\ m.over = b.over /\ m.list = b.list
      /\ \/ Pending(b.askMap, b.mapReset) = 0 /\ Anew(m)
         \/ /\ Changes(m, b, {"askMap", "mapReset"})
            /\ Quiet(b) => Quiet(m)
  <2>1. CASE Pending(b.askMap, b.mapReset) = 0
    <3> DEFINE new  == [b EXCEPT !.score = [t \in Playing |-> 0], !.round = 1]
               next == RestartRound(new, FALSE)
    <3>1. new \in GameRecord /\ SameMen(new, b)
      BY <1>0 DEF Fit, GameRecord, SameMen
    <3>2. Fit(new, C)
      BY <3>1, KeepFit
    <3>3. m = [next EXCEPT !.mapReset = Off, !.gameAge = 0]
      BY <2>1 DEF RestartMap
    <3> HIDE DEF new
    <3>4. Fit(next, C) /\ Anew(next)
      BY <3>2, RestartRoundFit, RestartRoundIs DEF Anew
    <3> HIDE DEF next
    <3>5. m.list = next.list /\ m.alive = next.alive /\ m.held = next.held
      BY <3>3, <3>4 DEF Fit, GameRecord
    <3>6. Anew(m)
      BY <3>4, <3>5, SameLists DEF Anew, Revived
    <3>7. m.over = b.over /\ m.list = b.list
      BY RestartMapChanges DEF Changes, Restarts, Fields
    <3> QED BY <2>1, <3>6, <3>7
  <2>2. CASE ~(Pending(b.askMap, b.mapReset) = 0)
    <3>1. m = [b EXCEPT !.askMap = FALSE, !.mapReset = Pending(b.askMap, b.mapReset)]
      BY <2>2 DEF RestartMap
    <3> QED BY <1>0, <3>1 DEF Changes, Fields, Quiet, Pending
  <2> QED BY <2>1, <2>2
<1>2. /\ c.over = m.over /\ c.list = m.list
      /\ \/ Pending(m.askRound, m.roundReset) = 0 /\ Anew(c)
         \/ /\ Changes(c, m, {"askRound", "roundReset"})
            /\ Quiet(m) => Quiet(c)
  <2>1. CASE Pending(m.askRound, m.roundReset) = 0
    <3> DEFINE next == RestartRound(m, FALSE)
    <3>3. c = [next EXCEPT !.roundReset = Off]
      BY <2>1 DEF RestartRoundCommand
    <3>4. Fit(next, C) /\ Anew(next)
      BY <1>0, RestartRoundFit, RestartRoundIs DEF Anew
    <3> HIDE DEF next
    <3>5. c.list = next.list /\ c.alive = next.alive /\ c.held = next.held
      BY <3>3, <3>4 DEF Fit, GameRecord
    <3>6. Anew(c)
      BY <3>4, <3>5, SameLists DEF Anew, Revived
    <3>7. c.over = m.over /\ c.list = m.list
      BY <1>0, RestartRoundCommandChanges DEF Changes, Restarts, Fields
    <3> QED BY <2>1, <3>6, <3>7
  <2>2. CASE ~(Pending(m.askRound, m.roundReset) = 0)
    <3>1. c = [m EXCEPT !.askRound = FALSE, !.roundReset = Pending(m.askRound, m.roundReset)]
      BY <2>2 DEF RestartRoundCommand
    <3> QED BY <1>0, <3>1 DEF Changes, Fields, Quiet, Pending
  <2> QED BY <2>1, <2>2
<1> HIDE DEF m, c
<1>3. Changes(m, b, {"askMap", "mapReset"}) =>
        OnTime(m, b) /\ m.list = b.list /\ m.alive = b.alive /\ m.held = b.held
  <2> SUFFICES ASSUME Changes(m, b, {"askMap", "mapReset"})
               PROVE  OnTime(m, b) /\ m.list = b.list /\ m.alive = b.alive /\ m.held = b.held
    OBVIOUS
  <2>1. {"askMap", "mapReset"} \cap Timed = {}
    BY DEF Timed
  <2>2. OnTime(m, b)
    BY <2>1, Untimed
  <2> QED BY <2>2 DEF Changes, Fields
<1>4. Changes(c, m, {"askRound", "roundReset"}) =>
        OnTime(c, m) /\ c.list = m.list /\ c.alive = m.alive /\ c.held = m.held
  <2> SUFFICES ASSUME Changes(c, m, {"askRound", "roundReset"})
               PROVE  OnTime(c, m) /\ c.list = m.list /\ c.alive = m.alive /\ c.held = m.held
    OBVIOUS
  <2>1. {"askRound", "roundReset"} \cap Timed = {}
    BY DEF Timed
  <2>2. OnTime(c, m)
    BY <2>1, Untimed
  <2> QED BY <2>2 DEF Changes, Fields
<1>5. Quiet(b) => OnTime(c, b)
  <2>1. ASSUME Quiet(b)
        PROVE  /\ Pending(b.askMap, b.mapReset) # 0
               /\ Quiet(m) => Pending(m.askRound, m.roundReset) # 0
    BY <1>z, <2>1 DEF Quiet, Pending
  <2> QED BY <1>1, <1>2, <1>3, <1>4, <2>1 DEF OnTime
<1>6. ASSUME NEW r, NEW s, r.list = s.list, r.alive = s.alive, r.held = s.held, Anew(s)
      PROVE  Anew(r)
  BY <1>6, SameLists DEF Anew, Revived
<1>7. Anew(b) => Anew(c)
  BY <1>1, <1>2, <1>3, <1>4, <1>6
<1>8. OnTime(c, b) \/ Anew(c)
  BY <1>1, <1>2, <1>3, <1>4, <1>6 DEF OnTime
<1> QED BY <1>1, <1>2, <1>5, <1>7, <1>8 DEF c, m

LEMMA WaveRuns ==
  ASSUME NEW C, NEW s, Fit(s, C)
  PROVE  LET w == Wave(s)
         IN  /\ \A x \in Timed \ {"waveAge"} : w[x] = s[x]
             /\ w.list = s.list
             /\ Revived(s) => Revived(w)
             /\ respawnstyle = 1 => (s.waveAge >= RespawnTime /\ Revived(w))
                                      \/ (~(s.waveAge >= RespawnTime) /\ w = s)
<1> DEFINE w == Wave(s)
<1>0. s \in GameRecord /\ DOMAIN s = Fields
  BY DEF Fit, GameRecord, Fields
<1>1. Changes(w, s, {"alive", "fresh", "tickets", "waveAge"})
  BY <1>0, WaveChanges
<1>2. \A p \in Players : s.alive[p] => w.alive[p]
  <2>1. CASE w = s
    BY <2>1
  <2>2. CASE w # s
    <3>1. w = RespawnWave(s)
      BY <2>2 DEF Wave
    <3>2. w.alive = [p \in Players |-> s.alive[p] \/ p \in Reinforced(s, Americans) \cup Reinforced(s, British)]
      BY <1>0, <3>1 DEF RespawnWave, Fields
    <3> HIDE DEF w
    <3> QED BY <3>2
  <2> QED BY <2>1, <2>2
<1>3. ASSUME respawnstyle = 1, s.waveAge >= RespawnTime PROVE Revived(w)
  <2>1. w.alive = [p \in Players |-> s.alive[p] \/ p \in Reinforced(s, Americans) \cup Reinforced(s, British)]
    <3>1. w = RespawnWave(s)
      BY <1>3 DEF Wave
    <3> QED BY <1>0, <3>1 DEF RespawnWave, Fields
  <2>2. w.list = s.list
    BY <1>1 DEF Changes, Fields
  <2> HIDE DEF w
  <2>3. ~UsingTickets
    BY <1>3 DEF UsingTickets
  <2>4. ASSUME NEW t \in Playing, NEW p \in Members(s, t), ~s.alive[p]
        PROVE  p \in Reinforced(s, t)
    BY <2>3, <2>4 DEF Members, Reinforced
  <2>5. Fighters(s) \subseteq Players /\ Fighters(w) = Fighters(s)
    BY <1>0, <2>2, FightersArePlayers, SameLists, SidesDiffer DEF Fighters
  <2>6. ASSUME NEW p \in Fighters(s) PROVE w.alive[p]
    <3>1. p \in Members(s, Americans) \/ p \in Members(s, British)
      BY DEF Fighters
    <3> QED BY <2>1, <2>4, <2>5, <3>1, SidesDiffer
  <2> QED BY <2>5, <2>6 DEF Revived
<1>4. respawnstyle = 1 /\ ~(s.waveAge >= RespawnTime) => w = s
  BY DEF Wave
<1> HIDE DEF w
<1>5. (\A x \in Timed \ {"waveAge"} : w[x] = s[x]) /\ w.list = s.list
  BY <1>1 DEF Changes, Fields, Timed
<1>6. Revived(s) => Revived(w)
  BY <1>2, <1>5, KeepRevived
<1> QED BY <1>3, <1>4, <1>5, <1>6 DEF w

\* A round of last man standing or with tickets goes on from s to r: the result
\* is still to be called, is called, or has been and waits.
GoesOn(r, s) ==
  /\ r.round = s.round
  /\ \/ s.restarting /\ ~(s.restartIn < 0) /\ r.restarting /\ r.restartIn = s.restartIn
     \/ ~s.restarting /\ r.restarting /\ r.restartIn = DecideDelay
     \/ ~s.restarting /\ ~(s.roundAge >= RoundTime) /\ ~r.restarting /\ r.roundAge = s.roundAge

\* The next round of a match with tickets.
Follows(r, s) == /\ s.restarting /\ ~r.restarting
                 /\ r.round = s.round + 1 /\ s.round < TicketRounds

LEMMA FinishRuns ==
  ASSUME respawnstyle \in Styles, NEW C, NEW s, Fit(s, C),
         ~s.over, ~FinishThink(s).over
  PROVE  LET r == FinishThink(s)
         IN  \/ r.list = s.list /\ r.alive = s.alive /\ r.held = s.held
                 /\ r.flagIn = s.flagIn
                 /\ (respawnstyle \in {2, 3, 4} => TooFewPlayers(s) \/ GoesOn(r, s))
                 /\ (respawnstyle \notin {2, 3, 4} => r = s)
             \/ /\ respawnstyle \in {2, 3, 4} /\ Anew(r)
                /\ UsingTickets => Follows(r, s)
<1> DEFINE r == FinishThink(s)
           q == RoundSystem(s)
<1>0. s \in GameRecord /\ DOMAIN s = Fields
  BY DEF Fit, GameRecord, Fields
<1>1. ASSUME NEW u, Fit(u, C), CheckFragLimit(u) = r PROVE r = u
  <2>1. r # u => r = [u EXCEPT !.over = TRUE]
    BY <1>1 DEF CheckFragLimit, GoToIntermission
  <2>2. DOMAIN u = Fields
    BY <1>1 DEF Fit, GameRecord, Fields
  <2> QED BY <2>1, <2>2 DEF Fields
<1>2. CASE respawnstyle \notin {2, 3, 4}
  <2>1. CheckFragLimit(s) = r
    BY <1>2 DEF FinishThink
  <2>2. r = s
    BY <1>1, <2>1
  <2> QED BY <1>2, <2>2
<1>3. CASE respawnstyle \in {2, 3, 4} /\ TooFewPlayers(s)
  BY <1>3 DEF FinishThink
<1>4. CASE respawnstyle \in {2, 3, 4} /\ ~TooFewPlayers(s)
  <2>1. CheckFragLimit(q) = r /\ Fit(q, C)
    BY <1>4, RoundSystemFit DEF FinishThink
  <2>2. r = q
    BY <1>1, <2>1
  <2>3. CASE ~RoundIsOver(s)
    <3>1. q = s /\ ~s.restarting /\ ~(s.roundAge >= RoundTime)
      BY <2>3 DEF RoundSystem, RoundIsOver
    <3> QED BY <1>4, <2>2, <3>1 DEF GoesOn
  <2>4. CASE RoundIsOver(s) /\ ~s.restarting
    <3>1. q = Decide(s)
      BY <2>4 DEF RoundSystem
    <3>2. /\ q.restarting /\ q.restartIn = DecideDelay /\ q.round = s.round
          /\ q.list = s.list /\ q.alive = s.alive /\ q.held = s.held
          /\ q.flagIn = s.flagIn
      BY <1>0, <3>1 DEF Decide, Fields
    <3> QED BY <1>4, <2>2, <2>4, <3>2 DEF GoesOn
  <2>5. CASE s.restarting /\ ~(s.restartIn < 0)
    <3>1. q = s
      BY <2>5 DEF RoundSystem, RoundIsOver
    <3> QED BY <1>4, <2>2, <2>5, <3>1 DEF GoesOn
  <2>6. CASE s.restarting /\ s.restartIn < 0
    <3> DEFINE a == AddScore(s, s.winner, 1)
    <3>1. q = NextRound(a)
      BY <2>6 DEF RoundSystem, RoundIsOver, HandleScores
    <3>2. Fit(a, C) /\ a.round = s.round /\ a.over = s.over
      <4>1. s.winner \in Playing \cup {None} /\ 1 \in Nat
        BY <1>0 DEF GameRecord
      <4>2. Changes(a, s, {"score"}) /\ Fit(a, C)
        BY <1>0, <4>1, AddScoreChanges, ScoresFit
      <4> HIDE DEF a
      <4> QED BY <4>2 DEF Changes, Fields
    <3> HIDE DEF a
    <3>3. /\ Revived(q) /\ ~q.restarting /\ q.held = StartingFlags
          /\ UsingTickets => q.round = s.round + 1 /\ s.round < TicketRounds
      BY <2>2, <3>1, <3>2, NextRoundIs
    <3> QED BY <1>4, <2>2, <2>6, <3>3 DEF Anew, Follows
  <2> QED BY <2>3, <2>4, <2>5, <2>6
<1> QED BY <1>2, <1>3, <1>4

LEMMA ElapseIs ==
  ASSUME NEW s \in GameRecord, NEW dt \in {0, 1}
  PROVE  LET e == Elapse(s, dt)
         IN  /\ e.over = s.over /\ e.restarting = s.restarting /\ e.round = s.round
             /\ e.held = s.held /\ e.list = s.list /\ e.alive = s.alive
             /\ e.askMap = s.askMap /\ e.askRound = s.askRound
             /\ (s.mapReset = Off => e.mapReset = Off) /\ (s.roundReset = Off => e.roundReset = Off)
             /\ IF dt = 0 THEN e = s
                ELSE /\ e.restartIn = Down(s.restartIn, -1) /\ e.flagIn = Down(s.flagIn, 0)
                     /\ e.roundAge = Up(s.roundAge, RoundTime)
                     /\ e.waveAge = Up(s.waveAge, RespawnTime)
<1>1. DOMAIN s = Fields
  BY DEF GameRecord, Fields
<1> QED BY <1>1 DEF Elapse, Fields

LEMMA FrameIs ==
  ASSUME IInv, NEW dt \in {0, 1}, Frame(dt), ~game'.over
  PROVE  /\ ~game.over
         /\ \E b \in BalanceTeams(FlagUpdate(Elapse(game, dt))) :
              game' = FinishThink(Wave(RestartRoundCommand(RestartMap(b))))
<1> DEFINE e == Elapse(game, dt)
<1>1. game' \in Think(e)
  BY DEF Frame
<1>2. e \in GameRecord /\ DOMAIN e = Fields /\ e.over = game.over
  <2>1. Fit(e, client) /\ game \in GameRecord
    BY ElapseFit DEF IInv, Fit
  <2>2. e.over = game.over
    BY <2>1, ElapseIs
  <2> HIDE DEF e
  <2> QED BY <2>1, <2>2 DEF Fit, GameRecord, Fields
<1> HIDE DEF e
<1>3. ~e.over
  <2>1. e.over => game' = e
    BY <1>1 DEF Think
  <2> QED BY <2>1
<1>4. ~TimeIsUp(e)
  <2>1. TimeIsUp(e) => game' = GoToIntermission(e)
    BY <1>1, <1>3 DEF Think
  <2>2. GoToIntermission(e).over
    BY <1>2 DEF GoToIntermission, Fields
  <2> QED BY <2>1, <2>2
<1>5. \E b \in BalanceTeams(FlagUpdate(e)) :
        game' = FinishThink(Wave(RestartRoundCommand(RestartMap(b))))
  BY <1>1, <1>3, <1>4 DEF Think
<1> QED BY <1>2, <1>3, <1>5 DEF e

\* What a frame that does not end the match makes of the time left.
LEMMA FrameRuns ==
  ASSUME IInv, NEW dt \in {0, 1}, Frame(dt), ~game'.over
  PROVE  LET e == Elapse(game, dt)
         IN  /\ ~game.over
             /\ respawnstyle \in {2, 3, 4} =>
                  Revived(game') \/ TooFewPlayers(game') \/ GoesOn(game', e)
             /\ respawnstyle \in {3, 4} /\ Quiet(game) =>
                  TooFewPlayers(game') \/ GoesOn(game', e) \/ Follows(game', e)
             /\ respawnstyle = 1 =>
                  \/ Revived(game')
                  \/ ~(e.waveAge >= RespawnTime) /\ game'.waveAge = e.waveAge
             /\ ~UsingTickets =>
                  \/ game'.held = StartingFlags
                  \/ e.flagIn > 0 /\ game'.flagIn = e.flagIn
                  \/ ~(e.flagIn > 0) /\ \A t \in Playing : ~Fullcap(e, t)
<1> DEFINE e == Elapse(game, dt)
           f == FlagUpdate(e)
<1>1. PICK b \in BalanceTeams(f) :
        game' = FinishThink(Wave(RestartRoundCommand(RestartMap(b))))
  BY FrameIs
<1> DEFINE c == RestartRoundCommand(RestartMap(b))
           w == Wave(c)
<1>2. /\ Fit(e, client) /\ Fit(f, client) /\ Fit(b, client) /\ Fit(c, client) /\ Fit(w, client)
      /\ respawnstyle \in Styles /\ ~game.over /\ game \in GameRecord
      /\ respawnstyle = 1 => ~UsingTickets
      /\ respawnstyle \in {3, 4} => UsingTickets
  BY FrameFit, FrameIs DEF IInv, Fit, UsingTickets
<1>3. game' = FinishThink(w)
  BY <1>1
<1>4. /\ f.over = e.over
      /\ \/ \A x \in Timed \ {"flagIn"} : f[x] = e[x]
         \/ ~UsingTickets /\ Anew(f)
      /\ ~UsingTickets => \/ e.flagIn > 0 /\ f = e
                          \/ Anew(f)
                          \/ ~(e.flagIn > 0) /\ \A t \in Playing : ~Fullcap(e, t)
  BY <1>2, FlagUpdateRuns
<1>5. OnTime(b, f) /\ (Revived(f) => b = f)
  BY <1>2, BalanceRuns
<1>6. /\ c.over = b.over /\ (OnTime(c, b) \/ Anew(c)) /\ (Anew(b) => Anew(c))
      /\ (Quiet(b) => OnTime(c, b)) /\ c.list = b.list
  BY <1>2, CommandsRun
<1>7. /\ \A x \in Timed \ {"waveAge"} : w[x] = c[x]
      /\ w.list = c.list
      /\ Revived(c) => Revived(w)
      /\ respawnstyle = 1 => (c.waveAge >= RespawnTime /\ Revived(w))
                               \/ (~(c.waveAge >= RespawnTime) /\ w = c)
  BY <1>2, WaveRuns
<1>8. e.over = game.over
  BY <1>2, ElapseIs
<1>9. Quiet(game) /\ UsingTickets => Quiet(b)
  <2>1. Quiet(game) => Quiet(e)
    BY <1>2, ElapseIs DEF Quiet
  <2>2. Quiet(e) /\ UsingTickets => Quiet(f)
    BY <1>2, FlagUpdateChanges DEF Quiet, Changes, Fields
  <2>3. Quiet(f) => Quiet(b)
    BY <1>2, BalanceChanges DEF Quiet, Changes, Fields, Fit
  <2> QED BY <2>1, <2>2, <2>3
<1> DEFINE r == FinishThink(w)
<1>10. ~w.over
  BY <1>2, <1>4, <1>5, <1>6, <1>7, <1>8 DEF OnTime, Timed
<1>11. \/ r.list = w.list /\ r.alive = w.alive /\ r.held = w.held /\ r.flagIn = w.flagIn
            /\ (respawnstyle \in {2, 3, 4} => TooFewPlayers(w) \/ GoesOn(r, w))
            /\ (respawnstyle \notin {2, 3, 4} => r = w)
       \/ respawnstyle \in {2, 3, 4} /\ Anew(r) /\ (UsingTickets => Follows(r, w))
  BY <1>1, <1>2, <1>10, FinishRuns
<1> HIDE DEF r, w, c, f, e
<1>12. r = game'
  BY <1>3 DEF r
<1>13. Anew(f) => Anew(b)
  BY <1>5 DEF Anew
<1>14. Anew(c) => Revived(w) /\ w.held = StartingFlags
  BY <1>7 DEF Anew, Timed
<1>15. r.list = w.list => (TooFewPlayers(w) => TooFewPlayers(r))
  BY DEF TooFewPlayers
<1>16. r.list = w.list /\ r.alive = w.alive /\ Revived(w) => Revived(r)
  BY SameLists DEF Revived
<1>17. (\A x \in Timed \ {"flagIn", "waveAge"} : w[x] = e[x]) \/ Anew(c)
  BY <1>4, <1>5, <1>6, <1>7, <1>13 DEF OnTime
<1>18. UsingTickets /\ Quiet(game) => \A x \in Timed \ {"flagIn", "waveAge"} : w[x] = e[x]
  BY <1>4, <1>5, <1>6, <1>7, <1>9 DEF OnTime
<1>19. (\A x \in Timed \ {"flagIn", "waveAge"} : w[x] = e[x]) =>
         (GoesOn(r, w) => GoesOn(r, e)) /\ (Follows(r, w) => Follows(r, e))
  BY DEF GoesOn, Follows, Timed
<1>20. ASSUME respawnstyle \in {2, 3, 4}
       PROVE  Revived(game') \/ TooFewPlayers(game') \/ GoesOn(game', e)
  BY <1>11, <1>12, <1>14, <1>15, <1>16, <1>17, <1>19, <1>20 DEF Anew
<1>21. ASSUME respawnstyle \in {3, 4}, Quiet(game)
       PROVE  TooFewPlayers(game') \/ GoesOn(game', e) \/ Follows(game', e)
  BY <1>2, <1>11, <1>12, <1>15, <1>18, <1>19, <1>21
<1>22. ASSUME respawnstyle = 1
       PROVE  \/ Revived(game')
              \/ ~(e.waveAge >= RespawnTime) /\ game'.waveAge = e.waveAge
  <2>1. r = w
    BY <1>11, <1>22
  <2>2. c.waveAge = e.waveAge \/ Anew(c)
    BY <1>4, <1>5, <1>6, <1>13 DEF OnTime, Timed
  <2>3. Revived(w) \/ (~(c.waveAge >= RespawnTime) /\ w.waveAge = c.waveAge)
    BY <1>7, <1>22
  <2> QED BY <1>12, <1>14, <2>1, <2>2, <2>3
<1>23. ASSUME ~UsingTickets
       PROVE  \/ game'.held = StartingFlags
              \/ e.flagIn > 0 /\ game'.flagIn = e.flagIn
              \/ ~(e.flagIn > 0) /\ \A t \in Playing : ~Fullcap(e, t)
  <2>1. CASE Anew(c)
    BY <1>11, <1>12, <1>14, <2>1 DEF Anew
  <2>2. CASE ~Anew(c)
    <3>1. w.flagIn = f.flagIn /\ ~Anew(f)
      BY <1>5, <1>6, <1>7, <1>13, <2>2 DEF OnTime, Timed
    <3>2. (e.flagIn > 0 /\ f = e) \/ (~(e.flagIn > 0) /\ \A t \in Playing : ~Fullcap(e, t))
      BY <1>4, <1>23, <3>1
    <3>3. r.flagIn = w.flagIn \/ r.held = StartingFlags
      BY <1>11 DEF Anew
    <3> QED BY <1>12, <3>1, <3>2, <3>3
  <2> QED BY <2>1, <2>2
<1> QED BY <1>2, <1>20, <1>21, <1>22, <1>23 DEF e

\* The other steps leave the time as it is, but for a round that is won by a map
\* input.
LEMMA OthersRun ==
  ASSUME IInv, [Next]_vars, ~AnyFrame
  PROVE  \/ \A x \in Timed \ {"held"} : game'[x] = game[x]
         \/ UsingTickets /\ game'.over
         \/ /\ Anew(game') /\ ~game'.restarting
            /\ UsingTickets => game'.round = game.round + 1 /\ game.round < TicketRounds
<1>0. /\ respawnstyle \in Styles /\ client \in SUBSET Players /\ Fit(game, client)
      /\ game \in GameRecord
  BY DEF IInv, Fit
<1>1. ASSUME NEW p \in Players, PlayerStep(p)
      PROVE  \A x \in Timed \ {"held"} : game'[x] = game[x]
  BY <1>0, <1>1, PlayersChange DEF Changes, Fields, Timed
<1>2. CASE Console \/ \E f \in Flags : FlagChange(f)
  BY <1>0, <1>2, InputsChange DEF Changes, Fields, Timed
<1>3. ASSUME NEW t \in MapInputs[respawnstyle], ForceWinRound(t)
      PROVE  \/ UsingTickets /\ game'.over
             \/ /\ Anew(game') /\ ~game'.restarting
                /\ UsingTickets => game'.round = game.round + 1 /\ game.round < TicketRounds
  <2> DEFINE a == AddScore(game, t, WinBonus)
  <2>1. t \in Playing \cup {None} /\ WinBonus \in Nat
    BY <1>0, RoundsAssumption
  <2>2. Fit(a, client) /\ Changes(a, game, {"score"})
    BY <1>0, <2>1, ScoresFit, AddScoreChanges
  <2>3. game' = NextRound(a)
    BY <1>3 DEF ForceWinRound, HandleScores
  <2> HIDE DEF a
  <2>4. a.round = game.round
    BY <2>2 DEF Changes, Fields
  <2> QED BY <1>0, <2>2, <2>3, <2>4, NextRoundIs DEF Anew
<1>4. CASE UNCHANGED vars
  BY <1>4 DEF vars
<1> QED BY <1>1, <1>2, <1>3, <1>4 DEF Next

\* The seconds until the restart that a round goes towards: its time, the wait
\* for its result, and the wait after it.
Left(s) == IF s.restarting THEN s.restartIn + 1
           ELSE (RoundTime - s.roundAge) + DecideDelay + 2

LongestRound == RoundTime + DecideDelay + 2

LEMMA LeftIs ==
  ASSUME respawnstyle \in Styles, NEW s \in GameRecord
  PROVE  /\ RoundTime \in Nat /\ Left(s) \in 0 .. LongestRound
         /\ LongestRound \in Nat /\ s.round \in Nat /\ s.flagIn \in Nat
         /\ s.waveAge \in 0 .. RespawnTime /\ RespawnTime \in Nat
         /\ s.roundAge \in 0 .. RoundTime /\ s.restartIn \in -1 .. DecideDelay
         /\ s.restarting \in BOOLEAN /\ DecideDelay \in Nat
<1>1. RoundTime \in Nat /\ DecideDelay \in Nat /\ DrainPeriod \in Nat /\ RespawnTime \in Nat
  BY RoundsAssumption DEF RoundTime
<1>2. /\ s.roundAge \in 0 .. RoundTime /\ s.restartIn \in -1 .. DecideDelay
      /\ s.restarting \in BOOLEAN /\ s.round \in Nat /\ s.flagIn \in 0 .. DrainPeriod
      /\ s.waveAge \in 0 .. RespawnTime
  BY DEF GameRecord
<1> QED BY <1>1, <1>2 DEF Left, LongestRound

LEMMA LeftFalls ==
  ASSUME respawnstyle \in Styles, NEW s \in GameRecord, NEW r \in GameRecord,
         NEW dt \in {0, 1}, GoesOn(r, Elapse(s, dt))
  PROVE  Left(r) <= Left(s) - dt
<1> DEFINE e == Elapse(s, dt)
<1>1. /\ e.restarting = s.restarting
      /\ IF dt = 0 THEN e = s
         ELSE e.restartIn = Down(s.restartIn, -1) /\ e.roundAge = Up(s.roundAge, RoundTime)
  BY ElapseIs
<1>2. GoesOn(r, e)
  OBVIOUS
<1> HIDE DEF e
<1>3. CASE s.restarting
  <2>1. r.restarting /\ r.restartIn = e.restartIn /\ ~(e.restartIn < 0)
    BY <1>1, <1>2, <1>3 DEF GoesOn
  <2> QED BY <1>1, <1>3, <2>1, LeftIs DEF Left, Down
<1>4. CASE ~s.restarting /\ r.restarting
  <2>1. r.restartIn = DecideDelay
    BY <1>1, <1>2, <1>4 DEF GoesOn
  <2> QED BY <1>4, <2>1, LeftIs DEF Left
<1>5. CASE ~s.restarting /\ ~r.restarting
  <2>1. r.roundAge = e.roundAge /\ ~(e.roundAge >= RoundTime)
    BY <1>1, <1>2, <1>5 DEF GoesOn
  <2> QED BY <1>1, <1>5, <2>1, LeftIs DEF Left, Up
<1> QED BY <1>3, <1>4, <1>5

\* The seconds that the dead wait at most: for a wave, or for the round.
Owed(s) == IF respawnstyle = 1 THEN RespawnTime - s.waveAge ELSE Left(s)

LEMMA OwedIs ==
  ASSUME IInv
  PROVE  Owed(game) \in Nat
<1>1. respawnstyle \in Styles /\ game \in GameRecord
  BY DEF IInv, Fit
<1> QED BY <1>1, LeftIs DEF Owed

LEMMA OwedFalls ==
  ASSUME IInv, IInv', [Next]_vars, ~game'.over, ~Revived(game'),
         respawnstyle \in 1 .. 4, respawnstyle # 1 => ~TooFewPlayers(game')
  PROVE  /\ Owed(game)' <= Owed(game)
         /\ Frame(1) => Owed(game)' <= Owed(game) - 1
<1>0. /\ respawnstyle \in Styles /\ game \in GameRecord /\ respawnstyle' = respawnstyle
      /\ game' \in GameRecord
  <2>1. respawnstyle' = respawnstyle
    BY StyleStays
  <2> QED BY <2>1 DEF IInv, Fit, GameRecord, Flags, RoundTime, UsingTickets
<1>1. Owed(game)' = Owed(game')
  BY <1>0 DEF Owed, Left, RoundTime, UsingTickets
<1>2. ASSUME NEW dt \in {0, 1}, Frame(dt)
      PROVE  Owed(game') <= Owed(game) - dt
  <2> DEFINE e == Elapse(game, dt)
  <2>1. CASE respawnstyle = 1
    <3>1. ~(e.waveAge >= RespawnTime) /\ game'.waveAge = e.waveAge
      BY <1>2, <2>1, FrameRuns
    <3>2. IF dt = 0 THEN e = game ELSE e.waveAge = Up(game.waveAge, RespawnTime)
      BY <1>0, ElapseIs
    <3> HIDE DEF e
    <3> QED BY <1>0, <2>1, <3>1, <3>2, LeftIs DEF Owed, Up
  <2>2. CASE respawnstyle # 1
    <3>1. GoesOn(game', e)
      BY <1>2, <2>2, FrameRuns
    <3> QED BY <1>0, <2>2, <3>1, LeftFalls DEF Owed
  <2> QED BY <2>1, <2>2
<1>3. ASSUME ~AnyFrame PROVE Owed(game') <= Owed(game)
  <2>1. \A x \in Timed \ {"held"} : game'[x] = game[x]
    BY <1>3, OthersRun DEF Anew
  <2>2. Owed(game') = Owed(game)
    BY <2>1 DEF Owed, Left, Timed
  <2> QED BY <2>2, OwedIs
<1>4. AnyFrame => Owed(game') <= Owed(game)
  BY <1>0, <1>2, OwedIs, LeftIs DEF AnyFrame, Owed
<1> QED BY <1>1, <1>2, <1>3, <1>4

-----------------------------------------------------------------------------
(* Nobody waits for ever.                                                  *)
(*                                                                         *)
(* A clock counts the seconds that the frames take.  What a wait owes and  *)
(* the clock together never grow, so that there is a time d by which the   *)
(* wait is over.                                                           *)

\* A clock, which moves with the frames of a second and at no other steps.
VARIABLE now

Clock == now = 0 /\ [][Frame(1) /\ now' = now + 1]_now

\* Whatever the time, more of it will pass: the server always runs another frame.
TimePasses == [](\A d \in Nat : <>(now > d))

LEMMA ClockTyped == Clock => [](now \in Nat)
<1>1. now = 0 => now \in Nat
  OBVIOUS
<1>2. now \in Nat /\ [Frame(1) /\ now' = now + 1]_now => (now \in Nat)'
  OBVIOUS
<1> QED BY <1>1, <1>2, PTL DEF Clock

\* What is so all the time.
Going == [](IInv /\ now \in Nat) /\ [][Next]_vars /\ [][Frame(1) /\ now' = now + 1]_now

\* Somebody waits: the match goes on with a death that no restart has undone.
Dying ==
  /\ ~game.over /\ ~Revived(game)
  /\ respawnstyle \in 1 .. 4 /\ (respawnstyle # 1 => ~TooFewPlayers(game))

OverBy(d) == Owed(game) + now <= d

LEMMA StillOverBy ==
  ASSUME NEW d \in Nat, IInv, IInv', now \in Nat, [Next]_vars, [Frame(1) /\ now' = now + 1]_now,
         Dying, Dying', OverBy(d)
  PROVE  OverBy(d)'
<1>1. Owed(game) \in Nat /\ Owed(game)' \in Nat
  <2>1. IInv' => Owed(game)' \in Nat
    <3>1. respawnstyle' = respawnstyle /\ Owed(game)' = Owed(game')
      BY StyleStays DEF Owed, Left, RoundTime, UsingTickets
    <3>2. IInv' => respawnstyle \in Styles /\ game' \in GameRecord
      BY <3>1 DEF IInv, Fit, GameRecord, Flags, RoundTime, UsingTickets
    <3> QED BY <3>1, <3>2, LeftIs DEF Owed
  <2> QED BY <2>1, OwedIs
<1>2. ~game'.over /\ ~Revived(game') /\ (respawnstyle # 1 => ~TooFewPlayers(game'))
  BY StyleStays DEF Dying, Revived, Fighters, Members, TooFewPlayers, UsingTickets
<1>3. /\ Owed(game)' <= Owed(game)
      /\ Frame(1) => Owed(game)' <= Owed(game) - 1
  BY <1>2, OwedFalls DEF Dying
<1>4. now' = now \/ (Frame(1) /\ now' = now + 1)
  OBVIOUS
<1>5. Owed(game) + now <= d
  BY DEF OverBy
<1>6. Owed(game)' + now' <= d
  BY <1>1, <1>3, <1>4, <1>5
<1> QED BY <1>6 DEF OverBy

LEMMA SomeTime ==
  ASSUME IInv, now \in Nat
  PROVE  /\ \E d \in Nat : OverBy(d)
         /\ \A d \in Nat : OverBy(d) => ~(now > d)
<1>1. Owed(game) \in Nat /\ Owed(game) + now \in Nat
  BY OwedIs
<1>2. OverBy(Owed(game) + now)
  BY <1>1 DEF OverBy
<1>3. ASSUME NEW d \in Nat, OverBy(d) PROVE ~(now > d)
  BY <1>1, <1>3 DEF OverBy
<1> QED BY <1>1, <1>2, <1>3

LEMMA OverInTime ==
  ASSUME NEW d \in Nat
  PROVE  Going /\ <>(now > d) /\ OverBy(d) => <>(~Dying)
<1>1. /\ IInv /\ IInv' /\ now \in Nat /\ [Next]_vars /\ [Frame(1) /\ now' = now + 1]_now
      /\ Dying /\ Dying' /\ OverBy(d)
      => OverBy(d)'
  BY StillOverBy
<1>2. IInv /\ now \in Nat /\ OverBy(d) => ~(now > d)
  BY SomeTime
<1> QED BY <1>1, <1>2, PTL DEF Going

LEMMA DyingEnds == Going /\ TimePasses => []<>(~Dying)
<1>1. Going /\ (\A d \in Nat : <>(now > d)) /\ (\E d \in Nat : OverBy(d)) => <>(~Dying)
  BY OverInTime
<1>2. IInv /\ now \in Nat => \E d \in Nat : OverBy(d)
  BY SomeTime
<1> QED BY <1>1, <1>2, PTL DEF Going, TimePasses

LEMMA WaitingDies ==
  ASSUME IInv, NEW p \in Players, Waiting(p)
  PROVE  Dying
<1>1. ~Revived(game)
  BY DEF Waiting, Revived
<1>2. ~TooFewPlayers(game)
  <2>1. PICK t \in Playing : p \in Members(game, t)
    BY SidesDiffer DEF Waiting, Fighters
  <2>2. game.list[t] # <<>>
    BY <2>1 DEF Members
  <2> QED BY <2>2 DEF TooFewPlayers, Waiting
<1>3. respawnstyle \in 1 .. 4
  BY DEF Waiting, UsingTickets
<1> QED BY <1>1, <1>2, <1>3 DEF Waiting, Dying

\* With tickets whoever dies is in the fight again after a wave or a round at the
\* latest, if he stays, however long both take and whatever the others do.
THEOREM NobodyWaitsLong == Spec /\ Clock /\ TimePasses => NobodyWaitsForever
<1>1. ASSUME NEW p \in Players
      PROVE  Spec /\ Clock /\ TimePasses => (Waiting(p) ~> ~Waiting(p))
  <2>1. IInv /\ Waiting(p) => Dying
    BY WaitingDies
  <2> QED BY <2>1, AlwaysFit, ClockTyped, DyingEnds, PTL DEF Spec, Clock, Going, TimePasses
<1> QED BY <1>1 DEF NobodyWaitsForever

LEMMA WipedOutDies ==
  ASSUME IInv, 0 \notin Styles, NEW t \in Playing, WipedOut(t)
  PROVE  Dying
<1>1. respawnstyle \in 1 .. 4
  BY RoundsAssumption DEF IInv
<1>2. ~TooFewPlayers(game)
  BY SidesDiffer DEF WipedOut, TooFewPlayers
<1>3. ~Revived(game)
  <2>1. game.list[t] # <<>> /\ game.list[t] \in Seq(Players)
    BY DEF WipedOut, IInv, Fit, GameRecord
  <2>2. 1 \in DOMAIN game.list[t]
    BY <2>1
  <2>3. game.list[t][1] \in Members(game, t)
    BY <2>2 DEF Members
  <2>4. ~game.alive[game.list[t][1]]
    BY <2>3 DEF WipedOut, Living
  <2> QED BY <2>3, <2>4, SidesDiffer DEF Revived, Fighters
<1> QED BY <1>1, <1>2, <1>3 DEF WipedOut, Dying

\* In the styles that have waves or rounds, a side that has been wiped out is
\* back, or the match is over, or one of the sides has left.
THEOREM WipeoutsRestart ==
  ASSUME 0 \notin Styles
  PROVE  Spec /\ Clock /\ TimePasses => WipeoutRestarts
<1>1. ASSUME NEW t \in Playing
      PROVE  Spec /\ Clock /\ TimePasses => (WipedOut(t) ~> ~WipedOut(t))
  <2>1. IInv /\ WipedOut(t) => Dying
    BY WipedOutDies
  <2> QED BY <2>1, AlwaysFit, ClockTyped, DyingEnds, PTL DEF Spec, Clock, Going, TimePasses
<1> QED BY <1>1 DEF WipeoutRestarts

-----------------------------------------------------------------------------
(* A match that is fought ends.                                            *)

\* A round of a match with tickets is fought, and nobody asks for a restart.
Fought == UsingTickets /\ ~game.over /\ Fighters(game) # {} /\ Quiet(game)

\* The seconds until the end of the match: this round, and the rounds to come.
ToCome(n) == IF n < TicketRounds THEN (TicketRounds - n) * (LongestRound + 1) ELSE 0
Rest(s) == Left(s) + ToCome(s.round)

LEMMA ToComeIs ==
  ASSUME respawnstyle \in Styles, NEW n \in Nat
  PROVE  /\ ToCome(n) \in Nat
         /\ n < TicketRounds => ToCome(n + 1) = ToCome(n) - (LongestRound + 1)
<1>1. TicketRounds \in Nat /\ LongestRound + 1 \in Nat
  BY RoundsAssumption DEF LongestRound, RoundTime
<1> DEFINE k == LongestRound + 1
<1>2. k \in Nat
  BY <1>1
<1> HIDE DEF k
<1>3. \A a, b \in Nat : a * b \in Nat
  OBVIOUS
<1>4. ToCome(n) \in Nat
  BY <1>1, <1>2, <1>3 DEF ToCome, k
<1>5. ASSUME n < TicketRounds PROVE ToCome(n + 1) = ToCome(n) - k
  <2> DEFINE j == TicketRounds - n
  <2>1. j \in Nat \ {0} /\ (j - 1) * k = j * k - k
    BY <1>1, <1>2, <1>5
  <2>2. TicketRounds - (n + 1) = j - 1
    BY <1>1
  <2>3. ToCome(n) = j * k
    BY <1>5 DEF ToCome, k
  <2>4. ToCome(n + 1) = (j - 1) * k
    <3>1. CASE n + 1 < TicketRounds
      BY <2>2, <3>1 DEF ToCome, k
    <3>2. CASE ~(n + 1 < TicketRounds)
      <4>1. j - 1 = 0
        BY <1>1, <1>5, <3>2
      <4>2. ToCome(n + 1) = 0
        BY <3>2 DEF ToCome
      <4> QED BY <1>2, <4>1, <4>2
    <3> QED BY <3>1, <3>2
  <2> QED BY <2>1, <2>3, <2>4
<1> QED BY <1>4, <1>5 DEF k

LEMMA RestIs ==
  ASSUME respawnstyle \in Styles, NEW s \in GameRecord
  PROVE  Rest(s) \in Nat
<1>1. Left(s) \in Nat /\ ToCome(s.round) \in Nat
  BY LeftIs, ToComeIs
<1> QED BY <1>1 DEF Rest

\* A new round takes longer than what was left of the old one, and is one fewer.
LEMMA FollowsRest ==
  ASSUME respawnstyle \in Styles, NEW s \in GameRecord, NEW r \in GameRecord,
         s.round < TicketRounds, r.round = s.round + 1
  PROVE  Rest(r) < Rest(s)
<1>1. /\ Left(s) \in 0 .. LongestRound /\ Left(r) \in 0 .. LongestRound /\ LongestRound \in Nat
      /\ ToCome(s.round) \in Nat /\ ToCome(r.round) \in Nat
      /\ ToCome(r.round) = ToCome(s.round) - (LongestRound + 1)
  BY LeftIs, ToComeIs
<1> QED BY <1>1 DEF Rest

LEMMA GoesOnRest ==
  ASSUME respawnstyle \in Styles, NEW s \in GameRecord, NEW r \in GameRecord,
         NEW dt \in {0, 1}, GoesOn(r, Elapse(s, dt))
  PROVE  Rest(r) <= Rest(s) - dt
<1>1. r.round = s.round
  BY ElapseIs DEF GoesOn
<1>2. Left(r) <= Left(s) - dt
  BY LeftFalls
<1>3. Left(s) \in Nat /\ Left(r) \in Nat /\ ToCome(s.round) \in Nat
  BY LeftIs, ToComeIs
<1> QED BY <1>1, <1>2, <1>3 DEF Rest

LEMMA RestFalls ==
  ASSUME IInv, IInv', [Next]_vars, Fought, Fought'
  PROVE  /\ Rest(game)' \in Nat
         /\ Rest(game)' <= Rest(game)
         /\ Frame(1) => Rest(game)' <= Rest(game) - 1
<1>0. /\ respawnstyle \in Styles /\ game \in GameRecord /\ respawnstyle' = respawnstyle
      /\ game' \in GameRecord
  <2>1. respawnstyle' = respawnstyle
    BY StyleStays
  <2> QED BY <2>1 DEF IInv, Fit, GameRecord, Flags, RoundTime, UsingTickets
<1>1. Rest(game)' = Rest(game') /\ Rest(game') \in Nat /\ Rest(game) \in Nat
  BY <1>0, RestIs DEF Rest, Left, ToCome, LongestRound, RoundTime, UsingTickets
<1>2. /\ ~game'.over /\ UsingTickets /\ Quiet(game) /\ respawnstyle \in {3, 4}
      /\ ~TooFewPlayers(game')
  <2>1. Fighters(game') # {}
    BY DEF Fought, Fighters, Members
  <2>2. \E t \in Playing : game'.list[t] # <<>>
    BY <2>1, SidesDiffer DEF Fighters, Members
  <2> QED BY <2>2 DEF Fought, UsingTickets, TooFewPlayers
<1>3. ASSUME NEW dt \in {0, 1}, Frame(dt)
      PROVE  Rest(game') <= Rest(game) - dt
  <2> DEFINE e == Elapse(game, dt)
  <2>1. GoesOn(game', e) \/ Follows(game', e)
    BY <1>2, <1>3, FrameRuns
  <2>2. CASE GoesOn(game', e)
    BY <1>0, <2>2, GoesOnRest
  <2>3. CASE Follows(game', e)
    <3>1. game'.round = game.round + 1 /\ game.round < TicketRounds
      BY <1>0, <2>3, ElapseIs DEF Follows
    <3>2. Rest(game') < Rest(game)
      BY <1>0, <3>1, FollowsRest
    <3> QED BY <1>1, <3>2
  <2> QED BY <2>1, <2>2, <2>3
<1>4. ASSUME ~AnyFrame PROVE Rest(game') <= Rest(game)
  <2>1. CASE \A x \in Timed \ {"held"} : game'[x] = game[x]
    <3>1. Rest(game') = Rest(game)
      BY <2>1 DEF Rest, Left, Timed
    <3> QED BY <1>1, <3>1
  <2>2. CASE game'.round = game.round + 1 /\ game.round < TicketRounds
    BY <1>0, <1>1, <2>2, FollowsRest
  <2> QED BY <1>2, <1>4, <2>1, <2>2, OthersRun
<1>5. AnyFrame => Rest(game') <= Rest(game)
  BY <1>1, <1>3 DEF AnyFrame
<1> QED BY <1>1, <1>3, <1>4, <1>5

EndsBy(d) == Rest(game) + now <= d

LEMMA StillEndsBy ==
  ASSUME NEW d \in Nat, IInv, IInv', now \in Nat, [Next]_vars, [Frame(1) /\ now' = now + 1]_now,
         Fought, Fought', EndsBy(d)
  PROVE  EndsBy(d)'
<1>1. Rest(game) \in Nat
  BY RestIs DEF IInv, Fit
<1>2. /\ Rest(game)' \in Nat
      /\ Rest(game)' <= Rest(game)
      /\ Frame(1) => Rest(game)' <= Rest(game) - 1
  BY RestFalls
<1>3. now' = now \/ (Frame(1) /\ now' = now + 1)
  OBVIOUS
<1>4. Rest(game) + now <= d
  BY DEF EndsBy
<1>5. Rest(game)' + now' <= d
  BY <1>1, <1>2, <1>3, <1>4
<1> QED BY <1>5 DEF EndsBy

LEMMA SomeEnd ==
  ASSUME IInv, now \in Nat
  PROVE  /\ \E d \in Nat : EndsBy(d)
         /\ \A d \in Nat : EndsBy(d) => ~(now > d)
<1>1. Rest(game) \in Nat /\ Rest(game) + now \in Nat
  BY RestIs DEF IInv, Fit
<1>2. EndsBy(Rest(game) + now)
  BY <1>1 DEF EndsBy
<1>3. ASSUME NEW d \in Nat, EndsBy(d) PROVE ~(now > d)
  BY <1>1, <1>3 DEF EndsBy
<1> QED BY <1>1, <1>2, <1>3

LEMMA EndsInTime ==
  ASSUME NEW d \in Nat
  PROVE  Going /\ <>(now > d) /\ EndsBy(d) => <>(~Fought)
<1>1. /\ IInv /\ IInv' /\ now \in Nat /\ [Next]_vars /\ [Frame(1) /\ now' = now + 1]_now
      /\ Fought /\ Fought' /\ EndsBy(d)
      => EndsBy(d)'
  BY StillEndsBy
<1>2. IInv /\ now \in Nat /\ EndsBy(d) => ~(now > d)
  BY SomeEnd
<1> QED BY <1>1, <1>2, PTL DEF Going

LEMMA FightsEnd == Going /\ TimePasses => []<>(~Fought)
<1>1. Going /\ (\A d \in Nat : <>(now > d)) /\ (\E d \in Nat : EndsBy(d)) => <>(~Fought)
  BY EndsInTime
<1>2. IInv /\ now \in Nat => \E d \in Nat : EndsBy(d)
  BY SomeEnd
<1> QED BY <1>1, <1>2, PTL DEF Going, TimePasses

\* A match with tickets that somebody plays ends, if nobody goes on restarting
\* it: however many rounds it has and however they are won, swapped or scored.
THEOREM MatchesEnd ==
  Spec /\ Clock /\ TimePasses /\ <>[]Quiet(game) => MatchEnds
<1>1. UsingTickets /\ [Next]_vars => UsingTickets'
  BY StyleStays DEF UsingTickets
<1>2. UsingTickets /\ Fighters(game) # {} /\ Quiet(game) => Fought \/ game.over
  BY DEF Fought
<1> QED BY <1>1, <1>2, AlwaysFit, ClockTyped, FightsEnd, PTL
        DEF Spec, Clock, Going, TimePasses, MatchEnds

-----------------------------------------------------------------------------
(* A full cap is found.                                                    *)

\* A map whose full caps can be won, and are undone by the restart: each flag
\* counts for both sides or for none, some flag counts, and no side starts with
\* all of them.  There are none with tickets.
FullCapsWork ==
  /\ IsFiniteSet(AllFlags)
  /\ \A f \in AllFlags : ForTeam[f] = 0 /\ FullCap[f] \in {0, 3}
  /\ \A r \in Styles : MapFlags[r] # {} =>
       /\ r \notin {3, 4}
       /\ \E f \in MapFlags[r] : FullCap[f] = 0
       /\ \A t \in Playing : \E f \in MapFlags[r] : Starting[f] # t

Capped(t) == ~game.over /\ Flags # {} /\ \A f \in Flags : game.held[f] = t

LEMMA CappedIsFull ==
  ASSUME respawnstyle \in Styles, FullCapsWork, Flags # {}, NEW t \in Playing, NEW s,
         \A f \in Flags : s.held[f] = t
  PROVE  Fullcap(s, t) /\ ~UsingTickets
<1>1. ~UsingTickets /\ Flags \subseteq AllFlags
  BY DEF FullCapsWork, UsingTickets, Flags, AllFlags
<1>2. t \notin {Inactive, Unassigned, Opponent(t)}
  BY DEF Playing, Americans, British, Inactive, Unassigned, Opponent
<1>3. Counted(s) = {f \in Flags : FullCap[f] = 0} /\ Counted(s) # {}
  <2>1. \A f \in Flags : FullCap[f] \in {0, 3} /\ s.held[f] # Inactive
    BY <1>1, <1>2 DEF FullCapsWork
  <2>2. Counted(s) = {f \in Flags : FullCap[f] = 0}
    BY <1>1, <2>1 DEF Counted
  <2> QED BY <2>2 DEF FullCapsWork, Flags
<1>4. \A f \in Counted(s) : s.held[f] = t /\ ForTeam[f] = 0 /\ FullCap[f] = 0
  BY <1>1, <1>3 DEF FullCapsWork
<1>5. HeldBy(s, t) = Counted(s) /\ Cappable(s, t) = Counted(s)
  BY <1>4 DEF HeldBy, Cappable
<1>6. HeldBy(s, Opponent(t)) = {} /\ Neutral(s) = {}
  BY <1>2, <1>4 DEF HeldBy, Neutral
<1> QED BY <1>1, <1>3, <1>5, <1>6 DEF Fullcap, HoldsAll

LEMMA CheckNears ==
  ASSUME FullCapsWork, IInv, IInv', [Next]_vars, NEW t \in Playing, Capped(t), Capped(t)'
  PROVE  /\ game.flagIn \in Nat /\ game'.flagIn \in Nat
         /\ game'.flagIn <= game.flagIn
         /\ Frame(1) => game'.flagIn <= game.flagIn - 1
<1>0. /\ respawnstyle \in Styles /\ game \in GameRecord /\ respawnstyle' = respawnstyle
      /\ game' \in GameRecord
  <2>1. respawnstyle' = respawnstyle
    BY StyleStays
  <2> QED BY <2>1 DEF IInv, Fit, GameRecord, Flags, RoundTime, UsingTickets
<1>1. game.flagIn \in Nat /\ game'.flagIn \in Nat
  BY <1>0, LeftIs
<1>2. ~game'.over /\ Flags # {} /\ \A f \in Flags : game.held[f] = t /\ game'.held[f] = t
  BY <1>0 DEF Capped, Flags
<1>3. game'.held # StartingFlags
  <2>1. PICK f \in Flags : Starting[f] # t
    BY <1>0, <1>2 DEF FullCapsWork, Flags
  <2> QED BY <1>2, <2>1 DEF StartingFlags
<1>4. ASSUME NEW dt \in {0, 1}, Frame(dt)
      PROVE  game'.flagIn <= game.flagIn - dt
  <2> DEFINE e == Elapse(game, dt)
  <2>1. /\ e.held = game.held
        /\ IF dt = 0 THEN e = game ELSE e.flagIn = Down(game.flagIn, 0)
    BY <1>0, ElapseIs
  <2>2. Fullcap(e, t) /\ ~UsingTickets
    BY <1>0, <1>2, <2>1, CappedIsFull
  <2>3. e.flagIn > 0 /\ game'.flagIn = e.flagIn
    BY <1>2, <1>3, <1>4, <2>2, FrameRuns
  <2> HIDE DEF e
  <2> QED BY <1>1, <2>1, <2>3 DEF Down
<1>5. ~AnyFrame => game'.flagIn <= game.flagIn
  <2>1. ~UsingTickets
    BY <1>0, <1>2, CappedIsFull
  <2> QED BY <1>1, <1>3, <2>1, OthersRun DEF Anew, Timed
<1>6. AnyFrame => game'.flagIn <= game.flagIn
  BY <1>1, <1>4 DEF AnyFrame
<1> QED BY <1>1, <1>4, <1>5, <1>6

CheckBy(d) == game.flagIn + now <= d

LEMMA CheckInTime ==
  ASSUME FullCapsWork, NEW t \in Playing, NEW d \in Nat
  PROVE  Going /\ <>(now > d) /\ CheckBy(d) => <>(~Capped(t))
<1>1. ASSUME IInv, IInv', now \in Nat, [Next]_vars, [Frame(1) /\ now' = now + 1]_now,
             Capped(t), Capped(t)', CheckBy(d)
      PROVE  CheckBy(d)'
  <2>1. /\ game.flagIn \in Nat /\ game'.flagIn \in Nat
        /\ game'.flagIn <= game.flagIn
        /\ Frame(1) => game'.flagIn <= game.flagIn - 1
    BY <1>1, CheckNears
  <2>2. now' = now \/ (Frame(1) /\ now' = now + 1)
    BY <1>1
  <2>3. game'.flagIn + now' <= d
    BY <1>1, <2>1, <2>2 DEF CheckBy
  <2> QED BY <2>3 DEF CheckBy
<1>2. ASSUME IInv, now \in Nat, CheckBy(d) PROVE ~(now > d)
  <2>1. game.flagIn \in Nat
    BY <1>2, LeftIs DEF IInv, Fit
  <2> QED BY <1>2, <2>1 DEF CheckBy
<1> QED BY <1>1, <1>2, PTL DEF Going

\* A side that keeps all the flags is found by the check, or the match ends: the
\* check comes round again whatever the players and the map do.
THEOREM FullcapsAreFound ==
  ASSUME FullCapsWork
  PROVE  Spec /\ Clock /\ TimePasses => FullcapIsFound
<1>1. ASSUME NEW t \in Playing
      PROVE  Spec /\ Clock /\ TimePasses =>
               (Flags # {} /\ (\A f \in Flags : game.held[f] = t) ~>
                  \/ game.over \/ \E f \in Flags : game.held[f] # t)
  <2>1. Going /\ (\A d \in Nat : <>(now > d)) /\ (\E d \in Nat : CheckBy(d)) => <>(~Capped(t))
    BY CheckInTime
  <2>2. ASSUME IInv, now \in Nat PROVE \E d \in Nat : CheckBy(d)
    <3>1. game.flagIn \in Nat /\ game.flagIn + now \in Nat
      BY <2>2, LeftIs DEF IInv, Fit
    <3> QED BY <3>1 DEF CheckBy
  <2>3. ASSUME Flags # {}, ~Capped(t)
        PROVE  game.over \/ \E f \in Flags : game.held[f] # t
    BY <2>3 DEF Capped
  <2>4. Flags # {} /\ [Next]_vars => (Flags # {})'
    BY StyleStays DEF Flags
  <2> QED BY <2>1, <2>2, <2>3, <2>4, AlwaysFit, ClockTyped, PTL
          DEF Spec, Clock, Going, TimePasses
<1> QED BY <1>1 DEF FullcapIsFound

-----------------------------------------------------------------------------
(* The autobalance comes to rest.                                          *)

Uneasy(s) == Gap(Strength(s, Americans), Strength(s, British))

LEMMA StrengthIs ==
  ASSUME NEW C, NEW s, Fit(s, C)
  PROVE  /\ \A t \in Playing : /\ IsFiniteSet(Members(s, t)) /\ Strength(s, t) \in Nat
                               /\ Strength(s, t) = Cardinality(Members(s, t))
         /\ Uneasy(s) \in Nat
<1>1. ASSUME NEW t \in Playing
      PROVE  /\ IsFiniteSet(Members(s, t)) /\ Strength(s, t) \in Nat
             /\ Strength(s, t) = Cardinality(Members(s, t))
  <2>1. s.list[t] \in Seq(Players) /\ Distinct(s.list[t])
    BY DEF Fit, Listed, GameRecord
  <2>2. Len(s.list[t]) \in Nat
    BY <2>1
  <2> QED BY <2>1, <2>2, DistinctLength, MembersAre DEF Strength
<1>2. Uneasy(s) \in Nat
  BY <1>1, SidesDiffer DEF Uneasy, Gap
<1> QED BY <1>1, <1>2

LEMMA OneLess ==
  ASSUME NEW S, NEW x \in S, IsFiniteSet(S)
  PROVE  Cardinality(S \ {x}) = Cardinality(S) - 1
  BY FS_RemoveElement

LEMMA OneMore ==
  ASSUME NEW S, NEW x, x \notin S, IsFiniteSet(S)
  PROVE  Cardinality(S \cup {x}) = Cardinality(S) + 1
  BY FS_AddElement

\* Whoever is moved leaves the side that has two more.
LEMMA MoveEvens ==
  ASSUME Tolerance >= 2, NEW C \in SUBSET Players, NEW s, Fit(s, C), NEW b \in BalanceTeams(s)
  PROVE  b.list = s.list \/ Uneasy(b) < Uneasy(s)
<1>1. CASE b = s
  BY <1>1
<1>2. ASSUME Uneven(s), NEW p \in Members(s, Bigger(s)), b = SwapPlayerTeam(s, p), b # s
      PROVE  Uneasy(b) < Uneasy(s)
  <2> DEFINE g == Bigger(s)
             o == Opponent(g)
  <2>1. /\ g \in Playing /\ o \in Playing /\ o # g
        /\ (g = Americans /\ o = British) \/ (g = British /\ o = Americans)
    <3>1. g = Americans \/ g = British
      BY DEF Bigger
    <3>2. Opponent(Americans) = British /\ Opponent(British) = Americans
      BY OpponentIs, SidesDiffer DEF Opponent
    <3> HIDE DEF g
    <3> QED BY <3>1, <3>2, SidesDiffer
  <2>2. ~s.alive[p] /\ b = ChangeTeam(s, p, o)
    BY <1>2 DEF SwapPlayerTeam
  <2>3. p \in C \cap Players
    BY <1>2, <2>1, FightersArePlayers DEF Fit, Listed
  <2>4. /\ Fit(b, C) /\ Members(b, o) = Members(s, o) \cup {p}
        /\ Members(b, g) = Members(s, g) \ {p}
    BY <2>1, <2>2, <2>3, ChangeTeamFit
  <2>5. p \in Members(s, g) /\ p \notin Members(s, o)
    BY <1>2, <2>1 DEF Fit, Listed
  <2> DEFINE n == Strength(s, g)
             m == Strength(s, o)
  <2>6. Strength(b, g) = n - 1 /\ Strength(b, o) = m + 1 /\ n \in Nat /\ m \in Nat
    <3>1. /\ IsFiniteSet(Members(s, g)) /\ n = Cardinality(Members(s, g))
          /\ IsFiniteSet(Members(s, o)) /\ m = Cardinality(Members(s, o))
          /\ n \in Nat /\ m \in Nat
          /\ Strength(b, g) = Cardinality(Members(b, g))
          /\ Strength(b, o) = Cardinality(Members(b, o))
      BY <2>1, <2>4, StrengthIs
    <3>2. Cardinality(Members(s, g) \ {p}) = Cardinality(Members(s, g)) - 1
      BY <2>5, <3>1, OneLess, Zenon
    <3>3. Cardinality(Members(s, o) \cup {p}) = Cardinality(Members(s, o)) + 1
      BY <2>5, <3>1, OneMore, Zenon
    <3> QED BY <2>4, <3>1, <3>2, <3>3
  <2>7. Uneasy(s) = Gap(n, m) /\ Uneasy(b) = Gap(n - 1, m + 1)
    <3>1. \A i, j \in Int : Gap(i, j) = Gap(j, i)
      BY DEF Gap
    <3>2. Uneasy(s) = Gap(n, m)
      BY <2>1, <2>6, <3>1 DEF Uneasy
    <3>3. Uneasy(b) = Gap(Strength(b, g), Strength(b, o))
      BY <2>1, <2>6, <3>1 DEF Uneasy
    <3> QED BY <2>6, <3>2, <3>3
  <2>8. n >= m /\ Gap(n, m) >= 2
    <3>1. n >= m
      <4> HIDE DEF n, m
      <4>1. Strength(s, Americans) \in Nat /\ Strength(s, British) \in Nat
        BY SidesDiffer, StrengthIs
      <4> QED BY <2>1, <4>1 DEF Bigger, n, m
    <3>2. Gap(n, m) >= Tolerance /\ Tolerance \in Nat
      BY <1>2, <2>7, RoundsAssumption DEF Uneven, Uneasy
    <3>3. Gap(n, m) \in Nat
      BY <2>7, StrengthIs
    <3> HIDE DEF n, m
    <3> QED BY <3>1, <3>2, <3>3
  <2> HIDE DEF n, m
  <2> QED BY <2>6, <2>7, <2>8 DEF Gap
<1>3. \/ b = s
      \/ Uneven(s) /\ \E p \in Members(s, Bigger(s)) : b = SwapPlayerTeam(s, p)
  BY DEF BalanceTeams
<1> QED BY <1>1, <1>2, <1>3

\* The lists are swapped with a round that is counted, or stay.
Swaps(r, s) ==
  \/ r.list = s.list /\ (UsingTickets => r.round = s.round)
  \/ /\ UsingTickets /\ s.round < TicketRounds /\ r.round = s.round + 1
     /\ r.list = [t \in Playing |-> s.list[Opponent(t)]]

LEMMA NextRoundSwaps ==
  ASSUME respawnstyle \in Styles, NEW C, NEW s, Fit(s, C)
  PROVE  Swaps(NextRound(s), s)
<1>0. s \in GameRecord /\ DOMAIN s = Fields /\ s.round \in Nat /\ TicketRounds \in Nat
  BY RoundsAssumption DEF Fit, GameRecord, Fields
<1>1. CASE UsingTickets /\ s.round >= TicketRounds
  <2>1. NextRound(s).list = s.list /\ NextRound(s).round = s.round
    BY <1>0, <1>1 DEF NextRound, GoToIntermission, Fields
  <2> QED BY <2>1 DEF Swaps
<1>2. CASE UsingTickets /\ ~(s.round >= TicketRounds)
  <2>1. NextRound(s).list = [t \in Playing |-> s.list[Opponent(t)]] /\ NextRound(s).round = s.round + 1
    <3> DEFINE counted == [s EXCEPT !.round = @ + 1]
               next    == RestartRound(counted, TRUE)
               r       == [next EXCEPT !.restarting = FALSE, !.restartIn = 1]
    <3>1. counted \in GameRecord /\ counted.list = s.list /\ counted.round = s.round + 1
      <4>1. s.round + 1 \in Nat
        BY <1>0
      <4> QED BY <1>0, <4>1 DEF GameRecord, Fields
    <3>2. SameMen(counted, s)
      BY <1>0 DEF SameMen, Fields
    <3>3. NextRound(s) = r
      BY <1>2 DEF NextRound, UsingTickets
    <3> HIDE DEF counted
    <3>4. /\ next.list = [t \in Playing |-> s.list[Opponent(t)]] /\ next.round = s.round + 1
          /\ DOMAIN next = Fields
      <4>1. Fit(next, C)
        BY <3>1, <3>2, KeepFit, RestartRoundFit
      <4>2. /\ Changes(next, counted, Restarts \cup {"list", "score"})
            /\ next.list = [t \in Playing |-> counted.list[Opponent(t)]]
        BY <3>1, RestartRoundChanges
      <4> QED BY <3>1, <4>1, <4>2 DEF Changes, Restarts, Fields, Fit, GameRecord
    <3> HIDE DEF next
    <3> QED BY <3>3, <3>4 DEF Fields
  <2>2. s.round < TicketRounds
    BY <1>0, <1>2
  <2> QED BY <1>2, <2>1, <2>2 DEF Swaps
<1>3. CASE ~UsingTickets
  BY <1>3, NextRoundChanges DEF Swaps
<1> QED BY <1>1, <1>2, <1>3

LEMMA ScoredSwaps ==
  ASSUME respawnstyle \in Styles, NEW C, NEW s, Fit(s, C),
         NEW t \in Playing \cup {None}, NEW n \in Nat
  PROVE  Swaps(HandleScores(s, t, n), s)
<1> DEFINE a == AddScore(s, t, n)
<1>1. Fit(a, C) /\ Changes(a, s, {"score"})
  BY ScoresFit, AddScoreChanges DEF Fit
<1> HIDE DEF a
<1>2. a.list = s.list /\ a.round = s.round
  BY <1>1 DEF Changes, Fields
<1>3. Swaps(NextRound(a), a)
  BY <1>1, NextRoundSwaps
<1>4. HandleScores(s, t, n) = NextRound(a)
  BY DEF HandleScores, a
<1> QED BY <1>2, <1>3, <1>4 DEF Swaps

LEMMA FinishSwaps ==
  ASSUME respawnstyle \in Styles, NEW C, NEW s, Fit(s, C)
  PROVE  Swaps(FinishThink(s), s)
<1>1. Swaps(RoundSystem(s), s)
  <2>1. CASE RoundSystem(s) = s
    BY <2>1 DEF Swaps
  <2>2. CASE RoundSystem(s) = Decide(s)
    <3>1. RoundSystem(s).list = s.list /\ RoundSystem(s).round = s.round
      BY <2>2, DecideChanges DEF Changes, Fields, Fit
    <3> QED BY <3>1 DEF Swaps
  <2>3. CASE RoundSystem(s) = HandleScores(s, s.winner, 1)
    <3>1. s.winner \in Playing \cup {None} /\ 1 \in Nat
      BY DEF Fit, GameRecord
    <3> QED BY <2>3, <3>1, ScoredSwaps
  <2> QED BY <2>1, <2>2, <2>3, RoundSystemChanges
<1>2. ASSUME NEW u, Fit(u, C), Swaps(u, s) PROVE Swaps(CheckFragLimit(u), s)
  <2>1. CheckFragLimit(u).list = u.list /\ CheckFragLimit(u).round = u.round
    BY <1>2, CheckFragLimitChanges DEF Changes, Fields, Fit
  <2> QED BY <1>2, <2>1 DEF Swaps
<1>3. Fit(RoundSystem(s), C) /\ Swaps(s, s)
  BY RoundSystemFit DEF Swaps
<1> QED BY <1>1, <1>2, <1>3 DEF FinishThink

\* What the autobalance can still do: the men it has to move, and the rounds
\* whose swap of the sides it will see.
Unrest(s) ==
  Uneasy(s) + (IF UsingTickets /\ s.round < TicketRounds THEN TicketRounds - s.round ELSE 0)

Eased(r, s) == Unrest(r) <= Unrest(s) /\ (r.list = s.list \/ Unrest(r) < Unrest(s))

LEMMA UnrestIs ==
  ASSUME NEW C, NEW s, Fit(s, C)
  PROVE  Unrest(s) \in Nat /\ s.round \in Nat /\ TicketRounds \in Nat /\ Uneasy(s) \in Nat
<1>1. s.round \in Nat /\ TicketRounds \in Nat /\ Uneasy(s) \in Nat
  BY RoundsAssumption, StrengthIs DEF Fit, GameRecord
<1>2. (IF UsingTickets /\ s.round < TicketRounds THEN TicketRounds - s.round ELSE 0) \in Nat
  BY <1>1
<1> QED BY <1>1, <1>2 DEF Unrest

LEMMA EasedTwice ==
  ASSUME NEW C, NEW s, NEW r, NEW q, Fit(s, C), Fit(r, C), Fit(q, C), Eased(r, s), Eased(q, r)
  PROVE  Eased(q, s)
<1>1. Unrest(s) \in Nat /\ Unrest(r) \in Nat /\ Unrest(q) \in Nat
  BY UnrestIs
<1> QED BY <1>1 DEF Eased

LEMMA SameUnrest ==
  ASSUME NEW C, NEW s, Fit(s, C), NEW r, r.list = s.list, UsingTickets => r.round = s.round
  PROVE  Eased(r, s)
<1>1. Uneasy(r) = Uneasy(s)
  BY DEF Uneasy, Strength
<1>2. Unrest(r) = Unrest(s)
  BY <1>1 DEF Unrest
<1>3. Unrest(s) \in Nat
  BY UnrestIs
<1> QED BY <1>2, <1>3 DEF Eased

LEMMA SwapsEase ==
  ASSUME NEW C, NEW s, Fit(s, C), NEW r, Swaps(r, s)
  PROVE  Eased(r, s)
<1>1. CASE r.list = s.list /\ (UsingTickets => r.round = s.round)
  BY <1>1, SameUnrest
<1>2. CASE /\ UsingTickets /\ s.round < TicketRounds /\ r.round = s.round + 1
           /\ r.list = [t \in Playing |-> s.list[Opponent(t)]]
  <2>1. Strength(r, Americans) = Strength(s, British) /\ Strength(r, British) = Strength(s, Americans)
    <3>1. Opponent(Americans) = British /\ Opponent(British) = Americans
      BY SidesDiffer DEF Opponent
    <3> QED BY <1>2, <3>1, SidesDiffer DEF Strength
  <2>2. Uneasy(r) = Uneasy(s)
    <3>1. Strength(s, Americans) \in Nat /\ Strength(s, British) \in Nat
      BY StrengthIs, SidesDiffer
    <3> QED BY <2>1, <3>1 DEF Uneasy, Gap
  <2>3. s.round \in Nat /\ TicketRounds \in Nat /\ Uneasy(s) \in Nat
    BY UnrestIs
  <2>4. Unrest(s) = Uneasy(s) + (TicketRounds - s.round)
    BY <1>2 DEF Unrest
  <2>5. Unrest(r) = Uneasy(s)
             + (IF s.round + 1 < TicketRounds THEN TicketRounds - (s.round + 1) ELSE 0)
    BY <1>2, <2>2 DEF Unrest
  <2>6. Unrest(r) < Unrest(s) /\ Unrest(r) <= Unrest(s)
    BY <1>2, <2>3, <2>4, <2>5
  <2> QED BY <2>6 DEF Eased
<1> QED BY <1>1, <1>2 DEF Swaps

LEMMA BalanceEases ==
  ASSUME Tolerance >= 2, NEW C \in SUBSET Players, NEW s, Fit(s, C), NEW b \in BalanceTeams(s)
  PROVE  Eased(b, s)
<1>1. b.round = s.round /\ Fit(b, C)
  BY BalanceRuns, BalanceFit DEF OnTime, Timed
<1>2. CASE b.list = s.list
  BY <1>1, <1>2, SameUnrest
<1>3. CASE Uneasy(b) < Uneasy(s)
  <2>1. /\ Uneasy(b) \in Nat /\ Uneasy(s) \in Nat /\ s.round \in Nat /\ TicketRounds \in Nat
    BY <1>1, UnrestIs
  <2>2. (IF UsingTickets /\ s.round < TicketRounds THEN TicketRounds - s.round ELSE 0) \in Nat
    BY <2>1
  <2>3. Unrest(b) < Unrest(s) /\ Unrest(b) <= Unrest(s)
    BY <1>1, <1>3, <2>1, <2>2 DEF Unrest
  <2> QED BY <2>3 DEF Eased
<1> QED BY <1>2, <1>3, MoveEvens

\* A frame moves fewer and fewer.
LEMMA FrameEases ==
  ASSUME Tolerance >= 2, UsingTickets => Quiet(game), IInv, IInv', AnyFrame
  PROVE  Eased(game', game)
<1>1. PICK dt \in {0, 1} : Frame(dt)
  BY DEF AnyFrame
<1> DEFINE e == Elapse(game, dt)
           f == FlagUpdate(e)
<1>2. /\ respawnstyle \in Styles /\ client \in SUBSET Players /\ Fit(game, client)
      /\ game \in GameRecord /\ Fit(e, client) /\ Fit(f, client) /\ Fit(game', client)
  <2>1. client' = client /\ Fit(game', client') /\ respawnstyle' = respawnstyle
    BY <1>1 DEF Frame, IInv, Fit, Listed, Used, GameRecord, Members, Fighters,
                RoundTime, UsingTickets, Flags
  <2> QED BY <2>1, ElapseFit, FlagUpdateFit DEF IInv, Fit
<1>3. e.list = game.list /\ e.round = game.round
  BY <1>2, ElapseIs
<1>4. game' \in Think(e)
  BY <1>1 DEF Frame
<1> HIDE DEF e, f
<1>5. CASE e.over \/ TimeIsUp(e)
  <2>1. GoToIntermission(e).list = e.list /\ GoToIntermission(e).round = e.round
    BY <1>2 DEF GoToIntermission, Fit, GameRecord, Fields
  <2>2. game' = e \/ game' = GoToIntermission(e)
    BY <1>4, <1>5 DEF Think
  <2> QED BY <1>2, <1>3, <2>1, <2>2, SameUnrest
<1>6. ASSUME NEW b \in BalanceTeams(f),
             game' = FinishThink(Wave(RestartRoundCommand(RestartMap(b))))
      PROVE  Eased(game', game)
  <2> DEFINE c == RestartRoundCommand(RestartMap(b))
             w == Wave(c)
  <2>1. Fit(b, client) /\ Fit(c, client) /\ Fit(w, client)
    BY <1>1, <1>6, FrameFit DEF e, f
  <2>2. f.list = e.list /\ (UsingTickets => f.round = e.round)
    BY <1>2, FlagUpdateChanges DEF f, Changes, Restarts, Fields
  <2>3. Quiet(game) /\ UsingTickets => Quiet(b)
    <3>1. Quiet(game) => Quiet(e)
      BY <1>2, ElapseIs DEF Quiet, e
    <3>2. Quiet(e) /\ UsingTickets => Quiet(f)
      BY <1>2, FlagUpdateChanges DEF Quiet, Changes, Fields, f
    <3>3. Quiet(f) => Quiet(b)
      BY <1>2, <1>6, BalanceChanges DEF Quiet, Changes, Fields, Fit
    <3> QED BY <3>1, <3>2, <3>3
  <2>4. c.list = b.list /\ (Quiet(b) => OnTime(c, b))
    BY <1>2, <2>1, CommandsRun
  <2>5. w.list = c.list /\ w.round = c.round
    BY <2>1, WaveRuns DEF Timed
  <2>6. UsingTickets => c.round = b.round
    BY <2>3, <2>4 DEF OnTime, Timed
  <2> HIDE DEF c
  <2>7. Eased(f, game)
    BY <1>2, <1>3, <2>2, SameUnrest
  <2>8. Eased(b, f)
    BY <1>2, <1>6, BalanceEases
  <2>9. Eased(w, b)
    BY <2>1, <2>4, <2>5, <2>6, SameUnrest
  <2>10. Eased(game', w)
    BY <1>2, <1>6, <2>1, FinishSwaps, SwapsEase DEF c
  <2> HIDE DEF w
  <2>11. Eased(b, game)
    BY <1>2, <2>1, <2>7, <2>8, EasedTwice
  <2>12. Eased(w, game)
    BY <1>2, <2>1, <2>11, <2>9, EasedTwice
  <2> QED BY <1>2, <2>1, <2>10, <2>12, EasedTwice
<1>7. CASE ~(e.over \/ TimeIsUp(e))
  <2>1. PICK b \in BalanceTeams(f) :
          game' = FinishThink(Wave(RestartRoundCommand(RestartMap(b))))
    BY <1>4, <1>7 DEF Think, f
  <2> QED BY <1>6, <2>1
<1> QED BY <1>5, <1>7

\* Nothing but a frame, the map's inputs and the deaths touches the lists, when
\* nobody joins or leaves.
LEMMA StepEases ==
  ASSUME Tolerance >= 2, UsingTickets => Quiet(game), IInv, IInv', [Next]_vars,
         ~\E p \in Players : PlayerStep(p) /\ ~Killed(p)
  PROVE  Eased(game', game)
<1>0. /\ respawnstyle \in Styles /\ Fit(game, client) /\ DOMAIN game = Fields
  BY DEF IInv, Fit, GameRecord, Fields
<1>1. CASE AnyFrame
  BY <1>1, FrameEases
<1>2. ASSUME NEW p \in Players, PlayerStep(p) PROVE Eased(game', game)
  <2>1. game' = Die(game, p)
    BY <1>2 DEF Killed
  <2>2. game'.list = game.list /\ game'.round = game.round
    BY <1>0, <2>1 DEF Die, Fields
  <2> QED BY <1>0, <2>2, SameUnrest
<1>3. ASSUME NEW t \in MapInputs[respawnstyle], ForceWinRound(t) PROVE Eased(game', game)
  <2>1. t \in Playing \cup {None} /\ WinBonus \in Nat
    BY <1>0, RoundsAssumption
  <2> QED BY <1>0, <1>3, <2>1, ScoredSwaps, SwapsEase DEF ForceWinRound
<1>4. CASE Console
  <2>1. game'.list = game.list /\ game'.round = game.round
    BY <1>0, <1>4 DEF Console, Fields
  <2> QED BY <1>0, <2>1, SameUnrest
<1>5. ASSUME NEW f \in Flags, FlagChange(f) PROVE Eased(game', game)
  <2>1. game'.list = game.list /\ game'.round = game.round
    BY <1>0, <1>5 DEF FlagChange, Fields
  <2> QED BY <1>0, <2>1, SameUnrest
<1>6. CASE UNCHANGED vars
  BY <1>0, <1>6, SameUnrest DEF vars
<1> QED BY <1>1, <1>2, <1>3, <1>4, <1>5, <1>6 DEF Next

VARIABLE moves

\* The frames in which the autobalance has moved somebody.
Counts == moves' = IF Rebalanced THEN moves + 1 ELSE moves
MoveCounter == moves = 0 /\ [][Counts]_<<vars, moves>>

\* Either the moves end, or there are more of them than any number.
MovesAddUp ==
  \/ <>[][~Rebalanced]_vars
  \/ [](\A d \in Nat : <>(moves > d))

Stays == ~\E p \in Players : PlayerStep(p) /\ ~Killed(p)

Settling ==
  /\ [](IInv /\ moves \in Nat) /\ [](UsingTickets => Quiet(game))
  /\ [][Next]_vars /\ [][Stays]_vars /\ [][Counts]_<<vars, moves>>

Within(d) == Unrest(game) + moves <= d

LEMMA MovesTyped == MoveCounter => [](moves \in Nat)
<1>1. moves = 0 => moves \in Nat
  OBVIOUS
<1>2. moves \in Nat /\ [Counts]_<<vars, moves>> => (moves \in Nat)'
  BY DEF Counts
<1> QED BY <1>1, <1>2, PTL DEF MoveCounter

LEMMA MovedIsListed ==
  ASSUME IInv, Rebalanced
  PROVE  game'.list # game.list
<1>1. PICK p \in Players, t \in Playing :
        p \in Members(game, t) /\ p \in Members(game', Opponent(t))
  BY DEF Rebalanced
<1>2. SUFFICES ASSUME game'.list = game.list PROVE FALSE
  OBVIOUS
<1>3. p \in Members(game, Opponent(t))
  BY <1>1, <1>2 DEF Members
<1>4. (t = Americans /\ Opponent(t) = British) \/ (t = British /\ Opponent(t) = Americans)
  BY <1>1, SidesDiffer DEF Opponent, Playing
<1>5. Members(game, Americans) \cap Members(game, British) = {}
  BY DEF IInv, Fit, Listed
<1> QED BY <1>1, <1>3, <1>4, <1>5

LEMMA StillWithin ==
  ASSUME Tolerance >= 2, NEW d \in Nat, IInv, IInv', moves \in Nat,
         UsingTickets => Quiet(game), [Next]_vars, [Stays]_vars, [Counts]_<<vars, moves>>,
         Within(d)
  PROVE  Within(d)'
<1>1. respawnstyle' = respawnstyle /\ Unrest(game)' = Unrest(game')
  BY StyleStays DEF Unrest, Uneasy, Strength, UsingTickets
<1>2. Unrest(game) \in Nat /\ Unrest(game') \in Nat
  <2>1. Fit(game, client)
    BY DEF IInv
  <2>2. Fit(game', client')
    BY <1>1 DEF IInv, Fit, Listed, Used, GameRecord, Members, Fighters,
                RoundTime, UsingTickets, Flags
  <2> QED BY <2>1, <2>2, UnrestIs
<1>3. Eased(game', game)
  <2>1. CASE Stays
    BY <2>1, StepEases DEF Stays
  <2>2. CASE UNCHANGED vars
    BY <2>2, SameUnrest DEF vars, IInv
  <2> QED BY <2>1, <2>2
<1>4. Unrest(game') <= Unrest(game) /\ (Rebalanced => Unrest(game') < Unrest(game))
  BY <1>3, MovedIsListed DEF Eased
<1>5. moves' = moves \/ (Rebalanced /\ moves' = moves + 1)
  BY DEF Counts
<1>6. Unrest(game) + moves <= d
  BY DEF Within
<1>7. Unrest(game') + moves' <= d
  BY <1>2, <1>4, <1>5, <1>6
<1> QED BY <1>1, <1>7 DEF Within

LEMMA SomeMoves ==
  ASSUME IInv, moves \in Nat
  PROVE  /\ \E d \in Nat : Within(d)
         /\ \A d \in Nat : Within(d) => ~(moves > d)
<1>1. Unrest(game) \in Nat /\ Unrest(game) + moves \in Nat
  BY UnrestIs DEF IInv
<1>2. Within(Unrest(game) + moves)
  BY <1>1 DEF Within
<1>3. ASSUME NEW d \in Nat, Within(d) PROVE ~(moves > d)
  BY <1>1, <1>3 DEF Within
<1> QED BY <1>1, <1>2, <1>3

LEMMA FewMoves ==
  ASSUME Tolerance >= 2, NEW d \in Nat
  PROVE  Settling /\ <>(moves > d) => ~Within(d)
<1>1. /\ IInv /\ IInv' /\ moves \in Nat /\ (UsingTickets => Quiet(game))
      /\ [Next]_vars /\ [Stays]_vars /\ [Counts]_<<vars, moves>> /\ Within(d)
      => Within(d)'
  BY StillWithin
<1>2. IInv /\ moves \in Nat /\ Within(d) => ~(moves > d)
  BY SomeMoves
<1> QED BY <1>1, <1>2, PTL DEF Settling

\* The autobalance comes to rest once nobody joins or leaves, if it takes two men
\* more to move one and the rounds of a match with tickets are left to run
\* (BalanceTeams, SwapPlayerTeam).
THEOREM BalanceSettlesDown ==
  ASSUME Tolerance >= 2
  PROVE  /\ Spec /\ MoveCounter /\ MovesAddUp
         /\ <>[](UsingTickets => Quiet(game))
         => BalanceSettles
<1>1. Settling /\ (\A d \in Nat : <>(moves > d)) => ~\E d \in Nat : Within(d)
  BY FewMoves
<1>2. IInv /\ moves \in Nat => \E d \in Nat : Within(d)
  BY SomeMoves
<1> QED BY <1>1, <1>2, AlwaysFit, MovesTyped, PTL
        DEF Spec, MoveCounter, MovesAddUp, Settling, BalanceSettles, Stays

=============================================================================
