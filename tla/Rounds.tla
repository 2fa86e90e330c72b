------------------------------- MODULE Rounds -------------------------------
(***************************************************************************)
(* The match: CHL2MPRules (game/shared/hl2mp/hl2mp_gamerules.cpp) with the *)
(* scores and tickets of CTeam (game/server/team.cpp), the part of         *)
(* CHL2MP_Player that joins, dies and spawns, and the map's win inputs.    *)
(*                                                                         *)
(* CHL2MPRules::Think runs once a frame and works on everything at once,   *)
(* so the state it owns is one record, game; each method is an operator    *)
(* from that record to the new one, and Think is their composition in the  *)
(* order of the code.  Time is kept as ages and times left, in seconds; a  *)
(* frame takes no or one unit of it.                                       *)
(*                                                                         *)
(* The server variables are set by the map's configuration when the level  *)
(* starts: constants, but for mp_respawnstyle, which is one of Styles.     *)
(* Each style is played on a server of its own size, for a time and with   *)
(* console commands of its own, and on a map with flags of its own.        *)
(***************************************************************************)
EXTENDS Integers, FiniteSets, Sequences

CONSTANTS
  Styles,         \* values mp_respawnstyle may have
  MaxClients,     \* of each style: players sit in the slots 1 .. MaxClients
  RespawnTime,    \* mp_respawntime
  TicketRounds,   \* mp_tickets_rounds
  TicketRoundTime,\* mp_tickets_roundtime
  StartTickets,   \* mp_tickets_a and mp_tickets_b
  Drain,          \* mp_tickets_drain_a and _b, in parts of a ticket
  Parts,          \* parts of a ticket (the code's float)
  WinBonus,       \* mp_winbonus
  FragLimit,      \* fraglimit, 0 for none
  TimeLimit,      \* mp_timelimit of each style, 0 for none
  AutoBalance,    \* mp_autobalanceteams
  Tolerance,      \* mp_autobalancetolerance
  Commands,       \* console commands used: "restartround", "restartmap"
  MapInputs,      \* sides the map's bg2_maptrigger inputs may declare winner
  MapFlags,       \* the flags of the map of each style, and their key values:
  FullCap,        \* m_iFullCap
  ForTeam,        \* m_iForTeam
  Starting,       \* what ResetFlag makes of each flag
  DecideDelay,    \* from a decision to the restart (5 s in the code)
  DrainPeriod,    \* from a drain check to the next (10 s in the code)
  ZeroedMemory,   \* the members that the constructor forgets are zero
  MaxScore        \* bound on the score that the map's inputs hand out

Americans  == "americans"
British    == "british"
Unassigned == "unassigned"
Inactive   == "inactive"        \* a flag with m_bActive off
None       == "none"            \* TEAM_NONE: a draw

Playing == {Americans, British}
Players == UNION {1 .. MaxClients[r] : r \in Styles}
Off == -1                       \* a reset that is not pending

AllFlags == UNION {MapFlags[r] : r \in Styles}

ASSUME RoundsAssumption ==
  /\ Styles \subseteq 0 .. 4
  /\ MaxClients \in [Styles -> Nat] /\ TimeLimit \in [Styles -> Nat]
  /\ RespawnTime \in Nat /\ TicketRounds \in Nat /\ TicketRoundTime \in Nat
  /\ StartTickets \in [Playing -> Nat] /\ Drain \in [Playing -> Nat]
  /\ Parts \in Nat \ {0}
  /\ WinBonus \in Nat /\ FragLimit \in Nat
  /\ AutoBalance \in BOOLEAN /\ Tolerance \in Nat \ {0}
  /\ Commands \in [Styles -> SUBSET {"restartround", "restartmap"}]
  /\ MapInputs \in [Styles -> SUBSET (Playing \cup {None})]
  /\ MapFlags \in [Styles -> SUBSET AllFlags]
  /\ FullCap \in [AllFlags -> 0 .. 3] /\ ForTeam \in [AllFlags -> 0 .. 2]
  /\ Starting \in [AllFlags -> Playing \cup {Unassigned, Inactive}]
  /\ DecideDelay \in Nat \ {0} /\ DrainPeriod \in Nat \ {0}
  /\ ZeroedMemory \in BOOLEAN /\ MaxScore \in Nat

VARIABLES
  respawnstyle,   \* mp_respawnstyle
  client,         \* the connected players
  game            \* CHL2MPRules, its teams and their players, see GameRecord

vars == <<respawnstyle, client, game>>

Flags == MapFlags[respawnstyle]
UsingTickets == respawnstyle \in {3, 4}
RoundTime == IF UsingTickets THEN TicketRoundTime ELSE RespawnTime
Opponent(t) == IF t = Americans THEN British ELSE Americans

\* decided is not in the code: an observer notes that the round system has
\* called the result of the round being played.
GameRecord ==
  [list       : [Playing -> Seq(Players)],    \* CTeam::m_aPlayers
   alive      : [Players -> BOOLEAN],         \* IsAlive()
   fresh      : [Players -> BOOLEAN],         \* m_bDontRemoveTicket
   tickets    : [Playing -> Nat],             \* m_iTicketsLeft
   fraction   : [Playing -> 0 .. Parts - 1],  \* m_flTicketRemovalFraction
   score      : [Playing -> Nat],             \* m_iScore
   round      : Nat,                          \* m_iCurrentRound
   restarting : BOOLEAN,                      \* m_bIsRestartingRound
   restartIn  : -1 .. DecideDelay,            \* m_flNextRoundRestart
   winner     : Playing \cup {None},          \* m_iTDMTeamThatWon
   flagIn     : 0 .. DrainPeriod,             \* m_fNextFlagUpdate
   waveAge    : 0 .. RespawnTime,             \* since m_fLastRespawnWave
   roundAge   : 0 .. RoundTime,               \* since m_fLastRoundRestart
   gameAge    : 0 .. TimeLimit[respawnstyle], \* since m_flGameStartTime
   askRound   : BOOLEAN,                      \* sv_restartround is 1
   askMap     : BOOLEAN,                      \* sv_restartmap is 1
   roundReset : Off .. 1,                     \* m_fNextRoundReset
   mapReset   : Off .. 1,                     \* m_fNextGameReset
   held       : [Flags -> Playing \cup {Unassigned, Inactive}],
   over       : BOOLEAN,                      \* g_fGameOver
   decided    : BOOLEAN]

TypeOK ==
  /\ respawnstyle \in Styles
  /\ client \subseteq Players
  /\ game \in GameRecord

-----------------------------------------------------------------------------
(* Teams and players.                                                      *)

Members(s, t) == {s.list[t][i] : i \in DOMAIN s.list[t]}
Fighters(s) == Members(s, Americans) \cup Members(s, British)
Strength(s, t) == Len(s.list[t])
Living(s, t) == {p \in Members(s, t) : s.alive[p]}

\* CTeam::RemovePlayer (FindAndRemove): the first entry goes, the rest move up.
Without(list, p) ==
  LET first == CHOOSE i \in DOMAIN list :
                 list[i] = p /\ \A j \in 1 .. i - 1 : list[j] # p
  IN  IF \E i \in DOMAIN list : list[i] = p
      THEN [i \in 1 .. Len(list) - 1 |-> list[IF i < first THEN i ELSE i + 1]]
      ELSE list

\* CBasePlayer::ChangeTeam: off the old list, to the tail of the new one.
ChangeTeam(s, p, t) ==
  [s EXCEPT !.list = [u \in Playing |->
     IF u = t THEN Append(Without(s.list[u], p), p) ELSE Without(s.list[u], p)]]

\* The ticket part of CHL2MP_Player::Spawn: RemoveTicket unless it is the
\* player's first spawn.
Spawn(s, p, t) ==
  [s EXCEPT !.alive[p] = TRUE,
            !.fresh[p] = @ /\ ~UsingTickets,
            !.tickets[t] = IF UsingTickets /\ ~s.fresh[p] /\ @ > 0 THEN @ - 1 ELSE @]

Die(s, p) == [s EXCEPT !.alive[p] = FALSE]

\* When the player who has just joined may enter at once; styles 0 and 4 look at
\* how long ago he died (longDead).
MayRespawn(s, longDead) ==
  \/ \E t \in Playing : s.list[t] = <<>>
  \/ respawnstyle \in {0, 4} /\ longDead

Gap(a, b) == IF a > b THEN a - b ELSE b - a

\* Equal teams count as too many British.
Bigger(s) ==
  IF Strength(s, Americans) > Strength(s, British) THEN Americans ELSE British

\* Mutant of Uneven: off by one.
AlmostEven(s) ==
  AutoBalance /\ Gap(Strength(s, Americans), Strength(s, British)) >= Tolerance - 1

Uneven(s) ==
  AutoBalance /\ Gap(Strength(s, Americans), Strength(s, British)) >= Tolerance

SwapPlayerTeam(s, p) ==
  IF s.alive[p] THEN s ELSE ChangeTeam(s, p, Opponent(Bigger(s)))

\* The part of Think that swaps a random player of the bigger team, if dead.
BalanceTeams(s) ==
  IF Uneven(s) THEN {SwapPlayerTeam(s, p) : p \in Members(s, Bigger(s))} ELSE {s}

-----------------------------------------------------------------------------
(* Restarting.                                                             *)

\* Mutant of SwapTeams: the scores stay where they are.
SwapPlayersOnly(s) == [s EXCEPT !.list = [t \in Playing |-> s.list[Opponent(t)]]]

\* Every player moves to the tail of the other list, in the order of the lists.
SwapTeams(s) ==
  [s EXCEPT !.list  = [t \in Playing |-> s.list[Opponent(t)]],
            !.score = [t \in Playing |-> s.score[Opponent(t)]]]

\* Mutant of RespawnAll: the spawn does not use up the allowance.
RespawnForFree(s) ==
  [s EXCEPT !.alive = [p \in Players |-> s.alive[p] \/ p \in Fighters(s)]]

RespawnAll(s) ==
  [s EXCEPT !.alive = [p \in Players |-> s.alive[p] \/ p \in Fighters(s)],
            !.fresh = [p \in Players |->
                         s.fresh[p] /\ ~(UsingTickets /\ p \in Fighters(s))]]

\* CTeam::ResetTickets of both teams; RespawnAll has no other trace in them.
ResetTickets(s) ==
  IF UsingTickets
  THEN [s EXCEPT !.tickets = StartTickets,
                 !.fraction = [t \in Playing |-> 0],
                 !.flagIn = DrainPeriod]
  ELSE s

ResetClocks(s) ==
  IF RespawnTime > 0 THEN [s EXCEPT !.roundAge = 0, !.waveAge = 0] ELSE s

\* ResetFlags.
StartingFlags == [f \in Flags |-> Starting[f]]

RestartRound(s, swapTeams) ==
  LET reset == [s EXCEPT !.held = StartingFlags, !.decided = FALSE]
  IN  ResetClocks(ResetTickets(RespawnAll(
        IF swapTeams THEN SwapTeams(reset) ELSE reset)))

GoToIntermission(s) == [s EXCEPT !.over = TRUE]

AddScore(s, t, n) == IF t = None THEN s ELSE [s EXCEPT !.score[t] = @ + n]

\* Mutant of NextRound: the round is not counted.
UncountedRound(s) ==
  IF UsingTickets /\ s.round >= TicketRounds THEN GoToIntermission(s)
  ELSE [RestartRound(s, UsingTickets) EXCEPT !.restarting = FALSE, !.restartIn = 1]

\* Mutant of NextRound: the round goes on being restarted.
RestartsTwice(s) ==
  IF UsingTickets /\ s.round >= TicketRounds THEN GoToIntermission(s)
  ELSE [RestartRound(IF UsingTickets THEN [s EXCEPT !.round = @ + 1] ELSE s,
                     UsingTickets) EXCEPT !.restartIn = 1]

\* HandleScores with bRestart.
NextRound(s) ==
  IF UsingTickets /\ s.round >= TicketRounds THEN GoToIntermission(s)
  ELSE [RestartRound(IF UsingTickets THEN [s EXCEPT !.round = @ + 1] ELSE s,
                     UsingTickets)
          EXCEPT !.restarting = FALSE, !.restartIn = 1]

HandleScores(s, t, n) == NextRound(AddScore(s, t, n))

-----------------------------------------------------------------------------
(* What the flags decide.                                                  *)

Number(t) == IF t = Americans THEN 1 ELSE 2

\* CountHeldFlags: the flags that count, who holds them, whom they count for.
Counted(s) == {f \in Flags : s.held[f] # Inactive /\ (UsingTickets \/ FullCap[f] # 3)}
HeldBy(s, t) == {f \in Counted(s) : s.held[f] = t}
Neutral(s) == HeldBy(s, Unassigned)

Cappable(s, t) ==
  {f \in Counted(s) : /\ ForTeam[f] \in {0, Number(t)}
                      /\ UsingTickets \/ FullCap[f] \in {0, Number(t)}}

HoldsAll(s, t) == Cardinality(HeldBy(s, t)) = Cardinality(Cappable(s, t))

\* Mutant of Fullcap: neutral flags are not looked at.
FullcapOfTheHeld(s, t) == HeldBy(s, t) # {} /\ HeldBy(s, Opponent(t)) = {}

\* Mutant of Fullcap: nothing is won once no flag is neutral.
FullcapWithNeutral(s, t) ==
  Counted(s) # {} /\ HoldsAll(s, t) /\ Neutral(s) # {} /\ Cappable(s, t) # {}

\* CheckFullcap: the counts, not the flags, are compared.
Fullcap(s, t) ==
  /\ Counted(s) # {} /\ HoldsAll(s, t)
  /\ IF Neutral(s) # {} THEN Cappable(s, t) # {} ELSE HeldBy(s, Opponent(t)) = {}

CheckFullcap(s) ==
  CASE Fullcap(s, Americans) -> HandleScores(s, Americans, WinBonus)
    [] ~Fullcap(s, Americans) /\ Fullcap(s, British) ->
         HandleScores(s, British, WinBonus)
    [] OTHER -> s

Dominates(s, t) ==
  Cardinality(HeldBy(s, t)) > Cardinality(Cappable(s, t)) \div 2

\* Mutant of RemoveTickets: the fraction is dropped.
RemoveWholeTickets(s, t, parts) ==
  IF parts \div Parts >= s.tickets[t] THEN [s EXCEPT !.tickets[t] = 0]
  ELSE [s EXCEPT !.tickets[t] = @ - parts \div Parts]

\* CTeam::RemoveTickets, in parts of a ticket.
RemoveTickets(s, t, parts) ==
  LET sum == parts + s.fraction[t]
  IN  IF sum \div Parts >= s.tickets[t]
      THEN [s EXCEPT !.tickets[t] = 0, !.fraction[t] = 0]
      ELSE [s EXCEPT !.tickets[t] = @ - sum \div Parts, !.fraction[t] = sum % Parts]

DrainOf(s, t) ==
  IF Dominates(s, Opponent(t)) THEN RemoveTickets(s, t, Drain[t]) ELSE s

CheckTicketDrain(s) == DrainOf(DrainOf(s, British), Americans)

FlagUpdate(s) ==
  IF s.flagIn > 0 THEN s
  ELSE IF UsingTickets
       THEN [CheckTicketDrain(s) EXCEPT !.flagIn = DrainPeriod]
       ELSE [CheckFullcap(s) EXCEPT !.flagIn = 1]

-----------------------------------------------------------------------------
(* The frame: CHL2MPRules::Think.                                          *)

\* A restart command read now falls due a second later.
Pending(ask, left) == IF ask THEN 1 ELSE left

RestartMap(s) ==
  IF Pending(s.askMap, s.mapReset) = 0
  THEN [RestartRound([s EXCEPT !.score = [t \in Playing |-> 0], !.round = 1], FALSE)
          EXCEPT !.mapReset = Off, !.gameAge = 0]
  ELSE [s EXCEPT !.askMap = FALSE, !.mapReset = Pending(s.askMap, @)]

RestartRoundCommand(s) ==
  IF Pending(s.askRound, s.roundReset) = 0
  THEN [RestartRound(s, FALSE) EXCEPT !.roundReset = Off]
  ELSE [s EXCEPT !.askRound = FALSE, !.roundReset = Pending(s.askRound, @)]

\* Mutant of Reinforced: the tickets are looked at once for the whole wave.
ReinforcedOnce(s, t) ==
  {p \in Members(s, t) : ~s.alive[p] /\ (UsingTickets => s.tickets[t] > 0)}

\* Whom a wave spawns: the dead in the order of the list, while tickets last.
Reinforced(s, t) ==
  LET q == s.list[t]
      payers(i) == {j \in 1 .. i - 1 : ~s.alive[q[j]] /\ ~s.fresh[q[j]]}
  IN  {q[i] : i \in {j \in DOMAIN q :
                /\ ~s.alive[q[j]]
                /\ UsingTickets => Cardinality(payers(j)) < s.tickets[t]}}

RespawnWave(s) ==
  LET up == Reinforced(s, Americans) \cup Reinforced(s, British)
  IN  [s EXCEPT
         !.alive = [p \in Players |-> s.alive[p] \/ p \in up],
         !.fresh = [p \in Players |-> s.fresh[p] /\ ~(UsingTickets /\ p \in up)],
         !.tickets = [t \in Playing |->
            LET cost == Cardinality({p \in Reinforced(s, t) : ~s.fresh[p]})
            IN  IF ~UsingTickets THEN s.tickets[t]
                ELSE IF cost > s.tickets[t] THEN 0 ELSE s.tickets[t] - cost],
         !.waveAge = 0]

Wave(s) ==
  IF (respawnstyle = 1 \/ UsingTickets) /\ s.waveAge >= RespawnTime
  THEN RespawnWave(s) ELSE s

\* CountAlivePlayersAndTickets.
Forces(s, t) ==
  Cardinality({i \in DOMAIN s.list[t] : s.alive[s.list[t][i]]})
    + (IF UsingTickets THEN s.tickets[t] ELSE 0)

Victor(s) ==
  IF \E t \in Playing : Forces(s, t) > Forces(s, Opponent(t))
  THEN CHOOSE t \in Playing : Forces(s, t) > Forces(s, Opponent(t))
  ELSE None

\* Mutant of TooFewPlayers: the dead are not counted.
TooFewAlive(s) == \E t \in Playing : Living(s, t) = {}

\* Think returns here, before it looks at fraglimit.
TooFewPlayers(s) ==
  \/ \A t \in Playing : s.list[t] = <<>>
  \/ ~UsingTickets /\ \E t \in Playing : s.list[t] = <<>>

RoundIsOver(s) ==
  \/ \E t \in Playing : Forces(s, t) = 0
  \/ s.roundAge >= RoundTime
  \/ s.restarting

Decide(s) ==
  [s EXCEPT !.restarting = TRUE, !.restartIn = DecideDelay,
            !.winner = Victor(s), !.decided = TRUE]

\* Mutant of RoundSystem: the result is called again in every frame.
CallAgain(s) ==
  CASE ~RoundIsOver(s) -> s
    [] RoundIsOver(s) /\ (~s.restarting \/ s.restartIn >= 0) -> Decide(s)
    [] s.restarting /\ s.restartIn < 0 -> HandleScores(s, s.winner, 1)

RoundSystem(s) ==
  CASE ~RoundIsOver(s) -> s
    [] RoundIsOver(s) /\ ~s.restarting -> Decide(s)
    [] s.restarting /\ ~(s.restartIn < 0) -> s
    [] s.restarting /\ s.restartIn < 0 -> HandleScores(s, s.winner, 1)

CheckFragLimit(s) ==
  IF FragLimit > 0 /\ \E t \in Playing : s.score[t] >= FragLimit
  THEN GoToIntermission(s) ELSE s

FinishThink(s) ==
  IF respawnstyle \in {2, 3, 4}
  THEN IF TooFewPlayers(s) THEN s ELSE CheckFragLimit(RoundSystem(s))
  ELSE CheckFragLimit(s)

TimeIsUp(s) ==
  TimeLimit[respawnstyle] > 0 /\ s.gameAge >= TimeLimit[respawnstyle]

\* The outcomes of a Think.  Each phase works on what the one before has left;
\* only the autobalance has a choice.
Think(s) ==
  LET balanced  == UNION {BalanceTeams(u) : u \in {FlagUpdate(s)}}
      restarted == {RestartRoundCommand(m) : m \in {RestartMap(b) : b \in balanced}}
  IN  IF s.over THEN {s}
      ELSE IF TimeIsUp(s) THEN {GoToIntermission(s)}
      ELSE {FinishThink(w) : w \in {Wave(r) : r \in restarted}}

\* Mutant of Down: a deadline long past keeps its distance.
DownForever(n, floor) == n - 1

Down(n, floor) == IF n > floor THEN n - 1 ELSE n
Up(n, ceiling) == IF n < ceiling THEN n + 1 ELSE n

Elapse(s, dt) ==
  IF dt = 0 THEN s
  ELSE [s EXCEPT !.restartIn = Down(@, -1),
                 !.flagIn = Down(@, 0),
                 !.waveAge = Up(@, RespawnTime),
                 !.roundAge = Up(@, RoundTime),
                 !.gameAge = Up(@, TimeLimit[respawnstyle]),
                 !.roundReset = IF @ = Off THEN @ ELSE Down(@, 0),
                 !.mapReset = IF @ = Off THEN @ ELSE Down(@, 0)]

-----------------------------------------------------------------------------
(* The actions.                                                            *)

Init ==
  /\ respawnstyle \in Styles
  /\ client = {}
  /\ \E restarting \in BOOLEAN, restartIn \in -1 .. DecideDelay,
        roundReset \in Off .. 1, mapReset \in Off .. 1 :
       /\ ZeroedMemory => /\ ~restarting /\ restartIn = -1
                          /\ roundReset = Off /\ mapReset = Off
       /\ game =
            [list |-> [t \in Playing |-> <<>>],
             alive |-> [p \in Players |-> FALSE],
             fresh |-> [p \in Players |-> FALSE],
             tickets |-> StartTickets, fraction |-> [t \in Playing |-> 0],
             score |-> [t \in Playing |-> 0], round |-> 1,
             restarting |-> restarting, restartIn |-> restartIn,
             winner |-> None, flagIn |-> DrainPeriod,
             waveAge |-> 0, roundAge |-> 0, gameAge |-> 0,
             askRound |-> FALSE, askMap |-> FALSE,
             roundReset |-> roundReset, mapReset |-> mapReset,
             held |-> StartingFlags, over |-> FALSE, decided |-> FALSE]

\* dt seconds pass and the rules think.
Frame(dt) ==
  /\ \E s \in {Elapse(game, dt)} : game' \in Think(s)
  /\ UNCHANGED <<respawnstyle, client>>

AnyFrame == \E dt \in {0, 1} : Frame(dt)

ClientConnect(p) ==
  /\ p \notin client /\ p <= MaxClients[respawnstyle]
  /\ client' = client \cup {p}
  /\ game' = [game EXCEPT !.alive[p] = TRUE, !.fresh[p] = TRUE]
  /\ UNCHANGED respawnstyle

\* AttemptJoin, for a class that is free.
AttemptJoin(p, t) ==
  LET a == Strength([game EXCEPT !.list[Americans] = Without(@, p)], Americans)
      b == Strength([game EXCEPT !.list[British] = Without(@, p)], British)
      tooMany == /\ AutoBalance /\ Gap(a, b) >= Tolerance
                 /\ t = IF a > b THEN Americans ELSE British
      joined == ChangeTeam(Die(game, p), p, t)
  IN  /\ p \in client /\ p \notin Members(game, t)
      /\ ~tooMany
      /\ \E longDead \in BOOLEAN :
           /\ longDead => ~game.alive[p]
           /\ game' = IF p \notin Fighters(game) /\ MayRespawn(joined, longDead)
                      THEN Spawn(joined, p, t) ELSE joined
      /\ UNCHANGED <<respawnstyle, client>>

\* "spectate": the death, and off the lists.
Spectate(p) ==
  /\ p \in client
  /\ game' = ChangeTeam(Die(game, p), p, Unassigned)
  /\ UNCHANGED <<respawnstyle, client>>

Killed(p) ==
  /\ p \in client /\ game.alive[p]
  /\ game' = Die(game, p)
  /\ UNCHANGED <<respawnstyle, client>>

\* Mutant of ClientDisconnected: the player stays on the list.
LeaveTheList(p) ==
  /\ p \in client
  /\ client' = client \ {p}
  /\ game' = Die(game, p)
  /\ UNCHANGED respawnstyle

\* ClientDisconnected, or UpdateOnRemove once the game is over.
ClientDisconnected(p) ==
  /\ p \in client
  /\ client' = client \ {p}
  /\ game' = ChangeTeam(Die(game, p), p, Unassigned)
  /\ UNCHANGED respawnstyle

\* A bg2_maptrigger declares the winner of the round, also in the intermission.
ForceWinRound(t) ==
  /\ t \in Playing => game.score[t] + WinBonus <= MaxScore
  /\ game' = HandleScores(game, t, WinBonus)
  /\ UNCHANGED <<respawnstyle, client>>

Console ==
  /\ \/ /\ "restartround" \in Commands[respawnstyle]
        /\ game' = [game EXCEPT !.askRound = TRUE]
     \/ /\ "restartmap" \in Commands[respawnstyle]
        /\ game' = [game EXCEPT !.askMap = TRUE]
  /\ UNCHANGED <<respawnstyle, client>>

\* The flag is taken, lost, enabled or disabled: module Flag.
FlagChange(f) ==
  /\ \E h \in Playing \cup {Unassigned, Inactive} : game' = [game EXCEPT !.held[f] = h]
  /\ UNCHANGED <<respawnstyle, client>>

PlayerStep(p) ==
  \/ ClientConnect(p)
  \/ \E t \in Playing : AttemptJoin(p, t)
  \/ Spectate(p)
  \/ Killed(p)
  \/ ClientDisconnected(p)

Next ==
  \/ AnyFrame
  \/ \E p \in Players : PlayerStep(p)
  \/ \E t \in MapInputs[respawnstyle] : ForceWinRound(t)
  \/ Console
  \/ \E f \in Flags : FlagChange(f)

\* Time passes and the server runs its frames; nobody else has to do anything.
Fairness == WF_vars(Frame(1))

Spec == Init /\ [][Next]_vars
FairSpec == Spec /\ Fairness

-----------------------------------------------------------------------------
(* Properties.                                                             *)

\* Nobody is on both lists or twice on one, and nobody who has left is on any:
\* joining, spectating, the autobalance, the swap and both ways of leaving keep
\* the lists of the teams in step (CTeam::m_aPlayers).
Rosters ==
  /\ Members(game, Americans) \cap Members(game, British) = {}
  /\ Fighters(game) \subseteq client
  /\ \A t \in Playing : Strength(game, t) = Cardinality(Members(game, t))

Total(s) == s.score[Americans] + s.score[British]

\* With tickets, and no map input that hands out mp_winbonus, the sides together
\* have at most one point for every round that is over, whichever way the rounds
\* were restarted and the scores swapped (HandleScores: the point and the round
\* go together).
OnePointPerRound ==
  UsingTickets /\ MapInputs[respawnstyle] \subseteq {None} =>
    Total(game) <= IF game.over THEN game.round ELSE game.round - 1

\* A step of the rules that gives the point or counts the round.
Scored ==
  /\ game'.round > game.round \/ Total(game') > Total(game)
  /\ AnyFrame

\* Whenever a frame ends the round, the round that it ends is the one whose
\* result was called: no restart in between leaves an old result behind
\* (HandleScores: "do not cause two simultaneous round restarts..").
DecidedRoundsOnly == [][Flags = {} /\ Scored => game.decided]_vars

\* When a ticket round ends and another follows, every player who is on a side
\* goes to the other one and his side's score comes with him, with the point he
\* won ("swap teams if using tickets").
ScoresFollowPlayers ==
  [][~AutoBalance /\ UsingTickets /\ game'.round > game.round /\ Scored =>
       \A t \in Playing :
         /\ Members(game', Opponent(t)) = Members(game, t)
         /\ game'.score[Opponent(t)]
              = game.score[t] + (IF game.winner = t THEN 1 ELSE 0)]_vars

Risen(t) == {p \in Members(game', t) : game'.alive[p] /\ ~game.alive[p]}
Restarted ==
  \/ game'.roundAge < game.roundAge \/ game'.round # game.round
  \/ game.roundReset # Off /\ game'.roundReset = Off
  \/ game.mapReset # Off /\ game'.mapReset = Off

\* With tickets and no flags to drain them, whoever enters the fight in a frame
\* that restarts nothing costs his side a ticket it had, or it was his first
\* spawn: a wave stops with the last ticket and never takes more than it spawns.
ReinforcementsArePaid ==
  [][UsingTickets /\ Flags = {} /\ ~Restarted /\ AnyFrame =>
       \A t \in Playing :
         Cardinality({p \in Risen(t) : ~game.fresh[p]})
           = game.tickets[t] - game'.tickets[t]]_vars

\* With tickets nobody keeps his first-spawn allowance while he fights: the join,
\* the wave and the round restart all take it (m_bDontRemoveTicket).
AllowanceIsUsed ==
  UsingTickets => \A p \in Fighters(game) : ~(game.alive[p] /\ game.fresh[p])

Won(t) == game'.score[t] = game.score[t] + WinBonus

\* A full cap is won by a side that holds every flag that counts for it
\* (mp_winbonus; CountHeldFlags: "0 = normal, 1 = Americans Fullcap, 2 = Brits
\* Fullcap, 3 = No Fullcap.").
FullcapIsFull ==
  [][\A t \in Playing :
       respawnstyle = 1 /\ WinBonus > 0 /\ Won(t) /\ AnyFrame
         => Cappable(game, t) # {} /\ Cappable(game, t) \subseteq HeldBy(game, t)]_vars

\* A side that keeps all the flags gets the bonus: the check comes round again.
FullcapIsFound ==
  \A t \in Playing :
    Flags # {} /\ (\A f \in Flags : game.held[f] = t) ~>
      \/ game.over \/ \E f \in Flags : game.held[f] # t

\* What a side has left, to the part of a ticket, and what a drain leaves of it.
Worth(s, t) == s.tickets[t] * Parts - s.fraction[t]
Drained(s, t, parts) == IF Worth(s, t) > parts THEN Worth(s, t) - parts ELSE 0

\* A frame of a ticket round that neither restarts it nor spawns anybody.
DrainOnly ==
  UsingTickets /\ ~Restarted /\ (\A t \in Playing : Risen(t) = {}) /\ AnyFrame

\* What a drain may take of each side: the amount of its own variable, as in the
\* code, or that of its opponents', as in the help of the variables ("drained
\* every ten seconds when the americans have more than half").
Amounts == {Drain, [t \in Playing |-> Drain[Opponent(t)]]}

\* A drain takes a whole amount, decimals included, and only from a side whose
\* opponents have more than half of their flags ("Can have decimals"; RemoveTickets:
\* m_flTicketRemovalFraction carries the rest).  Which side mp_tickets_drain_a is
\* about is left open: any reading will do that is the same for both sides.
DrainIsExact ==
  [][(\E t \in Playing : Worth(game', t) # Worth(game, t)) /\ DrainOnly =>
       \E amount \in Amounts : \A t \in Playing :
         Worth(game', t) # Worth(game, t) =>
           /\ Dominates(game, Opponent(t))
           /\ Worth(game', t) = Drained(game, t, amount[t])]_vars

\* A match with tickets that somebody plays ends, without any command, time
\* limit or map input ("rounds are restarted until this or mp_timelimit").
MatchEnds == UsingTickets /\ <>[](Fighters(game) # {}) => <>game.over

Waiting(p) == UsingTickets /\ ~game.over /\ p \in Fighters(game) /\ ~game.alive[p]

\* With tickets, whoever dies enters the fight again if he stays, by a wave or the
\* next round.
NobodyWaitsForever == \A p \in Players : Waiting(p) ~> ~Waiting(p)

\* When one of two sides is wiped out the round starts anew: "restart rounds a few
\* seconds after the last person is killed".
WipedOut(t) ==
  /\ ~game.over /\ \A u \in Playing : game.list[u] # <<>>
  /\ Living(game, t) = {}

WipeoutRestarts == \A t \in Playing : WipedOut(t) ~> ~WipedOut(t)

\* A frame of the autobalance that moves somebody.
Rebalanced ==
  /\ \E p \in Players, t \in Playing :
       p \in Members(game, t) /\ p \in Members(game', Opponent(t))
  /\ AnyFrame

\* If the players stop joining and leaving, the autobalance comes to rest.
BalanceSettles ==
  <>[][~\E p \in Players : PlayerStep(p) /\ ~Killed(p)]_vars
    => <>[][~Rebalanced]_vars

=============================================================================
