------------------------------- MODULE CtfFlag -------------------------------
(***************************************************************************)
(* Capture the flag: CtfFlag (game/server/bg2/ctfflag.cpp), the capture    *)
(* zones (CTriggerCTFCapture in game/server/hl2/hl2_triggers.cpp), and the *)
(* player events that reach them (hl2mp_player.cpp, hl2mp_gamerules.cpp).  *)
(*                                                                         *)
(* The map is a set of places: a player is near a flag when both are at    *)
(* the same place.  A flag on its stand (GetAbsOrigin() == FlagOrigin) is  *)
(* told from one that lies near the stand.  Deadlines are kept as the time *)
(* left, in units of the 0.125 s between two thinks.                       *)
(***************************************************************************)
EXTENDS Integers, FiniteSets

CONSTANTS
  MaxClients,     \* players sit in the client slots 1 .. MaxClients
  Flags,          \* the "ctf_flag" entities of the map
  ForTeam,        \* m_iForTeam: 0 anybody, 1 the British, 2 the Americans
  Stand,          \* the place of a flag's FlagOrigin
  Places,         \* where players walk
  Zones,          \* AffectedTeam of the capture zone at a place, NoZone
  Camp,           \* where the players of each side spawn
  Centre,         \* the origin of the map's coordinates, a place or nowhere
  CaptureStyles,  \* values of sv_ctf_capturestyle
  ReturnStyles,   \* values of sv_ctf_returnstyle
  ReturnTime,     \* m_fReturnTime
  Inputs,         \* inputs the map's logic sends to its flags
  IdlePeriod      \* think period of an inactive flag (1 s in the code)

Americans  == "americans"
British    == "british"
Unassigned == "unassigned"      \* TEAM_UNASSIGNED and TEAM_SPECTATOR
Gone       == "gone"            \* the slot has no client
Playing    == {Americans, British}

Players == 1 .. MaxClients
Nobody  == 0                    \* no parent
OnStand == "stand"
Camera  == "camera"             \* info_intermission, away from everything
NoZone  == -1

ASSUME ConstantsAssumption ==
  /\ MaxClients \in Nat /\ IsFiniteSet(Flags)
  /\ ForTeam \in [Flags -> 0 .. 2]
  /\ Stand \in [Flags -> Places]
  /\ Zones \in [Places -> {NoZone, 0, 1, 2}]
  /\ Camp \in [Playing -> Places]
  /\ CaptureStyles \subseteq Nat /\ ReturnStyles \subseteq Nat
  /\ ReturnTime \in Nat
  /\ Inputs \subseteq {"Reset", "Enable", "Disable", "Toggle"}
  /\ IdlePeriod \in Nat \ {0}
  /\ {OnStand, Camera} \cap Places = {} /\ Centre # Camera

VARIABLES
  team, alive,    \* m_iTeamNum and IsAlive() of the player in each slot
  place,          \* where the player is
  slowed,         \* slowed[p]: m_iSpeedModifier is not 0
  flag,           \* flag[f]: the members of CtfFlag, see FlagRecord
  scored,         \* scored[t]: flags for which this step paid the side t
  capturestyle, returnstyle

vars == <<team, alive, place, slowed, flag, scored, capturestyle, returnstyle>>

FlagRecord ==
  [active    : BOOLEAN,                         \* m_bActive
   parent    : Players \cup {Nobody},           \* GetParent()
   dropped   : BOOLEAN,                         \* m_bFlagIsDropped
   carried   : BOOLEAN,                         \* m_bIsCarried
   pos       : Places \cup {OnStand, Camera},   \* where it is without a parent
   returnIn  : -1 .. ReturnTime,                \* fReturnTime
   nextThink : 0 .. IdlePeriod]

TypeOK ==
  /\ team \in [Players -> Playing \cup {Unassigned, Gone}]
  /\ alive \in [Players -> BOOLEAN]
  /\ place \in [Players -> Places \cup {Camera}]
  /\ slowed \in [Players -> BOOLEAN]
  /\ flag \in [Flags -> FlagRecord]
  /\ scored \in [Playing -> 0 .. Cardinality(Flags)]
  /\ capturestyle \in CaptureStyles /\ returnstyle \in ReturnStyles

-----------------------------------------------------------------------------
(* Where a flag is and whose it is.                                        *)

\* iTeam: who may pick the flag up; Unassigned for everybody.
Team(f) == CASE ForTeam[f] = 0 -> Unassigned
             [] ForTeam[f] = 1 -> British
             [] ForTeam[f] = 2 -> Americans

\* Mutant of AtHome: a flag that lies somewhere counts as being at home.
NotCarried(r) == r.parent = Nobody

\* GetAbsOrigin() == FlagOrigin
AtHome(r) == r.parent = Nobody /\ r.pos = OnStand

\* A flag away from home that the side t is not the one to pick up.
HomeFlagTaken(flags, t) == \E f \in Flags : Team(f) # t /\ ~AtHome(flags[f])

\* GetLocalOrigin(): of a flag with a parent, an offset from it, which as a
\* point of the map is by the origin.
SearchPlace(f, r) ==
  CASE r.parent # Nobody -> Centre
    [] r.parent = Nobody /\ r.pos = OnStand -> Stand[f]
    [] r.parent = Nobody /\ r.pos # OnStand -> r.pos

-----------------------------------------------------------------------------
(* The methods of CtfFlag, from a flag's record to its new one.            *)

ResetFlag(r) == [r EXCEPT !.parent = Nobody, !.dropped = FALSE,
                          !.carried = FALSE, !.pos = OnStand]

ReturnFlag(r) == ResetFlag(r)

\* Mutant of DropFlag: the return time is not set.
DropFlagForGood(r) ==
  IF r.parent = Nobody THEN r
  ELSE [r EXCEPT !.parent = Nobody, !.pos = place[r.parent]]

DropFlag(r) ==
  IF r.parent = Nobody THEN r
  ELSE [r EXCEPT !.parent = Nobody, !.dropped = TRUE,
                 !.pos = place[r.parent], !.returnIn = ReturnTime]

InputReset(r) == IF AtHome(r) THEN r ELSE ReturnFlag(r)
InputEnable(r) == ReturnFlag([r EXCEPT !.active = TRUE])
InputDisable(r) == ReturnFlag([r EXCEPT !.active = FALSE])
InputToggle(r) == IF r.active THEN InputDisable(r) ELSE InputEnable(r)

\* Mutant of Found: players who may not carry the flag are passed over.
FoundByCarriers(f, s, p) ==
  /\ ~s.stop
  /\ place[p] = SearchPlace(f, s.flags[f])
  /\ alive[p] /\ Team(f) \in {Unassigned, team[p]}

\* The search in Think goes through the players in the order of their slots.
\* s holds all flags and modifiers, since a pick-up looks at every flag; stop
\* says that Think has returned.
Found(f, s, p) ==
  /\ ~s.stop
  /\ place[p] = SearchPlace(f, s.flags[f])
  /\ team[p] # Gone /\ alive[p]

MayCarry(f, p) == Team(f) \in {Unassigned, team[p]}

Touch(f, s, p) ==
  CASE ~MayCarry(f, p) ->
         IF returnstyle > 1 /\ s.flags[f].dropped
         THEN [s EXCEPT !.flags = [s.flags EXCEPT ![f] = ReturnFlag(@)]] ELSE s
    [] MayCarry(f, p) /\ capturestyle > 1 /\ HomeFlagTaken(s.flags, team[p]) ->
         [s EXCEPT !.stop = TRUE]
    [] MayCarry(f, p) /\ ~(capturestyle > 1 /\ HomeFlagTaken(s.flags, team[p])) ->
         [s EXCEPT !.flags = [s.flags EXCEPT ![f] =
                      [@ EXCEPT !.parent = p, !.carried = TRUE, !.dropped = FALSE]],
                   !.slow = s.slow \cup {p}]

\* Mutant of ReturnWhenDue: the test on sv_ctf_returnstyle that the code has
\* in a comment.
ReturnWhenDueInStyleOne(r) ==
  IF r.dropped /\ r.returnIn < 0 /\ returnstyle = 1 THEN ReturnFlag(r) ELSE r

ReturnWhenDue(r) == IF r.dropped /\ r.returnIn < 0 THEN ReturnFlag(r) ELSE r

Look(f, s, p) == IF Found(f, s, p) THEN Touch(f, s, p) ELSE s

Unsearched(flags) == [flags |-> flags, slow |-> {}, stop |-> FALSE]

\* What the search has made of the flags once it has looked at the first n slots.
Search(f, flags) ==
  LET upTo[n \in 0 .. MaxClients] ==
        IF n = 0 THEN Unsearched(flags) ELSE Look(f, upTo[n - 1], n)
  IN  upTo[MaxClients]

Think(f) ==
  LET r == flag[f]
      awake == [r EXCEPT !.nextThink = IF r.active THEN 1 ELSE IdlePeriod]
  IN  IF r.active /\ r.parent = Nobody
      THEN Search(f, [flag EXCEPT ![f] = ReturnWhenDue(awake)])
      ELSE [flags |-> [flag EXCEPT ![f] = awake], slow |-> {}, stop |-> TRUE]

-----------------------------------------------------------------------------
(* The actions: frames, map logic, players, the round, the console.        *)

NoScore == [t \in Playing |-> 0]
Slowed(ps) == [p \in Players |-> slowed[p] \/ p \in ps]
Carries(p) == {f \in Flags : flag[f].parent = p}

Spawned(f) ==
  [active |-> TRUE, parent |-> Nobody, dropped |-> FALSE, carried |-> FALSE,
   pos |-> OnStand, returnIn |-> 0, nextThink |-> 0]

Init ==
  /\ team = [p \in Players |-> Gone]
  /\ alive = [p \in Players |-> FALSE]
  /\ place = [p \in Players |-> Camera]
  /\ slowed = [p \in Players |-> FALSE]
  /\ \E disabled \in SUBSET Flags :
       flag = [f \in Flags |-> [Spawned(f) EXCEPT !.active = f \notin disabled]]
  /\ scored = NoScore
  /\ capturestyle \in CaptureStyles /\ returnstyle \in ReturnStyles

styleVars == <<capturestyle, returnstyle>>

\* Mutant of Wait: a return time long past keeps its distance.
WaitForever(n) == n - 1

Wait(n) == IF n < 0 THEN n ELSE n - 1

Tick ==
  /\ \A f \in Flags : flag[f].nextThink > 0
  /\ flag' = [f \in Flags |->
        [flag[f] EXCEPT !.nextThink = @ - 1,
                        !.returnIn = Wait(@)]]
  /\ scored' = NoScore
  /\ UNCHANGED <<team, alive, place, slowed, styleVars>>

FlagThink(f) ==
  /\ flag[f].nextThink = 0
  /\ flag' = Think(f).flags
  /\ slowed' = Slowed(Think(f).slow)
  /\ scored' = NoScore
  /\ UNCHANGED <<team, alive, place, styleVars>>

FlagInput(f) ==
  /\ \/ "Reset" \in Inputs /\ flag' = [flag EXCEPT ![f] = InputReset(@)]
     \/ "Enable" \in Inputs /\ flag' = [flag EXCEPT ![f] = InputEnable(@)]
     \/ "Disable" \in Inputs /\ flag' = [flag EXCEPT ![f] = InputDisable(@)]
     \/ "Toggle" \in Inputs /\ flag' = [flag EXCEPT ![f] = InputToggle(@)]
  /\ scored' = NoScore
  /\ UNCHANGED <<team, alive, place, slowed, styleVars>>

ZoneTeam(x, t) == CASE Zones[x] = 0 -> t
                    [] Zones[x] = 1 -> British
                    [] Zones[x] = 2 -> Americans
                    [] Zones[x] = NoZone -> Unassigned

\* The touch of a capture zone counts.
Captures(p, x) ==
  /\ Carries(p) # {}
  /\ ZoneTeam(x, team[p]) = team[p]
  /\ ~(capturestyle > 1 /\ HomeFlagTaken(flag, team[p]))

\* Mutant of AfterCapture: the capturer stays slow.
StillSlow(p) == slowed

AfterCapture(p) == [slowed EXCEPT ![p] = FALSE]

\* A living player walks to x, and touches the capture zone that is there.
Walk(p, x) ==
  /\ alive[p] /\ team[p] \in Playing /\ x # place[p]
  /\ place' = [place EXCEPT ![p] = x]
  /\ IF Captures(p, x)
     THEN /\ flag' = [f \in Flags |-> IF f \in Carries(p) THEN ResetFlag(flag[f])
                                      ELSE flag[f]]
          /\ scored' = [NoScore EXCEPT ![team[p]] = Cardinality(Carries(p))]
          /\ slowed' = AfterCapture(p)
     ELSE /\ scored' = NoScore
          /\ UNCHANGED <<flag, slowed>>
  /\ UNCHANGED <<team, alive, styleVars>>

\* Mutant of RemoveSelfFromFlags: the flags stay with the player.
KeepFlags(p) == flag

RemoveSelfFromFlags(p) ==
  [f \in Flags |-> IF f \in Carries(p) THEN DropFlag(flag[f]) ELSE flag[f]]

ClientConnect(p) ==
  /\ team[p] = Gone
  /\ team' = [team EXCEPT ![p] = Unassigned]
  /\ alive' = [alive EXCEPT ![p] = TRUE]
  /\ place' = [place EXCEPT ![p] = Camera]
  /\ slowed' = [slowed EXCEPT ![p] = FALSE]
  /\ scored' = NoScore
  /\ UNCHANGED <<flag, styleVars>>

ChangeTeam(p, t) ==
  /\ team[p] \notin {Gone, t}
  /\ flag' = RemoveSelfFromFlags(p)
  /\ team' = [team EXCEPT ![p] = t]
  /\ alive' = [alive EXCEPT ![p] = FALSE]
  /\ scored' = NoScore
  /\ UNCHANGED <<place, slowed, styleVars>>

EventKilled(p) ==
  /\ alive[p]
  /\ flag' = RemoveSelfFromFlags(p)
  /\ alive' = [alive EXCEPT ![p] = FALSE]
  /\ scored' = NoScore
  /\ UNCHANGED <<team, place, slowed, styleVars>>

Respawn(p) ==
  /\ ~alive[p] /\ team[p] \in Playing
  /\ alive' = [alive EXCEPT ![p] = TRUE]
  /\ place' = [place EXCEPT ![p] = Camp[team[p]]]
  /\ slowed' = [slowed EXCEPT ![p] = FALSE]
  /\ scored' = NoScore
  /\ UNCHANGED <<team, flag, styleVars>>

Opponent(t) == IF t = Americans THEN British ELSE Americans
OnASide(p) == team[p] \in Playing

\* ResetFlags, SwapTeams (nobody carries a flag any more), RespawnAll.
RestartRound(swapTeams) ==
  /\ flag' = [f \in Flags |-> ResetFlag(flag[f])]
  /\ team' = [p \in Players |-> IF swapTeams /\ OnASide(p)
                                 THEN Opponent(team[p]) ELSE team[p]]
  /\ alive' = [p \in Players |-> alive[p] \/ OnASide(p)]
  /\ place' = [p \in Players |-> IF OnASide(p) THEN Camp[team'[p]] ELSE place[p]]
  /\ slowed' = [p \in Players |-> slowed[p] /\ ~OnASide(p)]
  /\ scored' = NoScore
  /\ UNCHANGED styleVars

ClientDisconnect(p) ==
  /\ team[p] # Gone
  /\ flag' = RemoveSelfFromFlags(p)
  /\ team' = [team EXCEPT ![p] = Gone]
  /\ alive' = [alive EXCEPT ![p] = FALSE]
  /\ scored' = NoScore
  /\ UNCHANGED <<place, slowed, styleVars>>

SetStyles ==
  /\ capturestyle' \in CaptureStyles /\ returnstyle' \in ReturnStyles
  /\ styleVars' # styleVars
  /\ scored' = NoScore
  /\ UNCHANGED <<team, alive, place, slowed, flag>>

PlayerStep(p) ==
  \/ \E x \in Places : Walk(p, x)
  \/ ClientConnect(p)
  \/ \E t \in Playing \cup {Unassigned} : ChangeTeam(p, t)
  \/ EventKilled(p)
  \/ Respawn(p)
  \/ ClientDisconnect(p)

Next ==
  \/ Tick
  \/ \E f \in Flags : FlagThink(f) \/ FlagInput(f)
  \/ \E p \in Players : PlayerStep(p)
  \/ \E swapTeams \in BOOLEAN : RestartRound(swapTeams)
  \/ SetStyles

\* Frames and due thinks happen; players, map logic and the console owe nothing.
Fairness == WF_vars(Tick) /\ \A f \in Flags : WF_vars(FlagThink(f))

Spec == Init /\ [][Next]_vars
FairSpec == Spec /\ Fairness

-----------------------------------------------------------------------------
(* Properties.                                                             *)

\* A flag is only ever on the back of a living player who may carry it: death,
\* a change of team, a disconnect, a swap of the sides, an input to the flag
\* all part them (RemoveSelfFromFlags, ReturnFlag, ResetFlag).
CarriedByTheLiving ==
  \A f \in Flags : flag[f].parent # Nobody =>
    LET p == flag[f].parent
    IN  /\ flag[f].active /\ alive[p]
        /\ CASE ForTeam[f] = 0 -> team[p] \in Playing
             [] ForTeam[f] = 1 -> team[p] = British
             [] ForTeam[f] = 2 -> team[p] = Americans

\* No flag is lost: one that is neither carried nor on its stand waits for its
\* return time, and one that is on its stand is not waiting (DropFlag, Think).
NothingLost ==
  \A f \in Flags : flag[f].parent = Nobody =>
                     (flag[f].pos # OnStand <=> flag[f].dropped)

\* The speed modifier of a living player is there for the flag he carries
\* ("temporary speed modifiers (carrying flags and such)", hl2mp_player.h).
OnlyCarriersAreSlow ==
  \A p \in Players : alive[p] /\ slowed[p] => Carries(p) # {}

\* With sv_ctf_capturestyle 2 from the start, the sides never hold each other's
\* flag hostage: a flag of one side is away only while those of the other are
\* all at home ("will not allow you to pick up a flag if your own is not at
\* home"), also when there are neutral flags beside them.
OneFlagAway ==
  CaptureStyles \subseteq {2} =>
    \A f, g \in {h \in Flags : ForTeam[h] # 0} :
      /\ flag[f].parent # Nobody \/ flag[f].pos # OnStand
      /\ flag[g].parent # Nobody \/ flag[g].pos # OnStand
      => ForTeam[f] = ForTeam[g]

\* With sv_ctf_returnstyle 2, a dropped flag that only its own side stands at
\* does not stay on the ground ("will allow teams to return their own flags
\* when they touch them").
TouchReturns ==
  [][\A f \in Flags :
       LET near == {p \in Players : alive[p] /\ place[p] = flag[f].pos}
       IN  /\ FlagThink(f) /\ flag[f].dropped /\ returnstyle > 1
           /\ near # {} /\ \A p \in near : ~MayCarry(f, p)
           => ~flag'[f].dropped]_vars

\* A dropped flag does not lie there for ever: somebody takes it or it returns.
DroppedComesHome == \A f \in Flags : flag[f].dropped ~> ~flag[f].dropped

=============================================================================
