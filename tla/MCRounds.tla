------------------------------ MODULE MCRounds ------------------------------
(* Values for the constants of Rounds, for TLC.                            *)
EXTENDS Rounds

\* Two players; one for the full caps of the first style, and one on the fourth
\* style's server, where a match ends with the time limit and the console
\* restarts the map.
Sizes == [r \in Styles |-> IF r \in {1, 4} THEN 1 ELSE 2]
Limits == [r \in Styles |-> IF r = 4 THEN 2 ELSE 0]
AnyCommand ==
  [r \in Styles |-> IF r = 4 THEN {"restartmap"} ELSE {"restartround"}]
NoCommand == [r \in Styles |-> {}]

\* mp_tickets_a and mp_tickets_b.
OneTicket == [t \in Playing |-> 1]
MoreForTheBritish == [t \in Playing |-> IF t = British THEN 2 ELSE 1]

\* mp_tickets_drain_a and _b, in half tickets.
OtherDrain == [t \in Playing |-> IF t = Americans THEN 1 ELSE 3]
NoDrain == [t \in Playing |-> 0]

\* Maps without flags.
NoFlagsAtAll == [r \in Styles |-> {}]
NoKeys == [f \in {} |-> 0]

\* Waves are fought for three flags, the fourth style for two.
Battlefields ==
  [r \in Styles |-> CASE r = 1 -> {"hill", "mill", "ford"}
                      [] r = 4 -> {"hill", "mill"}
                      [] r \notin {1, 4} -> {}]

\* Their m_iFullCap and m_iForTeam: the ford counts for neither side's full cap.
Plain == [f \in AllFlags |-> 0]
FordUncounted == [f \in AllFlags |-> IF f = "ford" THEN 3 ELSE 0]
AllUnassigned == [f \in AllFlags |-> Unassigned]

OneSide == [r \in Styles |-> {Americans}]
JustDraws == [r \in Styles |-> IF r = 3 THEN {None} ELSE {}]
NoInputs == [r \in Styles |-> {}]
=============================================================================
