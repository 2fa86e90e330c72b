------------------------------- MODULE MCFlag -------------------------------
(***************************************************************************)
(* Instances of Flag for TLC: one flag with key values a mapper would    *)
(* give it.                                                                *)
(***************************************************************************)
EXTENDS Flag

\* A plain capture point of two ticks.
Plain ==
  [capturePlayers |-> 1, captureTime |-> 2, teamBonusInterval |-> 0,
   forTeam |-> 0, startingTeam |-> Unassigned, notUncappable |-> FALSE,
   uncapOnDeath |-> FALSE, startDisabled |-> FALSE, hasTrigger |-> FALSE]

Only(kv) == [f \in Flags |-> kv]

\* Two players take it, or all its side has; it is lost with the last of its
\* holders.
HillFlag == Only([Plain EXCEPT !.capturePlayers = 2, !.captureTime = 1,
                               !.uncapOnDeath = TRUE])

TriggerFlag == Only([Plain EXCEPT !.hasTrigger = TRUE])

\* The British start with a flag in a trigger that only the Americans may take;
\* it pays the British every other tick until then.
ReservedFlag ==
  Only([Plain EXCEPT !.hasTrigger = TRUE, !.startingTeam = British, !.forTeam = 1,
                     !.teamBonusInterval = 2])
=============================================================================
