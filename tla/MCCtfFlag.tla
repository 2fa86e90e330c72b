------------------------------ MODULE MCCtfFlag ------------------------------
(***************************************************************************)
(* Instances of CtfFlag for TLC: one flag for each side on the two stands  *)
(* of a small map, or a single neutral one.                                *)
(***************************************************************************)
EXTENDS CtfFlag

\* The flag "red" is the British one, which the Americans carry off, and "blue"
\* the American one; each side brings what it takes to its own stand.
TwoFlags == [f \in Flags |-> IF f = "red" THEN 2 ELSE 1]
TwoStands == [f \in Flags |-> IF f = "red" THEN "fort" ELSE "village"]
HomeZones == [x \in Places |-> CASE x = "fort" -> 1
                                 [] x = "village" -> 2
                                 [] x \notin {"fort", "village"} -> NoZone]

\* Anybody carries the flag to the fort, where anybody scores with it.
OneFlag == [f \in Flags |-> 0]
OneStand == [f \in Flags |-> "village"]
OneZone == [x \in Places |-> IF x = "fort" THEN 0 ELSE NoZone]

Camps == [t \in Playing |-> "camp"]
=============================================================================
