---------------------------- MODULE CapturePoint ----------------------------
(***************************************************************************)
(* What a capture point promises, without the clocks, lists and counters   *)
(* of CFlag: a point changes hands only by a siege of its full time, or by *)
(* decree of the map and the round.  Flag implements it (Flag!Field).      *)
(***************************************************************************)
EXTENDS Integers

CONSTANTS
  Points,         \* the capture points of the map
  Sides,          \* who may own one
  Nobody,         \* the owner of a neutral point
  SiegeTime,      \* how long a side has to hold the ground of each point
  Losable,        \* the points whose capture takes a whole siege
  LongestWait     \* bound on the time between two looks at a point

VARIABLES
  owner,          \* who owns each point
  siege,          \* how long each side has been seen alone and in force, or -1
  due             \* the time until somebody looks at the point again

vars == <<owner, siege, due>>

Nowhere == [t \in Sides |-> -1]

\* A siege as it stands once the side seen (if any) is found at the point.
Seen(s, side) == [t \in Sides |-> IF t # side THEN -1
                                  ELSE IF s[t] < 0 THEN 0 ELSE s[t]]

Longer(s, limit) == [t \in Sides |-> IF s[t] < 0 THEN -1
                                     ELSE IF s[t] < limit THEN s[t] + 1 ELSE s[t]]

Init ==
  /\ owner \in [Points -> Sides \cup {Nobody}]
  /\ siege = [p \in Points |-> Nowhere]
  /\ due = [p \in Points |-> 0]

LookAt(p, side) ==
  /\ siege' = [siege EXCEPT ![p] = Seen(@, side)]
  /\ \E d \in 1 .. LongestWait : due' = [due EXCEPT ![p] = d]

\* The point stays with its owner, becomes neutral, or falls to the side that is
\* there, which has then besieged a losable point for the whole time.
Look(p) ==
  /\ due[p] = 0
  /\ \E side \in Sides \cup {Nobody} :
       /\ LookAt(p, side)
       /\ \/ owner' \in {owner, [owner EXCEPT ![p] = Nobody]}
          \/ /\ side # Nobody
             /\ p \in Losable => Seen(siege[p], side)[side] >= SiegeTime[p]
             /\ owner' = [owner EXCEPT ![p] = side]

\* Time passes, up to the next look.
Pass ==
  /\ \A p \in Points : due[p] > 0
  /\ due' = [p \in Points |-> due[p] - 1]
  /\ siege' = [p \in Points |-> Longer(siege[p], SiegeTime[p])]
  /\ UNCHANGED owner

\* The map or the round hands points out; that ends no siege and is no look.
Decree ==
  /\ owner' \in [Points -> Sides \cup {Nobody}]
  /\ UNCHANGED <<siege, due>>

\* The map enables the point: neutral, and looked at at once.
Open(p) ==
  /\ owner' = [owner EXCEPT ![p] = Nobody]
  /\ \E side \in Sides \cup {Nobody} : LookAt(p, side)

Next ==
  \/ \E p \in Points : Look(p) \/ Open(p)
  \/ Pass
  \/ Decree

Spec == Init /\ [][Next]_vars
=============================================================================
