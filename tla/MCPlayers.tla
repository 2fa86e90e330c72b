------------------------------ MODULE MCPlayers ------------------------------
(***************************************************************************)
(* Instances of Players for TLC: a level with one point for each side and  *)
(* two that the map hands from side to side.                               *)
(***************************************************************************)
EXTENDS Players, TLC

CONSTANTS p1, p2

TwoClients == {p1, p2}
Exchangeable == Permutations(Clients)

BothBritish == [x \in MultiPoints |-> British]

\* A server that is small with one player has no officers, a bigger one a single
\* officer on each side.
OneOfficer ==
  [z \in Sizes |-> [t \in Playing |-> [c \in Classes |->
     IF c = "officer" THEN IF z = "sml" THEN 0 ELSE 1 ELSE -1]]]
=============================================================================
