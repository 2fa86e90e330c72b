------------------------------ MODULE MCCannon ------------------------------
(* Values for the constants of Cannon, for TLC.                            *)
EXTENDS Cannon

\* A cannon that never runs out, one of two balls, and one that stays.
SomeMaps ==
  {[ammo_count |-> -1, kept |-> FALSE], [ammo_count |-> 2, kept |-> FALSE],
   [ammo_count |-> 2, kept |-> TRUE]}
=============================================================================
