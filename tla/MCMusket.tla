------------------------------ MODULE MCMusket ------------------------------
(***************************************************************************)
(* An instance of Musket for TLC: the equipment of an infantryman, of a    *)
(* rifleman and of an officer.                                             *)
(***************************************************************************)
EXTENDS Musket

WithBayonet == [bayonet |-> TRUE, sights |-> TRUE, steady |-> TRUE,
                blade |-> FALSE, leaves |-> FALSE]
Rifle  == [bayonet |-> FALSE, sights |-> TRUE, steady |-> TRUE,
           blade |-> TRUE, leaves |-> FALSE]
Pistol == [bayonet |-> FALSE, sights |-> FALSE, steady |-> FALSE,
           blade |-> TRUE, leaves |-> TRUE]
Equipment == {WithBayonet, Rifle, Pistol}
=============================================================================
