------------------------------- MODULE MCInput -------------------------------
(***************************************************************************)
(* An instance of Input for TLC.                                           *)
(***************************************************************************)
EXTENDS Input

CONSTANT Hut

BuildingTypes == {Main, Hut}

OneBlock == [t \in BuildingTypes |-> 1]
=============================================================================
