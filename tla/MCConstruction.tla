--------------------------- MODULE MCConstruction ---------------------------
(***************************************************************************)
(* Instances of Construction for TLC.                                      *)
(***************************************************************************)
EXTENDS Construction

CONSTANT Hut

BuildingTypes == {Main, Hut}

\* A main building of one block, a hut of two.
Counts == [t \in BuildingTypes |-> IF t = Main THEN 1 ELSE 2]
=============================================================================
