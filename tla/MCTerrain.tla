----------------------------- MODULE MCTerrain -----------------------------
(***************************************************************************)
(* Instances of Flood, and of the terrain it floods, for TLC: small maps.  *)
(***************************************************************************)
EXTENDS Flood

\* All maps with heights up to 2, whose lowest points have height zero.
Hills == {h \in [Points -> 0..2] : \E p \in Points : h[p] = 0}

\* Maps that only slope in the first coordinate, and end no higher than they
\* begin.
Slopes == {h \in Hills :
             \A p, q \in Points : p[1] = q[1] \/ (p[1] = 0 /\ q[1] = SizeX - 1)
                                   => h[p] >= h[q]}

Hut == <<1, 1>>
=============================================================================
