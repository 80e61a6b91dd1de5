-------------------------------- MODULE Flood --------------------------------
(***************************************************************************)
(* Water on the map (Map::waterTick and Map::raiseWaterLevel in            *)
(* game/Map.cc, RocketSystem::receive in game/SimSystems.cc).              *)
(*                                                                         *)
(* Composed with the terrain: every action is one of Terrain's, together   *)
(* with what it does to the water, or what the water forbids.              *)
(*                                                                         *)
(* The water level is raised once, from 0, when the simulation is made     *)
(* (Sim.cc:11); the call that would raise it in the course of the game is  *)
(* commented out (SimState.cc:419).                                        *)
(***************************************************************************)
EXTENDS Terrain

CONSTANTS
  WaterLevel,   \* SimState::waterLevel
  Full,         \* Fixed(1), in units of water: as much as one level of ground
  Flow,         \* flowPerS * tickLengthS, in these units
  Spring        \* Fixed(4) * tickLengthS, likewise

ASSUME WaterLevelAssumption == WaterLevel \in Nat \ {0}
ASSUME WaterAssumption ==
  /\ Full \in Nat \ {0} /\ Flow \in Nat /\ Spring \in Nat

VARIABLES
  water,        \* on every point
  waterSource   \* points that are topped up

floodVars == <<vars, water, waterSource>>

\* Map::raiseWaterLevel makes the lowest points sources.
FloodInit ==
  /\ Init
  /\ water = [p \in Points |-> 0]
  /\ waterSource = {p \in Points : height[p] = 0}

\* GridPoint::usable asks for this too.
Dry(p) == water[p] = 0

FloodRaise(p, s) ==
  /\ Raise(p, s)
  /\ \A q \in Rectangle(p, s) : Dry(q)
  /\ UNCHANGED <<water, waterSource>>

FloodBuild(p) ==
  /\ Build(p)
  /\ \A q \in Site(p) : Dry(q)
  /\ UNCHANGED <<water, waterSource>>
-----------------------------------------------------------------------------
(* Map::waterTick, on the heights that Map::tick has just left behind.      *)

\* What waterTick visits for each point: its neighbours in the order of
\* Map::forNeighbors, then the point itself.
Offsets == << <<0, -1>>, <<0, 1>>, <<-1, 0>>, <<1, 0>>, <<-1, -1>>,
              <<-1, 1>>, <<1, -1>>, <<1, 1>>, <<0, 0>> >>

VisitCount == 9 * PointCount

Visit ==
  [i \in 1 .. VisitCount |->
     LET p == PointSeq[((i - 1) \div 9) + 1]
         o == Offsets[((i - 1) % 9) + 1]
     IN  <<p, <<p[1] + o[1], p[2] + o[2]>> >>]

\* Here and below, w is the water in the course of the loop.
Surface(w, p) == height'[p] * Full + w[p]

\* Fixed(waterLevel - height).  The difference is of unsigned numbers, but
\* comes out right, and below zero, when it is made an int.
Room(p) == WaterLevel * Full - height'[p] * Full

\* What flows from p to q: more the deeper the fall, up to one level of it.
Stream(w, p, q) ==
  LET fall == Min({Surface(w, p) - Surface(w, q), Full})
  IN  Min({(fall * Flow) \div Full, w[p]})

\* Mutant of FlowsTo: water is let go whatever the ground.
UphillFlowsTo(w, p, q) == w[p] > 0

FlowsTo(w, p, q) == w[p] > 0 /\ Surface(w, p) >= Surface(w, q)

\* Not all that leaves p is taken from it, and q takes no more than it has
\* room for.
Flowed(w, p, q) ==
  [w EXCEPT ![p] = w[p] - (Stream(w, p, q) * 6) \div 8,
            ![q] = Min({w[q] + Stream(w, p, q), Room(q)})]

\* Mutants of Sprung: a source fills over its room, or only when it is empty.
OverSprung(w, p) ==
  IF p \in waterSource /\ w[p] < Room(p)
    THEN [w EXCEPT ![p] = w[p] + Spring]
    ELSE w
DryOnlySprung(w, p) ==
  IF p \in waterSource /\ w[p] = 0 /\ height'[p] < WaterLevel
    THEN [w EXCEPT ![p] = Min({w[p] + Spring, Room(p)})]
    ELSE w

Sprung(w, p) ==
  IF p \in waterSource /\ height'[p] < WaterLevel /\ w[p] < Room(p)
    THEN [w EXCEPT ![p] = Min({w[p] + Spring, Room(p)})]
    ELSE w

\* What a visit of p that comes to q does to the water.
VisitOf(w, p, q) ==
  CASE p = q                                  -> Sprung(w, p)
    [] q \in Neighbors[p] /\ FlowsTo(w, p, q) -> Flowed(w, p, q)
    [] OTHER                                  -> w

Waters     == [Points -> Int]
Visited(i) == [w \in Waters |-> VisitOf(w, Visit[i][1], Visit[i][2])]

\* The water after the first i visits.
WaterLoop[i \in 0 .. VisitCount] ==
  IF i = 0 THEN water ELSE Visited(i)[WaterLoop[i - 1]]

FloodTick ==
  /\ MapTick
  /\ water' = WaterLoop[VisitCount]
  /\ UNCHANGED waterSource
-----------------------------------------------------------------------------
(* RocketSystem::receive takes water away, too. *)

\* Division by Fixed(a) / Fixed(b)
Divided(x, a, b) == (x * b) \div a

\* A neighbour of the hit is divided by 14/12 once, and by 13/12 once for
\* every neighbour there is: the inner loop goes around the hit again.  (Where
\* between the latter the former comes matters to nothing but the rounding.)
Splashed(x, n) ==
  LET divided[i \in 0 .. n] ==
        IF i = 0 THEN Divided(x, 14, 12) ELSE Divided(divided[i - 1], 13, 12)
  IN  divided[n]

FloodRocket(p) ==
  /\ RocketLands(p)
  /\ water' = [q \in Points |->
                 CASE q = p              -> Divided(water[q], 17, 12)
                   [] q \in Neighbors[p] ->
                        Splashed(water[q], Cardinality(Neighbors[p]))
                   [] OTHER              -> water[q]]
  /\ UNCHANGED waterSource

FloodNext ==
  \/ \E p \in Points, s \in Points : FloodRaise(p, s)
  \/ \E p \in Points : FloodBuild(p) \/ FloodRocket(p)
  \/ FloodTick

FloodSpec     == FloodInit /\ [][FloodNext]_floodVars
FairFloodSpec == FloodSpec /\ WF_floodVars(FloodTick)
-----------------------------------------------------------------------------
\* What waterTick promises (Map.cc:207, "Don't allow flooding above the global
\* water level"): a point that stands in water and has not been lifted with
\* it is below the level, with the water it holds.
NoneFlooded ==
  \A p \in Points :
    water[p] > 0 /\ p \notin risen
      => height[p] * Full + water[p] <= WaterLevel * Full

\* Each neighbour takes its share of what the ones before it have left over
\* (Map.cc:197-203), so no point gives more water than it has, and while no
\* ground has risen none gets less than it had by the cap on what it takes
\* (Map.cc:207).
NoDebt == risen = {} => \A p \in Points : water[p] >= 0

\* In the end every source stands full, however its neighbours draw on it,
\* when growth and rockets have ended.
SourcesFill ==
  <>[](\A p \in waterSource :
         height[p] < WaterLevel
           => water[p] = (WaterLevel - height[p]) * Full)

\* SimState.cc:67 refuses to build on a point for which usable() is false,
\* "Grid point is being used right now".  Then something is there: growth, a
\* building, or water.
RefusedPointsAreUsed ==
  \A p \in Points :
    ~ (Usable(p) /\ Dry(p))
      => growthTarget[p] # 0 \/ entity[p] # NoEntity \/ water[p] > 0
=============================================================================
