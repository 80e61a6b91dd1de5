------------------------------ MODULE Terrain ------------------------------
(***************************************************************************)
(* The growth of the map (game/Map.cc), and what changes it: orders to     *)
(* raise a rectangle, rockets that land, and buildings, which growth       *)
(* destroys (game/SimState.cc, game/SimSystems.cc).                        *)
(*                                                                         *)
(* A point grows or sinks level by level toward its target.  When it       *)
(* passes a level it takes those of its neighbours along that would be     *)
(* left more than one level behind.                                        *)
(*                                                                         *)
(* The order of a tick is that of Sim::runTick: the orders, Map::tick,     *)
(* then the objects, whose rockets land.  Water, which also makes a point  *)
(* unusable, is added in Flood, and the trees of the start, which stand    *)
(* on single points until those grow, are left out: orders are accepted    *)
(* more often here.                                                        *)
(***************************************************************************)
EXTENDS Integers, Sequences, FiniteSetsExt

CONSTANTS
  SizeX, SizeY,   \* size of the map
  Landscapes,     \* the maps that may be generated: heights of its points
  NoEntity,       \* the entity of a point that no building covers
  BuildingSize,   \* BuildingTypeInfo::size in x and y, of one building type
  Level,          \* Fixed(1), in units of growth
  RaiseSpeed,     \* Fixed(1) * tickLengthS, in these units
  CraterSpeed,    \* Fixed(8) * tickLengthS, likewise
  MaxRaises,      \* bound: orders to raise
  MaxRockets,     \* bound: rockets that land
  MaxBuildings    \* bound: buildings

Points == (0 .. SizeX - 1) \X (0 .. SizeY - 1)

ASSUME SizeAssumption == SizeX \in Nat \ {0} /\ SizeY \in Nat \ {0}
ASSUME LandscapesAssumption == Landscapes \subseteq [Points -> Nat]
ASSUME SpeedAssumption ==
  /\ Level \in Nat
  /\ RaiseSpeed \in 1..Level /\ CraterSpeed \in 1..Level
ASSUME NoEntityAssumption == NoEntity \notin Points
ASSUME BuildingSizeAssumption == BuildingSize \in (Nat \ {0}) \X (Nat \ {0})

VARIABLES
  \* ---- GridPoint ----
  height,
  growthTarget,    \* levels still to grow, negative if the point is to sink
  growthProgress,
  growthPerTick,   \* growthPerS * tickLengthS
  entity,          \* the building that covers the point, named by the point
                   \* it was placed at
  positionZ,       \* Building::position.z, of the building placed at the point
  \* ---- Map ----
  growingPoints,
  landing,         \* is the tick past Map::tick, where objects land?
  \* ---- history and bounds ----
  risen,           \* points that have passed a level upward
  raises, rockets, buildings

ground  == <<height, growthTarget, growthProgress, growthPerTick,
             growingPoints, risen>>
vars    == <<ground, entity, positionZ, landing, raises, rockets, buildings>>

Init ==
  /\ height \in Landscapes
  /\ growthTarget = [p \in Points |-> 0]
  /\ growthProgress = [p \in Points |-> 0]
  /\ growthPerTick = [p \in Points |-> 0]
  /\ entity = [p \in Points |-> NoEntity]
  /\ positionZ = [p \in Points |-> 0]
  /\ growingPoints = {}
  /\ landing = FALSE
  /\ risen = {}
  /\ raises = 0 /\ rockets = 0 /\ buildings = 0
-----------------------------------------------------------------------------
(* Map and GridPoint *)

\* Map::forNeighbors visits all eight.
Neighbors ==
  [p \in Points |-> {q \in Points \ {p} : /\ q[1] - p[1] \in -1..1
                                         /\ q[2] - p[2] \in -1..1}]

\* Map::forRectangle includes the far edges.
Rectangle(p, s) ==
  {q \in Points : q[1] \in p[1]..(p[1] + s[1]) /\ q[2] \in p[2]..(p[2] + s[2])}

IsRectangle(p, s) == <<p[1] + s[1], p[2] + s[2]>> \in Points

\* Map::PosLess, which is also the order in which forRectangle visits points.
PosLess(p, q) == p[1] < q[1] \/ (p[1] = q[1] /\ p[2] < q[2])

\* All points in this order.
PointCount == SizeX * SizeY
PointSeq ==
  [i \in 1 .. PointCount |-> <<(i - 1) \div SizeY, (i - 1) % SizeY>>]

\* The assert of GridPoint::usable, and what it returns.  A program whose
\* assert fails ends; the model does not take the step.
StoppedClean(p) == growthTarget[p] # 0 \/ growthProgress[p] = 0
Usable(p)       == growthTarget[p] = 0 /\ entity[p] = NoEntity
-----------------------------------------------------------------------------
(* Orders *)

\* allMaxHeight holds when no point is lower than one visited before it: of
\* an even rectangle, but also of one that ascends in the order of visit.
AllMaxHeight(rect) ==
  \A p, q \in rect : PosLess(p, q) => height[p] <= height[q]

RaisedTo(rect) ==
  Max({height[p] : p \in rect}) + (IF AllMaxHeight(rect) THEN 1 ELSE 0)

\* Order::RAISE_MAP: SimState::isOrderValid and Map::raise
Raise(p, s) ==
  LET rect == Rectangle(p, s)
      top  == RaisedTo(rect)
  IN  /\ raises < MaxRaises
      /\ IsRectangle(p, s)
      /\ \A q \in rect : StoppedClean(q) /\ Usable(q)
      /\ growthTarget' = [q \in Points |-> IF q \in rect
                                             THEN top - height[q]
                                             ELSE growthTarget[q]]
      /\ growthPerTick' = [q \in Points |-> IF q \in rect
                                              THEN RaiseSpeed
                                              ELSE growthPerTick[q]]
      /\ growingPoints' = growingPoints \cup rect
      /\ landing' = FALSE
      /\ raises' = raises + 1
      /\ UNCHANGED <<height, growthProgress, entity, positionZ, risen, rockets,
                     buildings>>

\* The points SimState::canPlaceBuilding looks at: there is a margin on the
\* near sides, cut off at the edge of the map.
Site(p) ==
  LET near == <<Max({p[1] - 1, 0}), Max({p[2] - 1, 0})>>
  IN  Rectangle(near, <<p[1] + BuildingSize[1] - near[1],
                        p[2] + BuildingSize[2] - near[2]>>)

CanPlaceBuilding(p) ==
  /\ IsRectangle(p, BuildingSize)
  /\ \A q \in Site(p) :
       height[q] = height[p] /\ StoppedClean(q) /\ Usable(q)

\* Order::BUILD, and SimState::addBuilding
Build(p) ==
  /\ buildings < MaxBuildings
  /\ CanPlaceBuilding(p)
  /\ entity' = [q \in Points |-> IF q \in Rectangle(p, BuildingSize)
                                   THEN p ELSE entity[q]]
  /\ positionZ' = [positionZ EXCEPT ![p] = height[p]]
  /\ landing' = FALSE
  /\ buildings' = buildings + 1
  /\ UNCHANGED <<ground, raises, rockets>>
-----------------------------------------------------------------------------
(* Map::tick *)

\* Mutant of Grows: a point stops a step before its level.
HaltedGrows(p) ==
  /\ p \in growingPoints
  /\ growthTarget[p] # 0
  /\ growthProgress[p] + growthPerTick[p] < Level

\* The points that grow in this tick; the others leave growingPoints.
Grows(p) == p \in growingPoints /\ growthTarget[p] # 0 /\ growthProgress[p] < Level
Growing  == {p \in Points : Grows(p)}

\* Those that pass a level, upward or downward.
Passes(p) == Grows(p) /\ growthProgress[p] + growthPerTick[p] >= Level
Rises(p)  == Passes(p) /\ growthTarget[p] > 0
Falls(p)  == Passes(p) /\ growthTarget[p] < 0 /\ height[p] > 0

\* The first loop: a point's height, target and progress after it.
HeightAfter(p) ==
  height[p] + (IF Rises(p) THEN 1 ELSE 0) - (IF Falls(p) THEN 1 ELSE 0)

TargetAfter(p) ==
  growthTarget[p] - (IF Rises(p) THEN 1 ELSE 0) + (IF Falls(p) THEN 1 ELSE 0)

\* Mutants of ProgressAfter: it goes on across levels, and what is over from
\* the last one is kept.
RunawayProgressAfter(p) ==
  IF Passes(p) /\ TargetAfter(p) = 0
    THEN 0
    ELSE growthProgress[p] + growthPerTick[p]

KeptProgressAfter(p) ==
  growthProgress[p] + growthPerTick[p] - (IF Passes(p) THEN Level ELSE 0)

\* Progress is dropped when the target is reached.
ProgressAfter(p) ==
  IF Passes(p) /\ TargetAfter(p) = 0
    THEN 0
    ELSE growthProgress[p] + growthPerTick[p] - (IF Passes(p) THEN Level ELSE 0)

\* Mutant of Replan: the neighbours are not made to grow.
SilentReplan(g, p, ns, h) ==
  [g EXCEPT
     !.target = [n \in Points |-> IF n \in ns THEN h - g.height[n]
                                             ELSE g.target[n]],
     !.speed  = [n \in Points |-> IF n \in ns THEN g.speed[p]
                                             ELSE g.speed[n]]]

\* Neighbours ns of p are to end at height h, at the speed of p.  Here and
\* below, g is the growth in the course of the second loop.
Replan(g, p, ns, h) ==
  [g EXCEPT
     !.target  = [n \in Points |-> IF n \in ns THEN h - g.height[n]
                                              ELSE g.target[n]],
     !.speed   = [n \in Points |-> IF n \in ns THEN g.speed[p]
                                              ELSE g.speed[n]],
     !.growing = g.growing \cup ns]

\* The height n will have when it has grown.
Planned(g, n) == g.height[n] + g.target[n]

\* Mutant of CascadeUp: one level more may be left.
SteepCascadeUp(g, p) ==
  Replan(g, p, {n \in Neighbors[p] : Planned(g, n) + 2 < g.height[p]},
         g.height[p] - 1)

\* Another one, with the sign of CascadeDown.
LoftyCascadeUp(g, p) ==
  Replan(g, p, {n \in Neighbors[p] : Planned(g, n) + 1 < g.height[p]},
         g.height[p] + 1)

CascadeUp(g, p) ==
  Replan(g, p, {n \in Neighbors[p] : Planned(g, n) + 1 < g.height[p]},
         g.height[p] - 1)

CascadeDown(g, p) ==
  Replan(g, p, {n \in Neighbors[p] : Planned(g, n) > g.height[p] + 1},
         g.height[p] + 1)

Cascade(g, p) ==
  CASE p \in g.up   -> CascadeUp(g, p)
    [] p \in g.down -> CascadeDown(g, p)
    [] OTHER        -> g

\* The growth after the first loop.  The points that have passed a level are
\* flagged growthCascadeUp or growthCascadeDown.
FirstLoop ==
  [height  |-> [p \in Points |-> HeightAfter(p)],
   target  |-> [p \in Points |-> TargetAfter(p)],
   speed   |-> growthPerTick,
   growing |-> Growing,
   up      |-> {p \in Points : Rises(p)},
   down    |-> {p \in Points : Falls(p)}]

\* The second loop, in the order of growingPoints: the growth after the first
\* i points.  Points that are not flagged, like those that the loop itself
\* adds to growingPoints, take nothing along.
SecondLoop[i \in 0 .. PointCount] ==
  IF i = 0 THEN FirstLoop ELSE Cascade(SecondLoop[i - 1], PointSeq[i])

\* Mutant of Destroyed: only what rises destroys.
Lifted == {entity[p] : p \in {q \in Growing : growthTarget[q] > 0}}

\* The buildings that growth destroys, whole.
Destroyed == {entity[p] : p \in Growing}

MapTick ==
  /\ LET g == SecondLoop[PointCount]
     IN  /\ height' = g.height
         /\ growthTarget' = g.target
         /\ growthPerTick' = g.speed
         /\ growingPoints' = g.growing
         /\ risen' = risen \cup g.up
  /\ growthProgress' = [p \in Points |-> IF Grows(p) THEN ProgressAfter(p)
                                                    ELSE growthProgress[p]]
  /\ entity' = LET gone == Destroyed
               IN  [p \in Points |-> IF entity[p] \in gone THEN NoEntity
                                                           ELSE entity[p]]
  /\ landing' = TRUE
  /\ UNCHANGED <<positionZ, raises, rockets, buildings>>
-----------------------------------------------------------------------------
(* Rockets.  One may land anywhere: orders miss, and the tower that was     *)
(* ordered to fire may stand far away.                                      *)

\* Mutant of CraterTarget: a crater has its depth on any ground.
BottomlessTarget(p, depth) == -depth

CraterTarget(p, depth) == -Min({height[p], depth})

\* RocketSystem::receive: Map::crater here and, less deep, around.
RocketLands(p) ==
  LET depth(q) == IF q = p THEN 2 ELSE 1
      hit == {p} \cup Neighbors[p]
  IN  /\ rockets < MaxRockets
      /\ landing
      /\ growthTarget' = [q \in Points |-> IF q \in hit
                                             THEN CraterTarget(q, depth(q))
                                             ELSE growthTarget[q]]
      /\ growthPerTick' = [q \in Points |-> IF q \in hit THEN CraterSpeed
                                                         ELSE growthPerTick[q]]
      /\ growingPoints' = growingPoints \cup hit
      /\ rockets' = rockets + 1
      /\ UNCHANGED <<height, growthProgress, entity, positionZ, landing, risen,
                     raises, buildings>>

Next ==
  \/ \E p \in Points, s \in Points : Raise(p, s)
  \/ \E p \in Points : Build(p) \/ RocketLands(p)
  \/ MapTick

Spec     == Init /\ [][Next]_vars
FairSpec == Spec /\ WF_vars(MapTick)
-----------------------------------------------------------------------------
MapTypeOK ==
  /\ height \in [Points -> Nat]
  /\ growthTarget \in [Points -> Int]
  /\ growthProgress \in [Points -> 0 .. Level - 1]
  /\ growthPerTick \in [Points -> {0, RaiseSpeed, CraterSpeed}]
  /\ entity \in [Points -> Points \cup {NoEntity}]
  /\ positionZ \in [Points -> Nat]
  /\ growingPoints \subseteq Points /\ risen \subseteq Points
  /\ landing \in BOOLEAN
  /\ raises \in Nat /\ rockets \in Nat /\ buildings \in Nat

\* The assert of Map::tick (Map.cc:95): nothing is to sink below zero, in
\* whatever order craters, raisings and cascades of both kinds change the
\* targets.  It is also what keeps the unsigned arithmetic of the cascades
\* (Map.cc:142 and :156) from wrapping.
NeverBelowZero == \A p \in Points : height[p] + growthTarget[p] >= 0

\* A point that has a target is grown by the next tick: it is never dropped
\* from growingPoints, by the loop that erases while it iterates or because
\* its progress is past the level.
NoneForgotten ==
  \A p \in Points : growthTarget[p] # 0 => Grows(p)

\* The height in a building's position, read when it was placed and kept
\* (SimState.cc:299), is that of every point the building covers, as long as
\* it stands: what rises or sinks under it, by a cascade or a crater from
\* elsewhere, is never left with it.
StandsLevel ==
  \A q \in Points : entity[q] # NoEntity => height[q] = positionZ[entity[q]]

\* The assert of GridPoint::usable (Map.hh:44), which every order to build
\* or raise evaluates: a point that does not grow has no progress left.
StopsClean == \A p \in Points : StoppedClean(p)

\* Where no rocket has landed, it holds.
RaisingStopsClean == rockets = 0 => StopsClean

\* While no rocket has landed, a point that has risen leaves no neighbour
\* more than one level behind (Map.cc:143), counting what that one has still
\* to grow; so when all growth has ended, no such step is left.
NoneLeftBehind ==
  rockets = 0 => \A p \in risen : \A n \in Neighbors[p] :
    height[p] <= height[n] + growthTarget[n] + 1

\* No point rises, or is planned to rise, above what is the highest of all or
\* is planned to be, but by an order, and then by one level (Map.cc:78):
\* cascades that meet, or craters and growth that was under way, never add up
\* to more (Map.cc:144).
Reached(h) ==
  \E q \in Points : h <= height[q] \/ h <= height[q] + growthTarget[q]

RisesByOrdersOnly ==
  [][\A p \in Points :
       LET ordered == raises' - raises
       IN  /\ Reached(height'[p] - ordered)
           /\ Reached(height'[p] + growthTarget'[p] - ordered)]_vars

\* Growth ends, also where cascades upward and downward meet.
Settled == \A p \in Points : growthTarget[p] = 0
Settles == <>[]Settled

\* What the cascades are for (Map.cc:143 and :157, "so that the height
\* difference is at most 1"): where a step was not there at the start, there
\* is none when growth has ended.
NoSteps ==
  Settled => \A p \in risen : \A n \in Neighbors[p] :
               height[p] - height[n] <= 1
=============================================================================
