---------------------------- MODULE Construction ----------------------------
(***************************************************************************)
(* Buildings and the blocks they are built from (game/SimComponents.hh,    *)
(* game/SimSystems.cc, the orders in game/SimState.cc).                    *)
(*                                                                         *)
(* A main building sends the blocks of the sites in its queue, one at a    *)
(* time; a block flies for a while, and lands on the site if that still    *)
(* stands.  Sites and main buildings may be destroyed, and main buildings  *)
(* flooded, in any tick: by what Terrain and Flood say of the ground.      *)
(*                                                                         *)
(* Places, owners and resources are left out: orders are accepted more     *)
(* often here than by the program.                                         *)
(***************************************************************************)
EXTENDS Integers, Sequences, FiniteSetsExt, SequencesExt

CONSTANTS
  MaxObjects,   \* bound: buildings in a game
  Players,      \* number of players: each has a finished main building
  Types,        \* BuildingType
  Main,         \* BUILDING_MAIN
  BlockCount,   \* blocks of each type; no two blocks of a type are equal, so
                \* they are named by their index
  MaxBlocks,    \* the most that a type has
  BuildSpeed,   \* MainBuilding::getBuildSpeed, in ticks
  MaxQueue,     \* bound: sites in a queue
  MaxFloods     \* bound: ticks in which main buildings are flooded or dry

Objects == 1 .. MaxObjects   \* ObjectId, in the order of creation
Block   == 1 .. MaxBlocks

ASSUME PlayersAssumption == MaxObjects \in Nat /\ Players \in 0 .. MaxObjects
ASSUME TypesAssumption ==
  /\ MaxBlocks \in Nat
  /\ Main \in Types /\ BlockCount \in [Types -> Block]
ASSUME BuildSpeedAssumption == BuildSpeed \in Nat

VARIABLES
  created,      \* SimState::entityCounter
  type,
  standing,     \* objects that exist
  finished,     \* those of them that are built
  placed,       \* Building::blocks: how many of each block are in place
  flying,       \* FlyingBlock: how many of each block are under way.  They
                \* are also the valid handles in Building::incomingBlocks
  buildQueue,   \* MainBuilding::buildQueue
  sinceLaunch,  \* ticks since MainBuilding::timeLastLaunch, up to BuildSpeed
  flooded,      \* objects whose corner point holds water
  floods,       \* how often that has changed
  dropped       \* history: sites that an order, or the end of a main
                \* building, has taken out of a queue

vars == <<created, type, standing, finished, placed, flying, buildQueue,
          sinceLaunch, flooded, floods, dropped>>

BlocksOf(o) == 1 .. BlockCount[type[o]]

Init ==
  /\ created = Players
  /\ type = [o \in Objects |-> Main]
  /\ standing = 1 .. Players /\ finished = standing
  /\ placed = [o \in Objects |->
                 [b \in Block |-> IF o \in finished /\ b \in BlocksOf(o)
                                    THEN 1 ELSE 0]]
  /\ flying = [o \in Objects |-> [b \in Block |-> 0]]
  /\ buildQueue = [o \in Objects |-> << >>]
  /\ sinceLaunch = [o \in Objects |-> 0]
  /\ flooded = {} /\ floods = 0
  /\ dropped = {}

\* Building::isUsable, of a main building that exists
Usable(m) == m \in finished /\ type[m] = Main /\ m \notin flooded
-----------------------------------------------------------------------------
(* Orders *)

\* Order::BUILD and SimState::addBuilding
Build(m, t) ==
  LET site == created + 1
  IN  /\ created < MaxObjects
      /\ Usable(m)
      /\ Len(buildQueue[m]) < MaxQueue
      /\ created' = site
      /\ type' = [type EXCEPT ![site] = t]
      /\ standing' = standing \cup {site}
      /\ buildQueue' = [buildQueue EXCEPT ![m] = Append(@, site)]
      /\ UNCHANGED <<finished, placed, flying, sinceLaunch, flooded, floods,
                     dropped>>

\* Mutant of ConstructValid: to a building that is finished, too.
ConstructAnyValid(m, o) == Usable(m) /\ o \in standing

\* SimState::isOrderValid.  The player who gives the order need not own either.
ConstructValid(m, o) == Usable(m) /\ o \in standing \ finished

\* Order::CONSTRUCT that queues
ConstructLater(m, o) ==
  /\ ConstructValid(m, o)
  /\ Len(buildQueue[m]) < MaxQueue
  /\ buildQueue' = [buildQueue EXCEPT ![m] = Append(@, o)]
  /\ dropped' = dropped \ {o}
  /\ UNCHANGED <<created, type, standing, finished, placed, flying,
                 sinceLaunch, flooded, floods>>

\* Order::CONSTRUCT that does not: MainBuilding::build
ConstructNow(m, o) ==
  /\ ConstructValid(m, o)
  /\ buildQueue' = [buildQueue EXCEPT ![m] = <<o>>]
  /\ dropped' = (dropped \cup Range(buildQueue[m])) \ {o}
  /\ UNCHANGED <<created, type, standing, finished, placed, flying,
                 sinceLaunch, flooded, floods>>
-----------------------------------------------------------------------------
(* FlyingObjectSystem and FlyingBlockSystem.  landed holds the flights that *)
(* end in this tick: which do depends on the distance.  Here s is what the  *)
(* flights land on, in the course of that: placed, finished.                *)

\* Mutant of Complete: only the last block counts.
LastComplete(blocks, o) == blocks[BlockCount[type[o]]] > 0

\* What Building::addBlock finishes a building by.
Complete(blocks, o) == \A b \in BlocksOf(o) : blocks[b] > 0

\* FlyingBlockSystem::receive, Building::addBlock.  A building that stands and
\* is not finished takes the block.
AddBlock(s, o, b) ==
  LET blocks == [s.placed[o] EXCEPT ![b] = @ + 1]
  IN  IF o \notin standing' \ s.finished
        THEN s
        ELSE [placed   |-> [s.placed EXCEPT ![o] = blocks],
              finished |-> s.finished \cup
                             (IF Complete(blocks, o) THEN {o} ELSE {})]

\* One flight after the other; what was destroyed has lost its blocks.
Landings(order) ==
  LET after[i \in 0 .. Len(order)] ==
        IF i = 0
          THEN [placed   |-> [o \in Objects |-> IF o \in standing'
                                THEN placed[o] ELSE [b \in Block |-> 0]],
                finished |-> finished \cap standing']
          ELSE AddBlock(after[i - 1], order[i][1], order[i][2])
  IN  after[Len(order)]

Land(landed) ==
  \E s \in {Landings(order) : order \in SetToSeqs(landed)} :
    placed' = s.placed /\ finished' = s.finished

Flights == {f \in Objects \X Block : flying[f[1]][f[2]] > 0}

\* Mutant of StillFlying: what lands ends the flight of every block to it.
CrashedFlying(landed) ==
  [o \in Objects |-> [b \in Block |->
     flying[o][b] - (IF \E f \in landed : f[1] = o THEN 1 ELSE 0)]]

\* The flights that have ended are destroyed.
StillFlying(landed) ==
  [o \in Objects |-> [b \in Block |->
     flying[o][b] - (IF <<o, b>> \in landed THEN 1 ELSE 0)]]
-----------------------------------------------------------------------------
(* MainBuildingSystem.  Here s is its state in the course of the loop over  *)
(* the main buildings: queue, flying, since.                                *)

\* Mutant of Needed: what is under way is sent again.
ImpatientNeeded(s, o) == {b \in BlocksOf(o) : placed'[o][b] = 0}

\* Building::isBlockNeeded
Needed(s, o) ==
  {b \in BlocksOf(o) : placed'[o][b] = 0 /\ s.flying[o][b] = 0}

\* Mutant of Done: a site is left when a block is under way to it.
HastyDone(s, o) ==
  \/ o \notin standing' \/ o \in finished'
  \/ \E b \in BlocksOf(o) : s.flying[o][b] > 0

\* Mutant of Done: a site that has been destroyed is built.
RuinDone(s, o) == o \in finished' \/ Needed(s, o) = {}

\* The front of the queue is invalid, finished, or lacks nothing.
Done(s, o) == o \notin standing' \/ o \in finished' \/ Needed(s, o) = {}

Launch(s, m, o) ==
  [s EXCEPT !.since[m] = 0, !.flying[o][Min(Needed(s, o))] = @ + 1]

\* What a main building m does in a tick.
Turn(s, m) ==
  LET o == Head(s.queue[m])
  IN  CASE ~ Usable(m)' \/ s.queue[m] = << >> -> s
        [] OTHER ->
             CASE Done(s, o)                -> [s EXCEPT !.queue[m] = Tail(@)]
               [] ~ Done(s, o) /\ s.since[m] >= BuildSpeed -> Launch(s, m, o)
               [] OTHER                     -> s

\* The loop, in some order of the objects: entities are visited in that of
\* their indices, which are used again when objects are destroyed.
Turns(order, start) ==
  LET after[i \in 0 .. Len(order)] ==
        IF i = 0 THEN start ELSE Turn(after[i - 1], order[i])
  IN  after[Len(order)]

MainBuildings == {m \in standing : type[m] = Main}

\* Map::tick, as far as objects are concerned: those in gone are destroyed,
\* with the queues of the main buildings among them.
Destroy(gone) ==
  /\ standing' = standing \ gone
  /\ dropped' = dropped \cup UNION {Range(buildQueue[m]) : m \in gone}

\* Map::waterTick: water stands on those in wet.
Soak(wet) ==
  /\ flooded' = wet
  /\ floods' = floods + (IF wet = flooded \cap standing' THEN 0 ELSE 1)
  /\ floods' <= MaxFloods

\* MainBuildingSystem::tick
SendBlocks(order, landed) ==
  LET s == Turns(order,
             [queue  |-> [m \in Objects |-> IF m \in standing'
                                              THEN buildQueue[m] ELSE << >>],
              flying |-> StillFlying(landed),
              since  |-> [m \in Objects |->
                            Min({sinceLaunch[m] + 1, BuildSpeed})]])
  IN  /\ buildQueue' = s.queue
      /\ flying' = s.flying
      /\ sinceLaunch' = s.since

\* Sim::runTick after the orders: the map, the water, the objects.
Tick(Landable) ==
  /\ UNCHANGED <<created, type>>
  /\ \E gone \in SUBSET standing : Destroy(gone)
  /\ \E wet \in SUBSET MainBuildings' : Soak(wet)
  /\ \E landed \in Landable :
       /\ Land(landed)
       /\ \E order \in SetToSeqs(MainBuildings') : SendBlocks(order, landed)

Next ==
  \/ \E m \in standing, t \in Types : Build(m, t)
  \/ \E m \in standing, o \in standing :
       ConstructLater(m, o) \/ ConstructNow(m, o)
  \/ Tick(SUBSET Flights)

Spec == Init /\ [][Next]_vars

\* While there are flights, some end: the progress of each grows in every
\* tick.  (That all of them end follows, as every block is sent once.)
FlightEnds == Flights # {} /\ Tick((SUBSET Flights) \ {{}})

FairSpec == Spec /\ WF_vars(Tick(SUBSET Flights)) /\ WF_vars(FlightEnds)
-----------------------------------------------------------------------------
TypeOK ==
  /\ created \in Nat /\ floods \in Nat
  /\ type \in [Objects -> Types]
  /\ standing \subseteq Objects /\ finished \subseteq standing
  /\ flooded \subseteq Objects /\ dropped \subseteq Objects
  /\ placed \in [Objects -> [Block -> Nat]]
  /\ flying \in [Objects -> [Block -> Nat]]
  /\ buildQueue \in [Objects -> Seq(Objects)]
  /\ sinceLaunch \in [Objects -> 0 .. BuildSpeed]

\* However many main buildings build a site, and however their queues and the
\* flights overlap: no block is sent while it is in place or under way.
NoBlockTwice ==
  \A o \in Objects, b \in Block : placed[o][b] + flying[o][b] <= 1

\* The assert of SimState::addFlyingBlock (SimState.cc:359): a main building
\* never sends a block to itself.  It is never in its own queue, which it could
\* only have come into before it was finished.
NoneBuildsItself ==
  \A m \in Objects : m \notin Range(buildQueue[m])

Queued(o) == \E m \in standing : o \in Range(buildQueue[m])

\* A site that no order and no destruction has taken out of a queue is not
\* forgotten: it is in one, or all it lacks is under way (a main building
\* lets go of a site as soon as it has sent the last block).
NotForgotten ==
  \A o \in standing \ (finished \cup dropped) :
    \/ Queued(o)
    \/ \A b \in BlocksOf(o) : placed[o][b] + flying[o][b] > 0

\* What was sent to a site arrives, while the site stands: also when other
\* blocks land in the same tick, or finish it.
NothingLost ==
  [][\A o \in standing \cap standing', b \in Block :
       placed'[o][b] + flying'[o][b] >= placed[o][b] + flying[o][b]]_vars

\* In the end every site is finished, unless it was dropped or waits for a
\* main building that stands in water.
BuiltInTheEnd ==
  <>[](\A o \in standing \ (finished \cup dropped) :
         \E m \in flooded : o \in Range(buildQueue[m]))
=============================================================================
