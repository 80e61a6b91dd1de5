# strat: a verification project

strat is a networked real-time strategy game. One server process and the
clients of all players run a *lockstep* protocol: the server collects the
players' orders, broadcasts them in numbered ticks, and every client runs the
same ticks in its own copy of the simulation. This directory holds TLA+
models of the program's logic, the TLC runs that check them on small
instances, and TLAPS proofs for all instances.

Paths such as `server/Server.cc` are relative to the repository.

## The system

| Component | Source | State | Operations | Models |
|---|---|---|---|---|
| game server | `server/Server.cc` | the clients with `ticksDone` each, `gameStarted`, `ticksStarted`, `nextOrders`, `quit` | start of the game and of a tick in the outer loop, handlers of connect, disconnect and three messages | `Lockstep` |
| game client | `game/Client.cc` | `sim`, `playerId`, `tickRunning`, one queued tick | `connect`, `update` (finish a tick, drain messages), `order`, handlers of three messages | `Lockstep` |
| tick clock | `game/InterpState.cc` | position `t` in the running tick | `startTick`, `update` | `Lockstep` (a tick may be over at any time after its start) |
| transport | `lib/enet-1.3.12` (vendored) | peers and their reliable channels | connect, send, receive, reset, time out | `Lockstep`, as far as the programs see it |
| message encoding | `common/BitStream.cc`, `Message.cc`, `Order.cc`, `GameSettings.cc` | none | read and write of each type | the assert on empty strings, in `Lockstep` |
| simulation | `game/Sim.cc`, `game/SimState.cc` | players with resources, entities, map, water level, time | `runTick`, `isOrderValid`, `runOrder` | the order of ticks in `Lockstep`, the orders and steps of a tick in `Terrain`, `Flood` and `Construction` |
| map growth | `game/Map.cc` | height, growth target, progress and speed of each grid point, the set of growing points | `raise`, `crater`, `tick` | `Terrain` |
| water | `game/Map.cc`, `Sim.cc`, `SimSystems.cc` | water of each grid point, which points are sources | `raiseWaterLevel`, `waterTick`, what rockets splash away | `Flood` |
| rockets | `RocketSystem`, `FlyingObjectSystem` | progress of the flight | a step of the flight, landing | the landing in `Terrain` and `Flood` |
| construction | `game/SimComponents.hh`, `game/SimSystems.cc` | blocks of each building, build queues, flying blocks | the orders `BUILD` and `CONSTRUCT`, the ticks of the systems, landings | `Construction` |
| mining | the same | resources of each player, miners, flying resources | | not modelled |
| input | `game/Input.cc` | mode, selected buildings, time of the last selection | mouse and key handlers, destroyed entities | `Input` |
| terrain mesh | `game/Terrain.cc` | dirty flag of each point | update after map changes | not modelled |
| fixed-point numbers | `lib/Fixed.hh` | none | 16.16 arithmetic | integers in the least unit, in `Terrain` and `Flood` |
| rendering, noise, logging, profiling | `game/Graphics.cc`, `game/Math.cc`, `opengl/`, `util/` | | | not modelled |

How they interact. `game/Main.cc` connects, calls `Client::update` until the
simulation exists, and then in every frame calls `Input::update`,
`Client::update` and draws. Input gives orders to `Client::order`, which tests
them in the client's own state and sends them. A tick (`Sim::runTick`) tests
each order again, carries it out, and then steps the map, the water and the
systems. Simulation code sends events (`entityx`) to mesh, input and systems.
Everything in one process is one thread; concurrency is between the processes.

What is hard. Clients and server act at any time relative to each other, so the
order in which ticks, reports of done ticks, orders, connections and
disconnections meet is open; clients disappear without a word; asserts in both
programs (they are not compiled out) rest on counts kept on the two sides. The
simulations must not diverge by one batch, and nothing would tell if they did.
Inside the simulation, long sequences of legal orders lead the map and the
building sites into states that nobody wrote down.

What makes each component correct:

- server and clients: the properties of the table of runs below;
- map growth: a point with a target grows until it has reached it, and all
  growth ends; nothing is to sink below zero; raising leaves no step of more
  than one level; buildings stand on even ground;
- water: it does not rise above the water level by flowing, no point owes
  water, and sources fill up again;
- construction: each block of a building is sent once and arrives, and every
  site is finished unless somebody gives it up;
- input: what is selected stands, and a tick takes nothing else from a
  selection than what it destroys.

## Modules

| Module | What it is |
|---|---|
| `TickLog` | What the protocol promises: one log of batches, views that are prefixes of it, a bounded window. Abstract, without messages. |
| `Lockstep` | Server, clients and channels. The safety properties the proofs are about, and the parts of the inductive invariant. |
| `LockstepProperties` | Extends it with what becomes of orders, the refinement of `TickLog`, fairness and liveness. |
| `LockstepProofs` | TLAPS proofs about `Lockstep`. |
| `RefinementProofs`, `OrderProofs` | TLAPS proofs about `LockstepProperties`: that `Lockstep` implements `TickLog`, and what becomes of orders. |
| `Terrain` | The grid, orders to raise and to build, landing rockets, `Map::tick`. |
| `Flood` | Extends `Terrain`: each of its actions together with what it does to the water, or what the water forbids. |
| `Construction` | Buildings, their blocks, queues and flights of blocks. |
| `Input` | Extends `Construction`: a player who selects buildings and gives orders, and the other players. |
| `Loops` | How the proofs reason about a loop of any length. |
| `TerrainProofs`, `FloodProofs`, `ConstructionProofs`, `InputProofs` | TLAPS proofs about the module of that name. |
| `MCLockstep`, `MCTerrain`, `MCConstruction`, `MCInput` | Instances for TLC. |

The modules divide the program at its own seams. `Lockstep` shows that all
clients run the same batches of orders; the others are one client's simulation,
in which an order may come at any time. `Terrain` and `Flood` have the ground;
`Construction` has the buildings, for which the ground can do anything: destroy
any of them in any tick, or flood them. `Input` sits on top of it.

### `Lockstep`

One action per handler. The server's outer loop is `ServerStartGame`,
`ServerStartTick`, `ServerExit` (and `ServerAbort`, where an assert fails);
its inner loop handles one event per action: `ServerAccept` and `ServerReject`
for a connection, `ServerHandleConnect`, `ServerHandleOrder` and
`ServerHandleTickDone` for a message, `ServerHandleDisconnect`. The actions of
the two loops interleave freely: the inner loop ends when no packet happens to
have arrived, which is not for the server to choose. On the client,
`Client::update` becomes `ClientFinishTick` and one action for each message;
`ClientIssuesOrder` is `Client::order`.

A batch is a sequence of orders, an order the number of its issuer and its own
number. A simulation is the sequence of batches it has run (`ran`): `runTick`
is deterministic given the seed, so equal sequences are equal states.
`log` and `issued` are history, read by properties only.

ENet is modelled as the two programs see it (`PROJECT.json` names the lines of
the vendored library), on one reliable ordered channel each way: it loses,
repeats and reorders nothing within a connection.
`toServer` holds the events the server's host will report for a peer, its
CONNECT first. A peer that is reset (`ServerReject`), times out
(`ServerHandleDisconnect`, `HandshakeFails`) or ends with the server's process
takes its queue with it, and what the client was yet to receive may be lost
(`ConnectionLost`) or not. A client process ends at any time without notice
(`ClientExits`); what it has sent is still delivered.

Left out: colours and teams, printing, the host's limit of 32 peers, and a
client that fails to connect in the first place.

### `Terrain`

A step is an order of `Sim::runTick` (`Raise`, `Build`), its call of `Map::tick`
(`MapTick`), or the landing of a rocket (`RocketLands`), which comes after
`Map::tick` in a tick (`landing` says where in the tick we are). A game of any
length is a sequence of such steps. `Build` also places the main buildings that
the constructor of `SimState` places, by the same test.

`Map::tick` is two loops. The first moves each growing point on: `Grows`,
`Passes`, `Rises` and `Falls` are the branches it takes, and `HeightAfter`,
`TargetAfter` and `ProgressAfter` the point after it. What one iteration does
depends on no other point, so `FirstLoop` is the grid as a whole. The second
loop is order-dependent: `SecondLoop[i]` is the growth after the first `i`
points in the order of the set (`PosLess`), of which only those that have passed
a level take anything along (`Cascade`). It is a recursive function on `0..n`,
which TLC evaluates and the proofs can use.

Time and growth are fixed-point in the code: a level is 65536, and at the
server's tick of 50 ms a raised point gains 3276 of it per tick, a crater 26208.
Here they are `RaiseSpeed`, `CraterSpeed` and `Level`, of which the code needs
that a speed is at most a level. Heights are natural numbers; where the code
computes with unsigned or negative numbers, `NeverBelowZero` says that the two
agree. An assert that fails ends the program: `Raise` and `Build` are disabled
where `GridPoint::usable` would fail, and `StopsClean` says that it does not:
it holds while orders alone change the map, and rockets break it (see the
disagreements).

`entity` names a building by its place, and `positionZ` is the height in its
position, which it keeps from the order that built it; building types are one type, and owners,
costs and blocks are not the ground's. Trees of the start, which stand on single
points until those grow, are left out: orders are accepted more often in
the model than by the program, never less often. A rocket lands anywhere at any
time, since `runOrder` scatters it by chance and towers may stand anywhere.

### `Flood`

`FloodRaise`, `FloodBuild`, `FloodTick` and `FloodRocket` are conjunctions of
`Terrain`'s action and what it means for the water, so a flooded map is a map
(`FloodIsTerrain`). `waterTick` runs in the tick that has just moved the ground,
on the new heights: `WaterLoop[i]` is the water after the first `i` visits of
its two nested loops (each point's neighbours in the order of
`Map::forNeighbors`, then the point itself). `Stream`, `Flowed` and `Sprung` keep
the code's order of multiplications and divisions, whose rounding decides
whether what is taken from a point equals what it gives. A level of ground is
65536 units of water in the code, here `Full`; `Flow` and `Spring` are the rates.
The water level is raised once, from 0, by the constructor of `Sim`; the call in
the course of the game is commented out (`game/SimState.cc:419`), so
`raiseWaterLevel` is `FloodInit`.

### `Construction`

A building is a number, in the order of creation. For each block of its
type, `placed` and `flying` count how many are in place and under way: that both
together are at most one is a property, not a part of the model. `Tick` is
`Sim::runTick` after its orders: what `Map::tick` destroys (`Destroy`, any set of
buildings) and what is flooded then (`Soak`, any set of main buildings, as a
corner point can be wet one tick and dry the next), the flights that end
(`Land`: any of them, one after the other in any order, as `Landings` is the loop
and `AddBlock` one pass, which turns a block away if an earlier one has finished the
building), and the loop over the main buildings (`SendBlocks`), in any order of
them, as entity indices are used again. Orders are `Build`, `ConstructLater` and
`ConstructNow` (the control key, or not).

Left out are places, owners, resources and costs, so that more orders are
accepted here than by the program. Miners, stores and flying resources only
change numbers that orders are compared with; nothing else in the simulation
reads them.

### `Input`

`mode` and `entities` are `Input`'s state machine; `recent` stands for the
comparison of the time since the last selection with the double click's. A click
picks any building that stands or none, as picking is by a ray on the screen. Orders
go where `Client::order` sends them and come back through `sent` in that order,
after any delay (`OrderLatency` bounds it); they may be run at any time here,
in the program only at the start of a tick, so the model has more behaviours. An
order to build may be refused when it is run, since its place is not modelled;
one to construct is run if it is still valid. `InputTick` is the tick of
`Construction` with one `EntityDestroyedEvent` for each building that goes, in
any order: `ReceivedAll` is the loop over them, `Received` one pass. `Kept` is the
loops that pick some elements of a list. Left out are camera, ray and drawing, and the orders to raise and to
attack, which change nothing of this.

### Mutants

Next to a definition stand its mutants, if it has some: the definition as a
plausible mistake would have it. Nothing uses them. For each property of a run
that passes, the run fails when one of them takes the place of the original
(`PROJECT.json` says which).

## What the runs check

| Run | Instance | Properties |
|---|---|---|
| `orders` | 2 clients, game of 2, 4 ticks, two orders of one | `NothingIgnored`: no tick before the simulation, no order before the game; `InLockstep`: every simulation runs the server's batches in order; `OrdersComeFromPlayers`: the player of every order is known to the simulations, also after he left; `OrdersKept`: no order is lost, repeated, overtaken or credited to another; `OrderLatency`: an order runs after all ticks its player had seen, and at most three later |
| `roster` | 3 clients, game of 2, 3 ticks, no orders | `TickWindow`: nobody is ahead of the server or more than two ticks behind; `QueueNeverOverrun`: no tick arrives while one waits; `NoneWaitsInVain`: a client that holds the next tick back reports, runs a tick or has a message to handle; `StartedClientKnowsItsId` |
| `progress` | 2 clients, game of 2, 4 ticks, one order, with fairness | `TypeOK`; `IndInv`, the invariant of the proofs; `ImplementsTickLog`; `EveryTickIsRun`, `OrderIsCarriedOut` |
| `start_skipped` | 2 clients, game of 1 | `GameStartsWithEnoughPlayers`, violated |
| `empty_name` | 2 clients, game of 2 | `NamesAreWritable`, violated |
| `map` | `FloodSpec`, 3x2 points, slopes, 2 raisings, a rocket, a building, speeds 2/3 | `MapTypeOK`; `NeverBelowZero`: nothing is to sink below zero; `NoneForgotten`: a point with a target grows in the next tick; `StandsLevel`: every point under a building has the height the building was placed at; `RaisingStopsClean`: without rockets a point that does not grow has no progress left; `NoneLeftBehind`: without rockets a point that has risen leaves no neighbour more than a level behind; `NoneFlooded`: water is below its level, where ground has not lifted it; `NoDebt`: until ground rises nobody has less than none; `RisesByOrdersOnly`: only an order brings a point above the highest, and by one level |
| `map_settling` | 3x1 points, all landscapes, a raising, 2 rockets, speeds 1/3 and 2/3, fair ticks | `Settles`: growth ends; `SourcesFill`: then sources fill |
| `map_unclean` | 3x1 points, a raising, a rocket | `StopsClean`, violated |
| `map_steps` | 3x1 points, 2 raisings, 2 rockets | `NoSteps`, violated |
| `map_debt` | 3x1 points, a raising | `RefusedPointsAreUsed`, violated |
| `construction` | 3 buildings, one there from the start; a main building has one block and a hut two; a block every other tick; queues of 2; one change of floods; with fairness | `TypeOK`; `NoBlockTwice`: no block is sent while in place or under way; `NoneBuildsItself`: a main building is never in its own queue; `NotForgotten`: a site nobody gave up is queued or complete with what is under way; `NothingLost`: what is sent arrives, also when other blocks land in the same tick or finish the site; `BuiltInTheEnd`: every site is finished |
| `input` | 3 buildings of one block, 2 of them of the two players from the start, 2 orders under way at once, queues of 1 | `InputTypeOK`: buildings are selected exactly in the mode for it; `SelectedStand`: and they stand, each once; `SelectionKept`: a tick takes only what it destroys; `TimeNotInherited`: while the time of the last selection counts, the last building is the one it was taken with, and none that came last because others were destroyed |

Deadlock is checked for all but `Lockstep`, where the server may exit or abort
and the clients with it, and `MaxTicks` ends the longest game; elsewhere a tick is
always possible.

**Bounds.** Two clients are enough for every race between a client and the
server and between two clients through the server; the third of `roster` comes
late, or takes the place of one that left before the start. The window is two
ticks: with three ticks a client can be at each distance from the server and
the window moves, with four it moves twice, and an order given after the first
tick has the three ticks it may take. Two orders of one player can meet in one
batch or be split by a tick, and the other player is there for them to be credited
to by mistake. Symmetry (of the clients) is in `roster`, whose properties are invariants and whose constants do not tell
clients apart.

On a map of 3x2 points a middle point has five neighbours, two points that are
not neighbours of each other share two, and a cascade can go on from the
neighbour to the next; a building of the smallest footprint (two by two points,
as `forRectangle` takes the far edges along) has two places that overlap and
room beside it. Heights up to two give cascades a step to close and craters
something to dig, on ground of height zero and beside it. Two raisings
overlap in part, and the cascades of one run into the other's. A speed that does
not divide a level gives progress a rest to carry over. With the water level at
one, the lowest ground is a source, the next is its shore and the highest above
all water; `Flow` half of `Full` and three quarters of a stream taken make the
streams round. `map_settling` has one row of points, but every landscape on it,
and the slower growth that lets two rockets land in one growing point.

In `construction` the first main building can build a second, which then has a
queue of its own in which the hut can be as well; a queue of two can hold the same
site twice, or two sites; a hut of two blocks can have one in place, one under way
and none left to send. A single flood is enough to stop a main building with
a full queue, or two of them at once, and another tick's flood would let them go
on. In `input` the player can select his own main building, the other player's and a
third, main building or hut, that either of them has ordered; a tick can destroy all
of them at once.

**Fairness.** The server's two loops and the clients' loops run for ever
without blocking, and ENet resends what is lost: weak fairness of `ServerStep`
and, for each client, of handling the next event, handling the next message and
ending a tick (`InterpState` advances with time). A client that is gone is
noticed in the end, by ENet's time-out. Nothing else is fair: nobody has to
connect, to give an order or to stay. In `Terrain` only the tick is fair: the
client runs `Map::tick` in every tick (`game/Sim.cc:31`), and the ticks go on by
`EveryTickIsRun`. Orders and rockets are bounded (`MaxRaises`, `MaxRockets`);
growth could not end if they did not. In `Construction` the tick is fair for the
same reason, and while blocks are under way some of them land (`FlightEnds`): the
progress of each grows in every tick by a fixed speed. Orders are not fair, and neither are floods, which are
bounded by `MaxFloods`: a main building that stands in water for ever is
the exception that `BuiltInTheEnd` makes.

## Disagreements found

- `start_skipped`. `main` compares `clients.size()` with `numWaitPlayers` for
  equality between two rounds of the event loop (`server/Server.cc:150`). If
  one round accepts two clients, the count passes the number and the game never
  starts, against the comment at line 132. `NumWaitPlayers` is 1 in the code.
- `empty_name`. The game starts when clients have connected, not when they have
  said who they are. `startGame` then writes an empty name, which fails the
  assert at `common/BitStream.cc:12` and ends the server. ENet normally sends the
  client's last acknowledgement and its hello in one datagram; it takes a lost or
  late one, after which VERIFY_CONNECT is acknowledged alone, for the round of the
  event loop to end between the two.
- `map_unclean`. `Map::crater` sets the target of a point and not its progress
  (`game/Map.cc:61`). At height zero the target is zero, so a point that has
  begun to rise stops with progress, and the next order to build or raise there
  fails the assert of `GridPoint::usable` (`game/Map.hh:44`) at whoever evaluates
  that order first, which is the player who gives it, in his own `Client::order`.
- `map_steps`. The same assignment drops a target that a cascade had set, and
  the step it was to close stays, against the comments at `game/Map.cc:143`
  and `:157`.
- `map_debt`. `waterTick` caps what a neighbour takes at the difference between
  the water level and the neighbour's height (`game/Map.cc:207`), also when the
  neighbour is higher: water that was lifted with its point then leaves it with less
  than none. As long as nothing else changes that ground or its water it stays so,
  `usable()` is false, and orders to build there are refused as if the point were "being used right now" (`game/SimState.cc:67`).

Seen, and not stated as a property:

- `Map::raise` computes `allMaxHeight` while it looks for the highest point, so it
  is also true of a rectangle that ascends in the order of visit: such a slope is
  raised above its top, the mirrored one to its top (`game/Map.cc:74`;
  `AllMaxHeight` has it as it is).
- `RocketSystem::receive` means to splash away water two points around, but its
  inner loop goes around the hit again (`Splashed` has it as it is).
- Main buildings of the start may stand at height zero, where the rising water
  makes them unusable at once; `isUsable` looks at the water of one corner only.
- `CONSTRUCT` and `BUILD` do not test whose building they name; `ATTACK` does.
- With more than one kind of resource, `haveResources` would be satisfied by any
  of them (`game/SimState.hh:25`); there is one kind.
- `Input.hh:32` speaks of keys for building without a selection, but `onKey`
  wants a main building selected; and it does not look at `action`, so that
  press and release order a building each.
- A control-click on a building that is selected already does not make it the last,
  which is the one that double clicks are compared with.
- A client that is turned away is not told and waits for ever
  (`game/Main.cc:65`), and `quit` does not stop the round of events it is set in
  (`server/Server.cc:221`), so the server may accept a client and exit.
- The time of a game is a 16.16 number in an `int`, which overflows after nine
  hours (`game/SimState.cc:416`).

## What is proved

`LockstepProofs`, `RefinementProofs` and `OrderProofs` prove, for every finite or
infinite set of clients, every number of players to wait for and all bounds:

| Theorem | Property |
|---|---|
| `TypeCorrect` | `TypeOK` |
| `Invariant` | `IndInv` |
| `WindowIsKept` | `TickWindow` |
| `NoOverrun` | `QueueNeverOverrun` |
| `NoneIgnored` | `NothingIgnored` |
| `NobodyWaitsInVain` | `NoneWaitsInVain` |
| `IdIsKnown` | `StartedClientKnowsItsId` |
| `SimulationsAgree` | `InLockstep` |
| `ProtocolIsTickLog` | `ImplementsTickLog` |
| `PlayersAreKnown` | `OrdersComeFromPlayers` |
| `OrdersRunInTime` | `OrderLatency` |
| `NoOrderIsLost` | `OrdersKept` |

The assumptions are those of `Lockstep`: `NumWaitPlayersAssumption` and
`BoundsAssumption`, which give the constants their types.

The argument. None of the properties is inductive: whether a client's queue
overruns depends on what is in its channel, and that on when the server took
the client's reports for enough. `IndInv` accounts for it, client by client:

- `DownInv`: the channel to a client is the rest of a preamble (SERVER_CONNECT,
  SERVER_START) and then the ticks that follow those it has received, without a
  gap;
- `CompleteInv`: received and in the channel together is all that was sent;
- `AckInv`: done (as the server knows), reported and running together is what
  the client has run;
- `CreditInv`: running, waiting and in the channel are at most two, and the
  preamble;
- `UpInv`, `ClientInv`, `LogInv`: which messages can be on their way in which
  phase, and what a client's own flags imply.

A tick is started only when all but the last are reported (`PrevTickDone`); by
`AckInv` and `CompleteInv` then at most one is running, waiting or travelling,
which re-establishes `CreditInv`; the other steps move a tick from one place to
the next. `CreditInv` holds of clients that the server has forgotten too, which
is why it is not a consequence of the other two. There is one lemma per
action; most steps concern one client, and `PeerUntouched` deals with the
others.

`NoneWaitsInVain` is what of `EveryTickIsRun` can be proved. A client that has a tick
to report, but neither a report on its way nor a tick running, has run all it has
received (`AckInv`, and `ClientInv`: a tick waits only behind a running one), so
`CompleteInv` finds the rest of the ticks in its channel. With fairness each of
the three cases moves on, which TLC checks.

**The abstract log.** `ServerStartGame` is `Start`, `ServerStartTick` is `Publish`,
a client's `ClientFinishTick` and `ClientHandleTick` are `Run` when they start a
tick, and `ServerHandleDisconnect` is `Leave` in the course of the game; all other
steps leave the log and the views alone. That no member is a full window behind
when a tick is published is `PrevTickDone` with `AckInv`; that a client runs the
next tick of the log is `InStep` for the one that waited, and `DownInv` for the one
that has just arrived.

**Orders.** An order travels ahead of the reports of the ticks that its player had
not finished when he gave it. `Ahead` says so of each order in a channel, by the
number of reports in front of it; hence the server cannot have counted those
ticks, nor started more than two beyond them, when the order is `Collected`, and
the tick that takes it is the next. For `OrdersKept` the numbers of a player's
orders are accounted for (`Numbered`): 1 to j are in the batches, j + 1 to k on
their way, and k is the last while he is in the game. Giving an order increases k,
handling one increases j (the first that is on its way has the number j + 1, as
they are in order), and a connection that is closed leaves k = j. A tick changes no
place: `Batches` are the log and what is collected for the next tick. `Alone` adds
what makes this inductive: ids are unique, so nobody else's orders are counted, and
a client whose connection is gone is not in the game.

`TerrainProofs`, `FloodProofs`, `ConstructionProofs` and `InputProofs` prove, for
maps, buildings, players, levels and speeds of every size and any number of steps,
from the assumptions that give the constants their types:

| Theorem | Property |
|---|---|
| `MapTypes` | `MapTypeOK` |
| `NothingSinksBelowZero` | `NeverBelowZero` |
| `NoPointForgotten` | `NoneForgotten` |
| `OnlyOrdersRaise` | `RisesByOrdersOnly` |
| `RaisingNeverFailsUsable` | `RaisingStopsClean` |
| `RaisingLeavesNoneBehind` | `NoneLeftBehind` |
| `BuildingsStandLevel` | `StandsLevel` |
| `FloodIsTerrain` | `FloodSpec` implements `Terrain`'s `Spec`, so the above hold with water |
| `WaterKeepsItsLevel` | `NoneFlooded` |
| `WaterIsNotOwed` | `NoDebt` |
| `BuildingTypes` | `TypeOK` of `Construction` |
| `NoBlockIsSentTwice` | `NoBlockTwice` |
| `NoBuildingSendsToItself` | `NoneBuildsItself` |
| `NoSiteIsForgotten` | `NotForgotten` |
| `NoBlockIsLost` | `NothingLost` |
| `InputIsConstruction` | `InputSpec` implements `Construction`'s `Spec` |
| `BuiltWithPlayers` | `NoBlockTwice`, `NoneBuildsItself`, `NotForgotten` and `NothingLost` under `InputSpec` |
| `SelectionTypes` | `InputTypeOK` |
| `SelectedBuildingsStand` | `SelectedStand` |
| `NoneInheritsTheTime` | `TimeNotInherited` |
| `NothingElseDeselected` | `SelectionKept` |

**Loops.** A tick is made of loops: over the growing points, over all visits of the
water, over the flights that land, over the main buildings, over the buildings that
are destroyed. Each is a
recursive function on `0..n` in its
module. `Loops` has the two lemmas the proofs need: that the function is what its
recursion says, and that what holds before the first pass and is kept by each pass
holds after the last. From them follows a third, an induction over the elements of a
sequence. They are stated over sets, not operators, which is how the
provers can use them: an invariant of a loop is the set of the pass numbers after
which it holds.

**The ground.** `GroundInv` is `MapTypeOK`, `NeverBelowZero` and `NoneForgotten`
together: none of them is inductive, as a target may only be counted on by a point
that grows. `SecondLoopSound` is the induction over the cascades: each replaces
targets by ones that lead to a height of zero at least, of points that it makes
grow. For `NoneLeftBehind`, `RaisingInv` adds that without rockets no target is
negative; then cascades go upward only, a neighbour that one of them has raised
is not lowered by a later one (`RaisedAgain`), and a point that rises now is
helped by its own (`RaisedAtFirst`).
For `RisesByOrdersOnly`, `LowGrowth` is the invariant of the loop: every height and
every planned height is reached by something before the tick (`Reached`). A cascade
upward plans a point below one that has just risen, which had been planned; one
downward plans it lower than it was.
`StandsLevel` alone is not inductive: a new building could take the name of an old
one. `Anchored` excludes it: a building covers the point it is named by, and
`canPlaceBuilding` finds that point free. A tick keeps the invariant because only
points in `Growing` change their height, and a building on one of them is gone; the
site that `canPlaceBuilding` looks at contains all points the building will cover
(`SiteCoversBuilding`), so all of them have the height it is placed at.

**Water.** The invariant of the loop over the visits says of each point that it
has at least nothing while no ground has risen, and is not above the level where
its own ground has not. A visit takes from a point what it has at most
(`StreamBounds`), and gives a neighbour no more than it has room for; that the
room is not negative follows from the stream running downhill from water that is
itself below its level.

**Construction.** `ConInv` adds to the properties that buildings not yet created
have left no trace (`Fresh`) and that what is finished lacks nothing
(`Whole`). `LandsOf` is the invariant of the loop over the flights that land: what has
landed so far is in place, and a building that this has finished has all its blocks.
A block yet to land is not in place (`NoBlockTwice`), so its building is not finished
and takes it; in whatever order the flights end, all are in place after the last. `Sound` is the invariant of the loop over the main buildings: what is
in place and under way is at most one for each block after every turn, and no
turn drops a site that lacks something. An action of `Input` is a step of
`Construction` or leaves it alone, so `Input`'s players change nothing of that.

**The selection.** `InputInv` is `InputTypeOK`, `SelectedStand` and
`TimeNotInherited`, with the types of `Construction`: a click adds what stands to
what stands, and `timed` is the last of it. A tick is the interesting step. Its events come
one by one, and each drops one building and perhaps the mode or the time. `Left` is
the invariant of that loop: when those in `gone` have been reported, the selection
is `Kept` of all others, the mode is the default one if that has emptied it, and the
time still counts only if the last one is not among them. After the last event `gone` is all that
the tick destroys, in whatever order (`OrderIsAll`), which is `SelectionKept`; what is
left stands, and its last building is the one the time was taken for. What this
needs of `Kept` is proved once: what is kept is in the set (`KeptRange`), once if it
was there once (`KeptOnce`), its last is the last of the whole if that is kept
(`KeptLast`), and keeping twice is keeping what is in both sets (`KeptTwice`).

Only model-checked: all liveness (`EveryTickIsRun`, `OrderIsCarriedOut`, `Settles`,
`SourcesFill`, `BuiltInTheEnd`), which is out of the prover's reach, like `ENABLED`.
Every other property of the runs that pass is a theorem.

## Not modelled

- Miners, stores and flying resources: they add to the number that `BUILD` is
  compared with, and orders may be refused for other reasons at any time anyhow.
- `ATTACK` orders beyond the rocket they end in: which tower fires, and where the
  rocket is scattered to.
- Terrain mesh: which patches are drawn anew hangs on flags that nothing else
  reads, and no document says what a patch must show. It does miss changes at
  the seams (see the hazards).
- Encoding, beyond the assert on empty strings: reader and writer are
  straight-line code over bytes, which unit tests reach.
- The width of 32 bits of fixed-point numbers: only the time of a game reaches it.
- Noise, geometry, camera, rendering: floating-point arithmetic, or drawing.
- Logging and profiling.
- ENet's own protocol, which is a vendored library: it is modelled by what the two
  programs see of it.

## Plan

1. `TickLog`, `Lockstep`, their runs, the invariant and its proof (done).
2. `Terrain` and its proofs (done).
3. `Flood`, composed with it, and its proofs (done).
4. `Construction` and its proofs; `Input` on top of it (done).
5. The proofs of the refinement of `TickLog` and of what becomes of orders (done).
6. The proofs of what becomes of a selection, that server and clients do not
   wait for each other, and of how high the ground gets (done).
7. Left: resources and costs in `Construction`, with owners, so that an
   order that has become too expensive is refused by all clients alike.
