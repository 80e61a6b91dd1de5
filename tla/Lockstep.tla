------------------------------ MODULE Lockstep ------------------------------
(***************************************************************************)
(* The lockstep protocol between the game server (server/Server.cc) and    *)
(* its clients (game/Client.cc), over ENet's reliable channel.             *)
(*                                                                         *)
(* The server collects orders from the clients and broadcasts them in      *)
(* numbered ticks.  Every client runs the ticks in its own simulation.     *)
(* Two ticks are sent ahead, so that a client always has one to run while  *)
(* the next travels; a further tick is started only when every client has  *)
(* reported all but the last one as done.                                  *)
(*                                                                         *)
(* One client process is one member of Clients; a player who starts the    *)
(* program again is another member.  A simulation is deterministic, so it  *)
(* is represented by the sequence of batches it has run.                   *)
(***************************************************************************)
EXTENDS Naturals, Sequences, FiniteSets

CONSTANTS
  Clients,         \* client processes
  NumWaitPlayers,  \* main's numWaitPlayers
  MaxTicks,        \* bound: ticks the server starts
  MaxOrders        \* bound: MaxOrders[c] is the number of orders c issues

ASSUME NumWaitPlayersAssumption == NumWaitPlayers \in Nat \ {0}
ASSUME BoundsAssumption == MaxTicks \in Nat /\ MaxOrders \in [Clients -> Nat]

VARIABLES
  \* ---- the server process ----
  server,         \* "running", "exited" or "aborted" (a failed assert)
  quit,           \* main's quit
  gameStarted,
  players,        \* ids in settings.players, once the game has started
  playerCounter,
  clients,        \* the connections that have a ClientInfo
  id,             \* ClientInfo::player.id
  named,          \* is ClientInfo::player.name set?
  ticksDone,      \* ClientInfo::ticksDone
  ticksStarted,
  nextOrders,
  \* ---- ENet ----
  link,           \* "none", "open", or "closed" (reset by the server's host)
  toServer,       \* events the server's host will report for a peer, in order
  toClient,       \* messages the client's host will report, in order
  \* ---- the client processes ----
  process,        \* "new", "running" or "exited"
  playerId,       \* Client::playerId, 0 before SERVER_CONNECT
  simulating,     \* sim != NULL
  ran,            \* the batches sim->runTick has run
  tickRunning,
  haveQueuedTick,
  queuedOrders,
  \* ---- history, read by properties only ----
  issued,         \* orders the client has issued
  log             \* the batches of all SERVER_TICKs broadcast

serverVars == <<server, quit, gameStarted, players, playerCounter, clients,
                id, named, ticksDone, ticksStarted, nextOrders>>
enetVars   == <<link, toServer, toClient>>
clientVars == <<process, playerId, simulating, ran, tickRunning,
                haveQueuedTick, queuedOrders>>
history    == <<issued, log>>
vars       == <<serverVars, enetVars, clientVars, history>>
-----------------------------------------------------------------------------
(* Orders and messages *)

\* An order.  Its kind and target play no role here: it is identified by
\* who issued it and as which of his orders (n).  at is the number of ticks
\* the issuer's simulation had run, for the latency property.
Order == [player : Nat, n : Nat, at : Nat]
Batch == Seq(Order)

ConnectEvent   == [type |-> "ENET_EVENT_TYPE_CONNECT"]
ClientConnect  == [type |-> "CLIENT_CONNECT"]
ClientTickDone == [type |-> "CLIENT_TICK_DONE"]
ClientOrder(o) == [type |-> "CLIENT_ORDER", order |-> o]
ServerEvent    == {ConnectEvent, ClientConnect, ClientTickDone}
                    \cup [type : {"CLIENT_ORDER"}, order : Order]

\* LatestConnect is a mutant of ServerConnect: it tells the latest id.
LatestConnect(i) == [type |-> "SERVER_CONNECT", yourPlayerId |-> playerCounter]

ServerStart      == [type |-> "SERVER_START"]
ServerConnect(i) == [type |-> "SERVER_CONNECT", yourPlayerId |-> i]
ServerTick(b)    == [type |-> "SERVER_TICK", orders |-> b]
ClientMessage    == {ServerStart}
                      \cup [type : {"SERVER_CONNECT"}, yourPlayerId : Nat]
                      \cup [type : {"SERVER_TICK"}, orders : Batch]

\* Mutants of SendToServer: an order may get lost, a message overtakes those
\* before it, and a CLIENT_TICK_DONE does, as on a channel of its own.
LossySend(c, m) ==
  \/ m.type = "CLIENT_ORDER" /\ UNCHANGED toServer
  \/ toServer' = IF link[c] = "open"
                   THEN [toServer EXCEPT ![c] = Append(@, m)]
                   ELSE toServer

UnorderedSend(c, m) ==
  toServer' = IF link[c] = "open"
                THEN [toServer EXCEPT ![c] = <<m>> \o @]
                ELSE toServer

TwoChannelSend(c, m) ==
  IF m = ClientTickDone
    THEN UnorderedSend(c, m)
    ELSE toServer' = IF link[c] = "open"
                       THEN [toServer EXCEPT ![c] = Append(@, m)]
                       ELSE toServer

\* Client::sendMessage.  What a client sends once the server's host has
\* dropped the connection is never delivered.
SendToServer(c, m) ==
  toServer' = IF link[c] = "open"
                THEN [toServer EXCEPT ![c] = Append(@, m)]
                ELSE toServer

\* A mutant of Broadcast: the messages overtake those sent before.
UnorderedBroadcast(ms) ==
  toClient' = [c \in Clients |-> IF c \in clients THEN ms \o toClient[c]
                                                  ELSE toClient[c]]

\* broadcast(message), for each message of ms
Broadcast(ms) ==
  toClient' = [c \in Clients |-> IF c \in clients THEN toClient[c] \o ms
                                                  ELSE toClient[c]]

OpenPeers == {c \in Clients : link[c] = "open"}

\* enet_peer_reset, or the peer timing out: queued events are discarded.
ClosePeers(cs) ==
  /\ link' = [c \in Clients |-> IF c \in cs THEN "closed" ELSE link[c]]
  /\ toServer' = [c \in Clients |-> IF c \in cs THEN <<>> ELSE toServer[c]]
-----------------------------------------------------------------------------
Init ==
  /\ server = "running"
  /\ quit = FALSE
  /\ gameStarted = FALSE
  /\ players = {}
  /\ playerCounter = 0
  /\ clients = {}
  /\ id = [c \in Clients |-> 0]
  /\ named = [c \in Clients |-> FALSE]
  /\ ticksDone = [c \in Clients |-> 0]
  /\ ticksStarted = 0
  /\ nextOrders = <<>>
  /\ link = [c \in Clients |-> "none"]
  /\ toServer = [c \in Clients |-> <<>>]
  /\ toClient = [c \in Clients |-> <<>>]
  /\ process = [c \in Clients |-> "new"]
  /\ playerId = [c \in Clients |-> 0]
  /\ simulating = [c \in Clients |-> FALSE]
  /\ ran = [c \in Clients |-> <<>>]
  /\ tickRunning = [c \in Clients |-> FALSE]
  /\ haveQueuedTick = [c \in Clients |-> FALSE]
  /\ queuedOrders = [c \in Clients |-> <<>>]
  /\ issued = [c \in Clients |-> 0]
  /\ log = <<>>
-----------------------------------------------------------------------------
(* The server: one iteration of main's outer loop tests for the start of   *)
(* the game and of a tick.  The inner loop handles events until            *)
(* enet_host_service finds none.  Packets arrive when they do, so it may   *)
(* return to the outer loop after any event, with the next one on its way. *)

\* Mutant of PlayersOf: players are named by their connection and not by
\* their id.
PeersOf(cs) == cs

\* The ids in settings.players
PlayersOf(cs) == {id[c] : c \in cs}

\* Mutant of OpeningMessages: the first tick is started before the game.
TickBeforeStart == <<ServerTick(nextOrders), ServerStart, ServerTick(<<>>)>>

\* What startGame and startTick called twice broadcast: the second startTick
\* finds nextOrders empty.
OpeningMessages == <<ServerStart, ServerTick(nextOrders), ServerTick(<<>>)>>
OpeningBatches  == <<nextOrders, <<>>>>

\* Server.cc:150, startGame(); startTick(); startTick()
ServerStartGame ==
  /\ server = "running" /\ ~quit
  /\ ~gameStarted
  /\ Cardinality(clients) = NumWaitPlayers
  /\ \A c \in clients : named[c]
  /\ players' = PlayersOf(clients)
  /\ gameStarted' = TRUE
  /\ Broadcast(OpeningMessages)
  /\ log' = log \o OpeningBatches
  /\ ticksStarted' = ticksStarted + 2
  /\ nextOrders' = <<>>
  /\ UNCHANGED <<server, quit, playerCounter, clients, id, named, ticksDone,
                 link, toServer, clientVars, issued>>

\* The same call when the CLIENT_CONNECT of a client has not been handled:
\* writing its empty name fails an assert (BitStream.cc:12).
ServerAbort ==
  /\ server = "running" /\ ~quit
  /\ ~gameStarted
  /\ Cardinality(clients) = NumWaitPlayers
  /\ \E c \in clients : ~named[c]
  /\ server' = "aborted"
  /\ ClosePeers(OpenPeers)
  /\ UNCHANGED <<quit, gameStarted, players, playerCounter, clients, id,
                 named, ticksDone, ticksStarted, nextOrders, toClient,
                 clientVars, history>>

\* Mutants of PrevTickDone: the window is one tick wider, one client that
\* keeps up is enough, and clients that have left are waited for.
EarlyTickDone  == \A c \in clients : ticksDone[c] + 1 >= ticksStarted - 1
SomeTickDone   == \E c \in clients : ticksDone[c] >= ticksStarted - 1
AbsentTickDone == \A c \in Clients : id[c] # 0 => ticksDone[c] >= ticksStarted - 1

\* Has every client done all the ticks but the last one?
PrevTickDone == \A c \in clients : ticksDone[c] >= ticksStarted - 1

\* Server.cc:156, startTick()
ServerStartTick ==
  /\ server = "running" /\ ~quit
  /\ gameStarted
  /\ PrevTickDone
  /\ ticksStarted < MaxTicks
  /\ Broadcast(<<ServerTick(nextOrders)>>)
  /\ log' = Append(log, nextOrders)
  /\ ticksStarted' = ticksStarted + 1
  /\ nextOrders' = <<>>
  /\ UNCHANGED <<server, quit, gameStarted, players, playerCounter, clients,
                 id, named, ticksDone, link, toServer, clientVars, issued>>

\* The outer loop ends.
ServerExit ==
  /\ server = "running" /\ quit
  /\ server' = "exited"
  /\ ClosePeers(OpenPeers)
  /\ UNCHANGED <<quit, gameStarted, players, playerCounter, clients, id,
                 named, ticksDone, ticksStarted, nextOrders, toClient,
                 clientVars, history>>

\* enet_host_service reports an event of this type for client c's peer ...
Arrives(c, type) ==
  /\ server = "running"
  /\ toServer[c] # <<>>
  /\ Head(toServer[c]).type = type

\* ... and takes it off the peer's queue.
Dispatched(c) == toServer' = [toServer EXCEPT ![c] = Tail(@)]

\* A connection before the start of the game gets a ClientInfo.
ServerAccept(c) ==
  /\ Arrives(c, "ENET_EVENT_TYPE_CONNECT")
  /\ ~gameStarted
  /\ Dispatched(c)
  /\ playerCounter' = playerCounter + 1
  /\ clients' = clients \cup {c}
  /\ id' = [id EXCEPT ![c] = playerCounter + 1]
  /\ named' = [named EXCEPT ![c] = FALSE]
  /\ ticksDone' = [ticksDone EXCEPT ![c] = 0]
  /\ UNCHANGED <<server, quit, gameStarted, players, ticksStarted,
                 nextOrders, link, toClient, clientVars, history>>

\* A later one is reset, without a word to the client.
ServerReject(c) ==
  /\ Arrives(c, "ENET_EVENT_TYPE_CONNECT")
  /\ gameStarted
  /\ ClosePeers({c})
  /\ UNCHANGED <<serverVars, toClient, clientVars, history>>

ServerHandleConnect(c) ==
  /\ Arrives(c, "CLIENT_CONNECT")
  /\ Dispatched(c)
  /\ named' = [named EXCEPT ![c] = TRUE]
  /\ toClient' = [toClient EXCEPT ![c] = Append(@, ServerConnect(id[c]))]
  /\ UNCHANGED <<server, quit, gameStarted, players, playerCounter, clients,
                 id, ticksDone, ticksStarted, nextOrders, link, clientVars,
                 history>>

\* The server stamps the sender on the order.  It would ignore an order from
\* before the start of the game, but none arrives then (NothingIgnored).
ServerHandleOrder(c) ==
  /\ Arrives(c, "CLIENT_ORDER")
  /\ gameStarted
  /\ Dispatched(c)
  /\ nextOrders' = Append(nextOrders,
                          [Head(toServer[c]).order EXCEPT !.player = id[c]])
  /\ UNCHANGED <<server, quit, gameStarted, players, playerCounter, clients,
                 id, named, ticksDone, ticksStarted, link, toClient,
                 clientVars, history>>

ServerHandleTickDone(c) ==
  /\ Arrives(c, "CLIENT_TICK_DONE")
  /\ Dispatched(c)
  /\ ticksDone' = [ticksDone EXCEPT ![c] = @ + 1]
  /\ UNCHANGED <<server, quit, gameStarted, players, playerCounter, clients,
                 id, named, ticksStarted, nextOrders, link, toClient,
                 clientVars, history>>

\* Mutant of ServerHandleDisconnect: who leaves is a player no more.
ForgetfulDisconnect(c) ==
  /\ server = "running"
  /\ c \in clients
  /\ ClosePeers({c})
  /\ clients' = clients \ {c}
  /\ players' = players \ {id[c]}
  /\ quit' = (quit \/ clients' = {})
  /\ UNCHANGED <<server, gameStarted, playerCounter, id, named, ticksDone,
                 ticksStarted, nextOrders, toClient, clientVars, history>>

\* ENet's host gives up on a peer it has not heard from: the client crashed
\* or the network failed.  Without clients the server is to quit.
ServerHandleDisconnect(c) ==
  /\ server = "running"
  /\ c \in clients
  /\ ClosePeers({c})
  /\ clients' = clients \ {c}
  /\ quit' = (quit \/ clients' = {})
  /\ UNCHANGED <<server, gameStarted, players, playerCounter, id, named,
                 ticksDone, ticksStarted, nextOrders, toClient, clientVars,
                 history>>
-----------------------------------------------------------------------------
(* The clients.  Client::update first finishes a tick whose time is over   *)
(* (InterpState), then drains the messages that have arrived.  Any number  *)
(* may have arrived and any time may have passed at each update, so the    *)
(* two parts and the single messages can follow each other in any order.   *)

\* connect() got ENet's CONNECT: the server's host reports its own, on the
\* acknowledgement of this side, before it reports the client's hello.
ClientConnects(c) ==
  /\ process[c] = "new"
  /\ server = "running"
  /\ process' = [process EXCEPT ![c] = "running"]
  /\ link' = [link EXCEPT ![c] = "open"]
  /\ toServer' = [toServer EXCEPT ![c] = <<ConnectEvent, ClientConnect>>]
  /\ UNCHANGED <<serverVars, toClient, playerId, simulating, ran,
                 tickRunning, haveQueuedTick, queuedOrders, history>>

\* A mutant of ClientFinishTick: a tick is reported only if another waits.
SilentFinishTick(c) ==
  /\ process[c] = "running"
  /\ tickRunning[c]
  /\ IF haveQueuedTick[c]
       THEN /\ SendToServer(c, ClientTickDone)
            /\ ran' = [ran EXCEPT ![c] = Append(@, queuedOrders[c])]
            /\ haveQueuedTick' = [haveQueuedTick EXCEPT ![c] = FALSE]
            /\ UNCHANGED tickRunning
       ELSE /\ tickRunning' = [tickRunning EXCEPT ![c] = FALSE]
            /\ UNCHANGED <<toServer, ran, haveQueuedTick>>
  /\ UNCHANGED <<serverVars, link, toClient, process, playerId, simulating,
                 queuedOrders, history>>

\* Client.cc:63
ClientFinishTick(c) ==
  /\ process[c] = "running"
  /\ tickRunning[c]
  /\ SendToServer(c, ClientTickDone)
  /\ IF haveQueuedTick[c]
       THEN /\ ran' = [ran EXCEPT ![c] = Append(@, queuedOrders[c])]
            /\ haveQueuedTick' = [haveQueuedTick EXCEPT ![c] = FALSE]
            /\ UNCHANGED tickRunning
       ELSE /\ tickRunning' = [tickRunning EXCEPT ![c] = FALSE]
            /\ UNCHANGED <<ran, haveQueuedTick>>
  /\ UNCHANGED <<serverVars, link, toClient, process, playerId, simulating,
                 queuedOrders, history>>

\* enet_host_service reports a message of this type to client c.
Receives(c, type) ==
  /\ process[c] = "running"
  /\ toClient[c] # <<>>
  /\ Head(toClient[c]).type = type
  /\ toClient' = [toClient EXCEPT ![c] = Tail(@)]

ClientHandleConnect(c) ==
  /\ Receives(c, "SERVER_CONNECT")
  /\ playerId' = [playerId EXCEPT ![c] = Head(toClient[c]).yourPlayerId]
  /\ UNCHANGED <<serverVars, link, toServer, process, simulating, ran,
                 tickRunning, haveQueuedTick, queuedOrders, history>>

ClientHandleStart(c) ==
  /\ Receives(c, "SERVER_START")
  /\ simulating' = [simulating EXCEPT ![c] = TRUE]
  /\ UNCHANGED <<serverVars, link, toServer, process, playerId, ran,
                 tickRunning, haveQueuedTick, queuedOrders, history>>

\* A tick is run at once, or waits for the running one.  It would be ignored
\* without a simulation, and fail an assert if another one is waiting:
\* NothingIgnored and QueueNeverOverrun show that neither happens.
ClientHandleTick(c) ==
  /\ Receives(c, "SERVER_TICK")
  /\ simulating[c] /\ ~haveQueuedTick[c]
  /\ IF tickRunning[c]
       THEN /\ queuedOrders' =
                 [queuedOrders EXCEPT ![c] = Head(toClient[c]).orders]
            /\ haveQueuedTick' = [haveQueuedTick EXCEPT ![c] = TRUE]
            /\ UNCHANGED <<ran, tickRunning>>
       ELSE /\ ran' = [ran EXCEPT ![c] = Append(@, Head(toClient[c]).orders)]
            /\ tickRunning' = [tickRunning EXCEPT ![c] = TRUE]
            /\ UNCHANGED <<haveQueuedTick, queuedOrders>>
  /\ UNCHANGED <<serverVars, link, toServer, process, playerId, simulating,
                 history>>

\* Client::order, for an order that is valid in the client's own simulation.
ClientIssuesOrder(c) ==
  /\ process[c] = "running"
  /\ simulating[c]
  /\ issued[c] < MaxOrders[c]
  /\ issued' = [issued EXCEPT ![c] = @ + 1]
  /\ SendToServer(c, ClientOrder([player |-> playerId[c],
                                  n |-> issued[c] + 1,
                                  at |-> Len(ran[c])]))
  /\ UNCHANGED <<serverVars, link, toClient, clientVars, log>>

\* The program is closed or crashes.  It does not tell the server, whose
\* host still delivers what was sent until it gives up on the peer.
ClientExits(c) ==
  /\ process[c] = "running"
  /\ process' = [process EXCEPT ![c] = "exited"]
  /\ UNCHANGED <<serverVars, enetVars, playerId, simulating, ran,
                 tickRunning, haveQueuedTick, queuedOrders, history>>

\* The server's host gives up on a handshake before it reported the peer.
HandshakeFails(c) ==
  /\ link[c] = "open"
  /\ c \notin clients
  /\ ClosePeers({c})
  /\ UNCHANGED <<serverVars, toClient, clientVars, history>>

\* What the server sent before it closed the connection may be lost.
ConnectionLost(c) ==
  /\ process[c] = "running"
  /\ link[c] = "closed"
  /\ toClient[c] # <<>>
  /\ toClient' = [toClient EXCEPT ![c] = <<>>]
  /\ UNCHANGED <<serverVars, link, toServer, clientVars, history>>
-----------------------------------------------------------------------------
ServerStep ==
  \/ ServerStartGame \/ ServerAbort \/ ServerStartTick \/ ServerExit

ServerHandleEvent(c) ==
  \/ ServerAccept(c) \/ ServerReject(c) \/ ServerHandleConnect(c)
  \/ ServerHandleOrder(c) \/ ServerHandleTickDone(c)

ClientHandleMessage(c) ==
  \/ ClientHandleConnect(c) \/ ClientHandleStart(c) \/ ClientHandleTick(c)

Next ==
  \/ ServerStep
  \/ \E c \in Clients :
       \/ ServerHandleEvent(c) \/ ServerHandleDisconnect(c)
       \/ ClientHandleMessage(c) \/ ClientFinishTick(c)
       \/ ClientConnects(c) \/ ClientIssuesOrder(c) \/ ClientExits(c)
       \/ HandshakeFails(c) \/ ConnectionLost(c)

Spec == Init /\ [][Next]_vars
-----------------------------------------------------------------------------
(* Safety.  These are the properties LockstepProofs proves for all values   *)
(* of the constants; LockstepProperties has further ones.                   *)

TypeOK ==
  /\ server \in {"running", "exited", "aborted"}
  /\ quit \in BOOLEAN /\ gameStarted \in BOOLEAN
  /\ players \subseteq Nat /\ playerCounter \in Nat
  /\ clients \subseteq Clients
  /\ id \in [Clients -> Nat] /\ named \in [Clients -> BOOLEAN]
  /\ ticksDone \in [Clients -> Nat] /\ ticksStarted \in Nat
  /\ nextOrders \in Batch
  /\ link \in [Clients -> {"none", "open", "closed"}]
  /\ toServer \in [Clients -> Seq(ServerEvent)]
  /\ toClient \in [Clients -> Seq(ClientMessage)]
  /\ process \in [Clients -> {"new", "running", "exited"}]
  /\ playerId \in [Clients -> Nat] /\ simulating \in [Clients -> BOOLEAN]
  /\ ran \in [Clients -> Seq(Batch)]
  /\ tickRunning \in [Clients -> BOOLEAN]
  /\ haveQueuedTick \in [Clients -> BOOLEAN]
  /\ queuedOrders \in [Clients -> Batch]
  /\ issued \in [Clients -> Nat] /\ log \in Seq(Batch)

\* The asserts of startTick, of CLIENT_TICK_DONE and of the outer loop
\* (Server.cc:52, 53, 112, 157 and 161): no client reports a tick that was
\* not started, and none falls more than two ticks behind.
InWindow(c) ==
  gameStarted /\ c \in clients =>
    ticksDone[c] <= ticksStarted /\ ticksStarted <= ticksDone[c] + 2

TickWindow ==
  /\ gameStarted => ticksStarted >= 2
  /\ \A c \in Clients : InWindow(c)

\* The assert at Client.cc:144: a client has room for one waiting tick, and
\* no further tick reaches it while that one waits, however the messages of
\* both directions and the client's frames interleave.
QueueNeverOverrun ==
  \A c \in Clients :
    haveQueuedTick[c] /\ toClient[c] # <<>>
      => Head(toClient[c]).type # "SERVER_TICK"

\* The handlers drop a tick that comes before the simulation exists
\* (Client.cc:146) and an order that comes before the game has started
\* (Server.cc:100).  Either would be a desynchronised game or a lost order;
\* neither ever arrives.
NothingIgnored ==
  \A c \in Clients :
    /\ toClient[c] # <<>> /\ Head(toClient[c]).type = "SERVER_TICK"
         => simulating[c]
    /\ toServer[c] # <<>> /\ Head(toServer[c]).type = "CLIENT_ORDER"
         => gameStarted

\* The server and a client never wait for each other (Server.cc:164): if a
\* client has not reported the tick that the next one waits for, a report of
\* its is on the way, or it is running a tick, or it has a message it can
\* handle.  So the next tick is started in the end, if that client lives.
CanHandle(c) ==
  /\ toClient[c] # <<>>
  /\ Head(toClient[c]).type = "SERVER_TICK"
       => simulating[c] /\ ~haveQueuedTick[c]

NoneWaitsInVain ==
  server = "running" /\ gameStarted =>
    \A c \in clients : ticksDone[c] < ticksStarted - 1 =>
      \/ \E i \in DOMAIN toServer[c] : toServer[c][i] = ClientTickDone
      \/ tickRunning[c]
      \/ CanHandle(c)

\* Once its simulation exists a client knows its own id (the assert at
\* Client.hh:47, which Input's constructor reaches), and it is the id under
\* which the server runs its orders.
StartedClientKnowsItsId ==
  \A c \in Clients :
    simulating[c] => playerId[c] = id[c] /\ playerId[c] \in players

\* The simulations agree: every client has run the batches the server
\* broadcast, in that order and without a gap, and the one that waits is
\* the next.
InStep(c) ==
  /\ Len(ran[c]) <= Len(log)
  /\ \A t \in 1..Len(ran[c]) : ran[c][t] = log[t]
  /\ haveQueuedTick[c] => /\ Len(ran[c]) < Len(log)
                          /\ queuedOrders[c] = log[Len(ran[c]) + 1]

InLockstep == \A c \in Clients : InStep(c)
-----------------------------------------------------------------------------
(* The inductive invariant behind them.                                     *)

\* How many CLIENT_TICK_DONE are in a queue of events.
Dones(s) == Cardinality({i \in DOMAIN s : s[i].type = "CLIENT_TICK_DONE"})

\* The ticks of client c that are running and waiting, and all it has taken
\* from its channel.
Running(c) == IF tickRunning[c] THEN 1 ELSE 0
Waiting(c) == IF haveQueuedTick[c] THEN 1 ELSE 0
Received(c) == Len(ran[c]) + Waiting(c)

\* The messages that precede the first tick in the channel to client c:
\* SERVER_CONNECT and SERVER_START, less those it has handled.
Preamble(c) == CASE simulating[c]                      -> 0
                 [] ~simulating[c] /\ playerId[c] # 0  -> 1
                 [] OTHER                              -> 2

\* The log is empty before the start.
LogInv ==
  /\ Len(log) = ticksStarted
  /\ ~gameStarted => log = <<>> /\ nextOrders = <<>>
  /\ gameStarted => ticksStarted >= 2

\* A client's own state: a tick waits only behind a running one.
ClientInv(c) ==
  /\ haveQueuedTick[c] => tickRunning[c]
  /\ tickRunning[c] => simulating[c] /\ ran[c] # <<>>
  /\ ~simulating[c] => ran[c] = <<>>
  /\ simulating[c] => gameStarted /\ playerId[c] # 0 /\ id[c] \in players
  /\ playerId[c] \in {0, id[c]}

\* The connection, and what is on its way to the server.
UpInv(c) ==
  /\ process[c] = "new" => link[c] = "none"
  /\ link[c] # "open" => toServer[c] = <<>>
  /\ link[c] = "open" /\ c \notin clients =>
       /\ toServer[c] = <<ConnectEvent, ClientConnect>>
       /\ toClient[c] = <<>> /\ playerId[c] = 0 /\ ~simulating[c]
  /\ link[c] = "none" =>
       /\ c \notin clients
       /\ toClient[c] = <<>> /\ playerId[c] = 0 /\ ~simulating[c]
  /\ server = "running" /\ c \in clients => link[c] = "open"
  /\ server # "running" => link[c] # "open"
  /\ link[c] = "open" /\ c \in clients =>
       IF gameStarted
         THEN \A i \in DOMAIN toServer[c] :
                toServer[c][i].type \in {"CLIENT_ORDER", "CLIENT_TICK_DONE"}
         ELSE toServer[c] = IF named[c] THEN <<>> ELSE <<ClientConnect>>

\* Which tick the i-th message in the channel to client c is, if it is one.
TickAt(c, i) == Received(c) + i - Preamble(c)

\* What is on its way to the client: the rest of the preamble, then the
\* ticks that follow those received, without a gap.
DownInv(c) ==
  \A i \in DOMAIN toClient[c] :
    /\ i > Preamble(c) =>
         /\ TickAt(c, i) \in DOMAIN log
         /\ toClient[c][i] = ServerTick(log[TickAt(c, i)])
    /\ i = Preamble(c) => /\ gameStarted /\ id[c] \in players
                          /\ toClient[c][i] = ServerStart
    /\ i < Preamble(c) => /\ id[c] # 0
                          /\ toClient[c][i] = ServerConnect(id[c])

\* What a client of the server has received and will receive is everything.
CompleteInv(c) ==
  link[c] = "open" /\ c \in clients =>
    /\ id[c] # 0
    /\ gameStarted =>
         /\ named[c] /\ id[c] \in players
         /\ Received(c) + Len(toClient[c]) = ticksStarted + Preamble(c)
    /\ ~gameStarted => Len(toClient[c]) =
                        IF named[c] /\ playerId[c] = 0 THEN 1 ELSE 0
    /\ ~named[c] => playerId[c] = 0

\* A tick has been run, is reported or about to be reported, or is running.
AckInv(c) ==
  link[c] = "open" /\ c \in clients =>
    ticksDone[c] + Dones(toServer[c]) + Running(c) = Len(ran[c])

\* At most two ticks are running, waiting or on their way to a client.  This
\* stays true of one that the server has forgotten.
CreditInv(c) == Running(c) + Waiting(c) + Len(toClient[c]) <= Preamble(c) + 2

\* What holds of one client and its connection.
PeerInv(c) ==
  /\ ClientInv(c) /\ UpInv(c) /\ DownInv(c) /\ CompleteInv(c)
  /\ AckInv(c) /\ CreditInv(c) /\ InStep(c) /\ InWindow(c)

\* All of it holds in every reachable state, and is preserved by every step.
IndInv == LogInv /\ \A c \in Clients : PeerInv(c)
=============================================================================
