------------------------ MODULE LockstepProperties ------------------------
(***************************************************************************)
(* What becomes of the orders in the lockstep protocol, the abstract log   *)
(* it implements, and the fairness under which it makes progress.          *)
(***************************************************************************)
EXTENDS Lockstep

\* The batches of the log, and the one that is collected for the next tick.
Batches == Append(log, nextOrders)

\* The places of the orders in them, the order at a place, and which place
\* comes first.
Places       == UNION {{<<t, i>> : i \in DOMAIN Batches[t]} : t \in DOMAIN Batches}
OrderAt(p)   == Batches[p[1]][p[2]]
Before(p, q) == p[1] < q[1] \/ (p[1] = q[1] /\ p[2] < q[2])

\* The places of client c's orders, and their numbers.
PlacesOf(c) == {p \in Places : OrderAt(p).player = id[c]}
Taken(c)    == {OrderAt(p).n : p \in PlacesOf(c)}

\* The messages with orders on their way from client c, and their numbers.
Sending(c) == {i \in DOMAIN toServer[c] : toServer[c][i].type = "CLIENT_ORDER"}
NumberOf(c, i) == toServer[c][i].order.n
Sent(c)    == {NumberOf(c, i) : i \in Sending(c)}

\* None is repeated, or overtakes another.
InOrder(c) ==
  /\ \A p, q \in PlacesOf(c) : Before(p, q) => OrderAt(p).n < OrderAt(q).n
  /\ \A i, j \in Sending(c) : i < j => NumberOf(c, i) < NumberOf(c, j)
  /\ \A m \in Taken(c), n \in Sent(c) : m < n

\* None is lost, unless the player leaves: then the last ones may be.
NoneLost(c) ==
  LET numbers == Taken(c) \cup Sent(c)
  IN  \E k \in 0 .. issued[c] :
        numbers = 1 .. k /\ (c \in clients => k = issued[c])

\* Orders are neither lost, nor repeated, nor reordered, nor credited to
\* somebody else, from Client::order to the tick that carries them (Server.cc:105).
OrdersKept == \A c \in Clients : id[c] # 0 => InOrder(c) /\ NoneLost(c)

\* An order runs in a later tick than all those its player had seen when he
\* gave it, and at most three ticks later: the server cannot start more
\* before it has handled the order, because the order travels ahead of the
\* CLIENT_TICK_DONE those ticks wait for.
OrderLatency ==
  \A t \in DOMAIN log : \A i \in DOMAIN log[t] :
    log[t][i].at < t /\ t <= log[t][i].at + 3

\* Sim::runTick looks the player of an order up in the map built from the
\* settings, and asserts that it is there (SimState.cc:261).
OrdersComeFromPlayers ==
  \A t \in DOMAIN log : \A i \in DOMAIN log[t] : log[t][i].player \in players

-----------------------------------------------------------------------------
(* The abstract log.  A client's view is what its simulation has run.       *)

Abstract == INSTANCE TickLog WITH
              Window  <- 2,
              started <- gameStarted,
              members <- IF gameStarted THEN clients ELSE {},
              batches <- log,
              view    <- ran

ImplementsTickLog == Abstract!Spec
-----------------------------------------------------------------------------
(* Progress.  The server's and the clients' loops run for ever, and ENet    *)
(* resends a message until it arrives.  Nobody has to connect, to give      *)
(* orders or to exit.  A peer that is gone is noticed in the end: ENet      *)
(* times it out.  A connection need not fail otherwise.                     *)

Fairness ==
  /\ WF_vars(ServerStep)
  /\ \A c \in Clients :
       /\ WF_vars(ServerHandleEvent(c))
       /\ WF_vars(ClientHandleMessage(c))
       /\ WF_vars(ClientFinishTick(c))
       /\ WF_vars(process[c] = "exited" /\ ServerHandleDisconnect(c))

FairSpec == Spec /\ Fairness

\* Every client that stays in the game runs all ticks: the window of two
\* never makes server and clients wait for each other, and a client that
\* disappears does not stop the rest.
EveryTickIsRun ==
  \A c \in Clients :
    gameStarted /\ c \in clients
      ~> \/ Len(ran[c]) = MaxTicks
         \/ c \notin clients

\* An order is carried out in every simulation that stays in the game, the
\* issuer's included.  (The bound on ticks must leave it the three ticks of
\* OrderLatency.)
Carried(c, n) ==
  \E t \in DOMAIN log : \E i \in DOMAIN log[t] :
    /\ log[t][i].player = id[c] /\ log[t][i].n = n
    /\ \A d \in clients : Len(ran[d]) >= t

OrderIsCarriedOut ==
  \A c \in Clients : \A n \in 1..MaxOrders[c] :
    issued[c] = n /\ c \in clients /\ Len(ran[c]) + 3 <= MaxTicks
      ~> Carried(c, n) \/ c \notin clients

\* The server waits for NumWaitPlayers players and then starts the game
\* (Server.cc:132), if they stay.
GameStartsWithEnoughPlayers ==
  Cardinality(clients) >= NumWaitPlayers
    ~> gameStarted \/ Cardinality(clients) < NumWaitPlayers
                   \/ server # "running"

\* Writing a string asserts that it has characters (BitStream.cc:12).  The
\* names in SERVER_START are written with it.
NamesAreWritable == server # "aborted"
=============================================================================
