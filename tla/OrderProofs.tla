----------------------------- MODULE OrderProofs -----------------------------
(***************************************************************************)
(* What becomes of an order between Client::order and the tick that runs   *)
(* it, for every set of clients and all bounds: its player is known to all *)
(* simulations, it runs at most three ticks after it was given, and none   *)
(* is lost, repeated, overtaken or credited to somebody else.              *)
(*                                                                         *)
(* The latency rests on the order of messages: an order travels ahead of   *)
(* the CLIENT_TICK_DONE of the ticks that its player had not finished, so  *)
(* the server cannot have counted those when it handles the order.  That   *)
(* none is lost rests on the numbers 1, 2, ... of a player's orders: those *)
(* in the batches and those on their way follow each other without a gap.  *)
(***************************************************************************)
EXTENDS LockstepProperties, LockstepProofs

\* When an order on its way arrives, the server will not have counted more
\* ticks than its player had run; and he has run no fewer since.
Ahead(c) ==
  \A i \in DOMAIN toServer[c] :
    toServer[c][i].type = "CLIENT_ORDER" =>
      /\ ticksDone[c] + Dones(SubSeq(toServer[c], 1, i))
           <= toServer[c][i].order.at
      /\ toServer[c][i].order.at <= Len(ran[c])

\* The orders for the next tick.
Collected ==
  \A i \in DOMAIN nextOrders :
    /\ nextOrders[i].player \in players
    /\ nextOrders[i].at <= Len(log) /\ Len(log) <= nextOrders[i].at + 2

OrderInv ==
  /\ \A c \in Clients : Ahead(c)
  /\ Collected /\ OrderLatency /\ OrdersComeFromPlayers
-----------------------------------------------------------------------------
(* The front of a queue *)

\* It is a queue of events, and has a count.
LEMMA FrontType ==
  ASSUME NEW s \in Seq(ServerEvent), NEW i \in 1 .. Len(s)
  PROVE  /\ SubSeq(s, 1, i) \in Seq(ServerEvent) /\ SubSeq(s, 1, i) # << >>
         /\ Len(SubSeq(s, 1, i)) = i
         /\ \A j \in 1 .. i : SubSeq(s, 1, i)[j] = s[j]
         /\ Dones(SubSeq(s, 1, i)) \in Nat
<1> DEFINE f == SubSeq(s, 1, i)
<1>1. f = [j \in 1 .. i |-> s[j]] /\ i \in Nat
  OBVIOUS
<1>2. \A j \in 1 .. i : s[j] \in ServerEvent
  OBVIOUS
<1> HIDE DEF f
<1>3. f \in Seq(ServerEvent) /\ Len(f) = i /\ f # << >>
  BY <1>1, <1>2
<1>4. Dones(f) \in Nat
  BY <1>3, DonesType
<1> QED BY <1>1, <1>3, <1>4 DEF f

\* Two queues of one length with the same elements are the same.
LEMMA SameQueue ==
  ASSUME NEW S, NEW s \in Seq(S), NEW t \in Seq(S), Len(s) = Len(t),
         \A j \in 1 .. Len(s) : s[j] = t[j]
  PROVE  s = t
<1>1. s = [j \in 1 .. Len(s) |-> s[j]] /\ t = [j \in 1 .. Len(t) |-> t[j]]
  OBVIOUS
<1> QED BY <1>1

\* What is appended is behind it.
LEMMA FrontAppend ==
  ASSUME NEW s \in Seq(ServerEvent), NEW m \in ServerEvent
  PROVE  /\ \A i \in 1 .. Len(s) : SubSeq(Append(s, m), 1, i) = SubSeq(s, 1, i)
         /\ SubSeq(Append(s, m), 1, Len(s) + 1) = Append(s, m)
<1> DEFINE t == Append(s, m)
<1>1. /\ t \in Seq(ServerEvent) /\ Len(t) = Len(s) + 1 /\ Len(s) \in Nat
      /\ \A j \in 1 .. Len(s) : t[j] = s[j]
  BY Appended
<1> HIDE DEF t
<1>2. ASSUME NEW i \in 1 .. Len(s)
      PROVE  SubSeq(t, 1, i) = SubSeq(s, 1, i)
  <2>1. i \in 1 .. Len(t)
    BY <1>1
  <2>2. \A j \in 1 .. i : t[j] = s[j]
    BY <1>1
  <2> QED BY <1>1, <2>1, <2>2, FrontType, SameQueue
<1>3. SubSeq(t, 1, Len(s) + 1) = t
  <2>1. Len(s) + 1 \in 1 .. Len(t)
    BY <1>1
  <2> QED BY <1>1, <2>1, FrontType, SameQueue
<1> QED BY <1>2, <1>3 DEF t

\* What is taken off it counts no more.
LEMMA FrontTail ==
  ASSUME NEW s \in Seq(ServerEvent), s # << >>, NEW i \in 1 .. Len(Tail(s))
  PROVE  /\ i + 1 \in 1 .. Len(s) /\ Tail(s)[i] = s[i + 1]
         /\ Dones(SubSeq(s, 1, i + 1)) = Dones(SubSeq(Tail(s), 1, i))
              + IF Head(s).type = "CLIENT_TICK_DONE" THEN 1 ELSE 0
<1> DEFINE f == SubSeq(s, 1, i + 1)
           t == Tail(s)
<1>1. /\ t \in Seq(ServerEvent) /\ Len(t) = Len(s) - 1 /\ Len(s) \in Nat
      /\ \A j \in 1 .. Len(t) : t[j] = s[j + 1]
      /\ Head(s) = s[1]
  BY HeadTailProperties
<1> HIDE DEF t
<1>2. i \in 1 .. Len(t)
  BY DEF t
<1>3. i + 1 \in 1 .. Len(s)
  BY <1>1, <1>2
<1>4. /\ f \in Seq(ServerEvent) /\ f # << >> /\ Len(f) = i + 1
      /\ \A j \in 1 .. i + 1 : f[j] = s[j]
  BY <1>3, FrontType
<1> HIDE DEF f
<1>5. /\ Tail(f) \in Seq(ServerEvent) /\ Len(Tail(f)) = i
      /\ \A j \in 1 .. i : Tail(f)[j] = f[j + 1]
      /\ Head(f) = f[1]
  BY <1>4, HeadTailProperties
<1>6. Tail(f) = SubSeq(t, 1, i)
  <2>1. \A j \in 1 .. i : t[j] = s[j + 1] /\ f[j + 1] = s[j + 1]
    BY <1>1, <1>2, <1>4
  <2>2. /\ SubSeq(t, 1, i) \in Seq(ServerEvent)
        /\ Len(SubSeq(t, 1, i)) = i
        /\ \A j \in 1 .. i : SubSeq(t, 1, i)[j] = t[j]
    BY <1>1, <1>2, FrontType
  <2> QED BY <1>5, <2>1, <2>2, SameQueue
<1>7. Head(f) = Head(s)
  BY <1>1, <1>2, <1>4, <1>5
<1>8. Dones(f) = Dones(SubSeq(t, 1, i))
                   + IF Head(s).type = "CLIENT_TICK_DONE" THEN 1 ELSE 0
  BY <1>4, <1>6, <1>7, DonesTail
<1> QED BY <1>1, <1>2, <1>3, <1>8 DEF t, f
-----------------------------------------------------------------------------
(* Orders on their way *)

\* What the server counts and what is on its way has types.
LEMMA AheadTypes ==
  ASSUME TypeOK, NEW c \in Clients
  PROVE  /\ toServer[c] \in Seq(ServerEvent) /\ ticksDone[c] \in Nat
         /\ Len(ran[c]) \in Nat
         /\ \A i \in 1 .. Len(toServer[c]) :
              toServer[c][i].type = "CLIENT_ORDER"
                => toServer[c][i].order \in Order
<1>1. toServer[c] \in Seq(ServerEvent)
  BY DEF TypeOK
<1>2. \A i \in 1 .. Len(toServer[c]) : toServer[c][i] \in ServerEvent
  BY <1>1
<1> QED BY <1>1, <1>2, EventContents, CountsTyped DEF TypeOK

\* The lengths of what a client has run, before and after a step.
LEMMA LengthsTyped ==
  ASSUME TypeOK, TypeOK', NEW c \in Clients
  PROVE  Len(ran[c]) \in Nat /\ Len(ran'[c]) \in Nat
<1>1. ran[c] \in Seq(Batch)
  BY DEF TypeOK
<1>2. ran'[c] \in Seq(Batch)
  BY DEF TypeOK
<1> QED BY <1>1, <1>2

\* They keep their place while the queue is left alone and the client runs on.
LEMMA AheadKept ==
  ASSUME TypeOK, TypeOK', NEW c \in Clients, Ahead(c),
         toServer'[c] = toServer[c], ticksDone'[c] = ticksDone[c],
         Len(ran[c]) <= Len(ran'[c])
  PROVE  Ahead(c)'
<1> SUFFICES ASSUME NEW i \in DOMAIN toServer[c],
                    toServer[c][i].type = "CLIENT_ORDER"
             PROVE  /\ ticksDone[c] + Dones(SubSeq(toServer[c], 1, i))
                         <= toServer[c][i].order.at
                    /\ toServer[c][i].order.at <= Len(ran'[c])
  BY DEF Ahead
<1>1. /\ ticksDone[c] + Dones(SubSeq(toServer[c], 1, i))
           <= toServer[c][i].order.at
      /\ toServer[c][i].order.at <= Len(ran[c])
  BY DEF Ahead
<1>2. toServer[c][i].order.at \in Nat
  BY AheadTypes DEF Order
<1>3. Len(ran[c]) \in Nat /\ Len(ran'[c]) \in Nat
  BY LengthsTyped
<1> QED BY <1>1, <1>2, <1>3

\* There are none in a queue without orders.
LEMMA AheadEmpty ==
  ASSUME NEW c \in Clients,
         \A i \in DOMAIN toServer'[c] : toServer'[c][i].type # "CLIENT_ORDER"
  PROVE  Ahead(c)'
BY DEF Ahead

\* One event is handled; a CLIENT_TICK_DONE is counted now.
LEMMA AheadTail ==
  ASSUME TypeOK, TypeOK', NEW c \in Clients, Ahead(c), toServer[c] # << >>,
         toServer'[c] = Tail(toServer[c]), ran' = ran,
         ticksDone'[c] = ticksDone[c] +
           IF Head(toServer[c]).type = "CLIENT_TICK_DONE" THEN 1 ELSE 0
  PROVE  Ahead(c)'
<1> DEFINE s == toServer[c]
<1>0. s \in Seq(ServerEvent) /\ Tail(s) \in Seq(ServerEvent)
  BY HeadTailProperties DEF TypeOK
<1> SUFFICES ASSUME NEW i \in 1 .. Len(Tail(s)),
                    Tail(s)[i].type = "CLIENT_ORDER"
             PROVE  /\ ticksDone'[c] + Dones(SubSeq(Tail(s), 1, i))
                         <= Tail(s)[i].order.at
                    /\ Tail(s)[i].order.at <= Len(ran[c])
  BY <1>0 DEF Ahead
<1> HIDE DEF s
<1>1. /\ i + 1 \in 1 .. Len(s) /\ Tail(s)[i] = s[i + 1]
      /\ Dones(SubSeq(s, 1, i + 1)) = Dones(SubSeq(Tail(s), 1, i))
           + IF Head(s).type = "CLIENT_TICK_DONE" THEN 1 ELSE 0
  BY <1>0, FrontTail DEF s
<1>2. /\ ticksDone[c] + Dones(SubSeq(s, 1, i + 1)) <= s[i + 1].order.at
      /\ s[i + 1].order.at <= Len(ran[c])
  BY <1>0, <1>1 DEF Ahead, s
<1>3. Dones(SubSeq(Tail(s), 1, i)) \in Nat
  BY <1>0, FrontType
<1>4. ticksDone[c] \in Nat
  BY AheadTypes
<1>5. ticksDone'[c] = ticksDone[c] +
        IF Head(s).type = "CLIENT_TICK_DONE" THEN 1 ELSE 0
  BY DEF s
<1>6. ticksDone'[c] + Dones(SubSeq(Tail(s), 1, i))
        = ticksDone[c] + Dones(SubSeq(s, 1, i + 1))
  BY <1>1, <1>3, <1>4, <1>5
<1> QED BY <1>1, <1>2, <1>6

\* A message is sent: if it is an order, it was given after the last tick that
\* will have been counted.
LEMMA AheadAppend ==
  ASSUME TypeOK, TypeOK', NEW c \in Clients, Ahead(c), NEW m \in ServerEvent,
         toServer'[c] = Append(toServer[c], m), ticksDone'[c] = ticksDone[c],
         Len(ran[c]) <= Len(ran'[c]),
         m.type = "CLIENT_ORDER" =>
           /\ ticksDone[c] + Dones(toServer[c]) <= m.order.at
           /\ m.order.at = Len(ran[c])
  PROVE  Ahead(c)'
<1> DEFINE s == toServer[c]
           t == Append(s, m)
<1>0. s \in Seq(ServerEvent)
  BY AheadTypes
<1>1. /\ t \in Seq(ServerEvent) /\ Len(t) = Len(s) + 1 /\ Len(s) \in Nat
      /\ \A j \in 1 .. Len(s) : t[j] = s[j]
      /\ t[Len(s) + 1] = m
  BY <1>0, Appended
<1>2. /\ \A i \in 1 .. Len(s) : SubSeq(t, 1, i) = SubSeq(s, 1, i)
      /\ SubSeq(t, 1, Len(s) + 1) = t
  BY <1>0, FrontAppend
<1>3. toServer'[c] = t
  OBVIOUS
<1>4. Len(ran[c]) \in Nat /\ Len(ran'[c]) \in Nat
  BY LengthsTyped
<1>5. m.type = "CLIENT_ORDER" => Dones(t) = Dones(s)
  <2>1. Dones(s) \in Nat
    BY <1>0, DonesType
  <2>2. Dones(t) = Dones(s) + IF m.type = "CLIENT_TICK_DONE" THEN 1 ELSE 0
    BY <1>0, DonesAppend
  <2> QED BY <2>1, <2>2
<1> HIDE DEF t
<1> SUFFICES ASSUME NEW i \in 1 .. Len(t), t[i].type = "CLIENT_ORDER"
             PROVE  /\ ticksDone[c] + Dones(SubSeq(t, 1, i)) <= t[i].order.at
                    /\ t[i].order.at <= Len(ran'[c])
  BY <1>1, <1>3 DEF Ahead
<1>6. CASE i \in 1 .. Len(s)
  <2>1. t[i] = s[i] /\ SubSeq(t, 1, i) = SubSeq(s, 1, i)
    BY <1>1, <1>2, <1>6
  <2>2. /\ ticksDone[c] + Dones(SubSeq(s, 1, i)) <= s[i].order.at
        /\ s[i].order.at <= Len(ran[c])
    BY <1>0, <1>6, <2>1 DEF Ahead
  <2>3. s[i].order.at \in Nat
    BY <1>6, <2>1, AheadTypes DEF Order
  <2>4. t[i].order.at <= Len(ran'[c])
    <3> HIDE DEF s
    <3> QED BY <1>4, <2>1, <2>2, <2>3
  <2> QED BY <2>1, <2>2, <2>4
<1>7. CASE i = Len(s) + 1
  <2>1. t[i] = m /\ SubSeq(t, 1, i) = t
    BY <1>1, <1>2, <1>7
  <2>2. Dones(t) = Dones(s) /\ m.order.at = Len(ran[c])
    BY <1>5, <2>1
  <2>3. ticksDone[c] + Dones(s) <= m.order.at
    BY <2>1
  <2> QED BY <1>4, <2>1, <2>2, <2>3
<1> QED BY <1>1, <1>6, <1>7
-----------------------------------------------------------------------------
(* Orders that have arrived *)

\* Nothing happens to them but at the server.
LEMMA CollectedKept ==
  ASSUME UNCHANGED <<nextOrders, log, players>>,
         Collected, OrderLatency, OrdersComeFromPlayers
  PROVE  Collected' /\ OrderLatency' /\ OrdersComeFromPlayers'
BY DEF Collected, OrderLatency, OrdersComeFromPlayers

\* The log grows by what has been collected.
LEMMA LogGrows ==
  ASSUME TypeOK, Collected, OrderLatency, OrdersComeFromPlayers,
         log' = Append(log, nextOrders), nextOrders' = << >>,
         players' = players
  PROVE  Collected' /\ OrderLatency' /\ OrdersComeFromPlayers'
<1>1. log \in Seq(Batch) /\ nextOrders \in Batch /\ nextOrders \in Seq(Order)
  BY DEF TypeOK, Batch
<1>2. /\ log' \in Seq(Batch) /\ Len(log') = Len(log) + 1 /\ Len(log) \in Nat
      /\ \A t \in 1 .. Len(log) : log'[t] = log[t]
      /\ log'[Len(log) + 1] = nextOrders
  BY <1>1, Appended
<1>3. \A i \in DOMAIN nextOrders : nextOrders[i].at \in Nat
  <2>1. \A i \in DOMAIN nextOrders : nextOrders[i] \in Order
    BY <1>1
  <2> QED BY <2>1 DEF Order
<1>4. Collected'
  BY DEF Collected
<1>5. ASSUME NEW t \in DOMAIN log', NEW i \in DOMAIN log'[t]
      PROVE  /\ log'[t][i].at < t /\ t <= log'[t][i].at + 3
             /\ log'[t][i].player \in players
  <2>1. CASE t \in 1 .. Len(log)
    <3>1. t \in DOMAIN log /\ log'[t] = log[t]
      BY <1>1, <1>2, <2>1
    <3> QED BY <1>5, <3>1 DEF OrderLatency, OrdersComeFromPlayers
  <2>2. CASE t = Len(log) + 1
    <3>1. log'[t] = nextOrders
      BY <1>2, <2>2
    <3>2. /\ nextOrders[i].at <= Len(log) /\ Len(log) <= nextOrders[i].at + 2
          /\ nextOrders[i].player \in players
      BY <1>5, <3>1 DEF Collected
    <3>3. nextOrders[i].at \in Nat
      BY <1>3, <1>5, <3>1
    <3> QED BY <1>2, <2>2, <3>1, <3>2, <3>3
  <2> QED BY <1>2, <1>5, <2>1, <2>2
<1> QED BY <1>4, <1>5 DEF OrderLatency, OrdersComeFromPlayers

\* The handler of an order collects it under the id of its sender, a player.
\* The server's clients are within two ticks of it (InWindow), and not ahead
\* (InStep); hence so is the tick in which the order was given.
LEMMA OrderArrives ==
  ASSUME TypeOK, IndInv, OrderInv, NEW c \in Clients, ServerHandleOrder(c)
  PROVE  Collected'
<1> DEFINE m == Head(toServer[c])
           o == [m.order EXCEPT !.player = id[c]]
<1>1. /\ toServer[c] # << >> /\ m.type = "CLIENT_ORDER"
      /\ nextOrders' = Append(nextOrders, o)
      /\ UNCHANGED <<players, log>>
  BY DEF ServerHandleOrder, Arrives, history
<1>2. link[c] = "open" /\ c \in clients /\ gameStarted
  BY <1>1, FirstEvent
<1>3. toServer[c] \in Seq(ServerEvent) /\ m = toServer[c][1]
      /\ 1 \in 1 .. Len(toServer[c]) /\ m \in ServerEvent
  BY <1>1 DEF TypeOK
<1> HIDE DEF m
<1>4. m.order \in Order
  BY <1>1, <1>3, EventContents
<1>5. id[c] \in players /\ id[c] \in Nat
  BY <1>2 DEF IndInv, PeerInv, CompleteInv, TypeOK
<1>6. o \in Order /\ o.player = id[c] /\ o.at = m.order.at
  BY <1>4, <1>5 DEF Order
<1>7. /\ ticksDone[c] + Dones(SubSeq(toServer[c], 1, 1)) <= m.order.at
      /\ m.order.at <= Len(ran[c])
  BY <1>1, <1>3 DEF OrderInv, Ahead
<1>8. Dones(SubSeq(toServer[c], 1, 1)) \in Nat
  BY <1>3, FrontType
<1>9. /\ ticksStarted <= ticksDone[c] + 2 /\ Len(log) = ticksStarted
      /\ Len(ran[c]) <= Len(log)
  BY <1>2 DEF IndInv, LogInv, PeerInv, InWindow, InStep
<1> HIDE DEF o
<1>10. o.at <= Len(log) /\ Len(log) <= o.at + 2
  <2>1. o.at \in Nat
    BY <1>6 DEF Order
  <2>2. /\ ticksDone[c] \in Nat /\ ticksStarted \in Nat
        /\ Len(ran[c]) \in Nat /\ Len(log) \in Nat
    BY CountsTyped
  <2>3. ticksDone[c] <= o.at /\ o.at <= Len(ran[c])
    BY <1>6, <1>7, <1>8, <2>1, <2>2
  <2> QED BY <1>9, <2>1, <2>2, <2>3
<1>11. nextOrders \in Seq(Order)
  BY DEF TypeOK, Batch
<1>12. /\ nextOrders' \in Seq(Order) /\ Len(nextOrders') = Len(nextOrders) + 1
       /\ \A i \in 1 .. Len(nextOrders) : nextOrders'[i] = nextOrders[i]
       /\ nextOrders'[Len(nextOrders) + 1] = o
       /\ Len(nextOrders) \in Nat
  BY <1>1, <1>6, <1>11, Appended
<1>13. ASSUME NEW i \in DOMAIN nextOrders'
       PROVE  /\ nextOrders'[i].player \in players
              /\ nextOrders'[i].at <= Len(log)
              /\ Len(log) <= nextOrders'[i].at + 2
  <2>1. CASE i \in 1 .. Len(nextOrders)
    <3>1. i \in DOMAIN nextOrders /\ nextOrders'[i] = nextOrders[i]
      BY <1>11, <1>12, <2>1
    <3> QED BY <3>1 DEF OrderInv, Collected
  <2>2. CASE i = Len(nextOrders) + 1
    BY <1>5, <1>6, <1>10, <1>12, <2>2
  <2> QED BY <1>12, <2>1, <2>2
<1> QED BY <1>1, <1>13 DEF Collected
-----------------------------------------------------------------------------
(* The steps *)

\* At first there is no order.
LEMMA OrderInit == Init => OrderInv
BY DEF Init, OrderInv, Ahead, Collected, OrderLatency, OrdersComeFromPlayers

\* The game starts without orders.
LEMMA OrderStart ==
  ASSUME TypeOK, TypeOK', IndInv, OrderInv, ServerStartGame
  PROVE  OrderInv'
<1>1. /\ ~ gameStarted /\ log' = log \o OpeningBatches /\ nextOrders' = << >>
      /\ UNCHANGED <<toServer, ticksDone, ran>>
  BY DEF ServerStartGame, clientVars
<1>2. log = << >> /\ nextOrders = << >>
  BY <1>1 DEF IndInv, LogInv
<1>3. log' = << << >>, << >> >>
  BY <1>1, <1>2 DEF OpeningBatches
<1>4. Collected' /\ OrderLatency' /\ OrdersComeFromPlayers'
  BY <1>1, <1>3 DEF Collected, OrderLatency, OrdersComeFromPlayers
<1>5. ASSUME NEW c \in Clients
      PROVE  Ahead(c)'
  <2>1. Len(ran[c]) <= Len(ran'[c])
    BY <1>1, CountsTyped
  <2> QED BY <1>1, <2>1, AheadKept DEF OrderInv
<1> QED BY <1>4, <1>5 DEF OrderInv

\* Nothing changes for a client whose queue and counts are left alone.
LEMMA OrderUntouched ==
  ASSUME TypeOK, TypeOK', OrderInv, NEW c \in Clients,
         toServer'[c] = toServer[c], ticksDone'[c] = ticksDone[c],
         ran'[c] = ran[c]
  PROVE  Ahead(c)'
<1>1. Len(ran[c]) <= Len(ran'[c])
  BY CountsTyped
<1> QED BY <1>1, AheadKept DEF OrderInv

\* A queue that is discarded holds no order.
LEMMA OrderClosed ==
  ASSUME TypeOK, TypeOK', OrderInv, NEW cs, ClosePeers(cs),
         UNCHANGED <<ticksDone, ran>>, NEW c \in Clients
  PROVE  Ahead(c)'
<1>1. CASE c \in cs
  <2>1. toServer'[c] = << >>
    BY <1>1 DEF ClosePeers
  <2> QED BY <2>1, AheadEmpty
<1>2. CASE c \notin cs
  <2>1. toServer'[c] = toServer[c]
    BY <1>2 DEF ClosePeers
  <2> QED BY <2>1, OrderUntouched
<1> QED BY <1>1, <1>2

\* The server handles an event of a client that it knows, or gets to know.
LEMMA OrderEvent ==
  ASSUME TypeOK, TypeOK', IndInv, OrderInv, NEW c \in Clients,
         ServerHandleEvent(c)
  PROVE  OrderInv'
<1> USE DEF OrderInv
<1>1. CASE ServerAccept(c)
  <2>1. /\ toServer[c] # << >>
        /\ Head(toServer[c]).type = "ENET_EVENT_TYPE_CONNECT"
        /\ toServer' = [toServer EXCEPT ![c] = Tail(@)]
        /\ ticksDone' = [ticksDone EXCEPT ![c] = 0]
        /\ UNCHANGED <<nextOrders, log, players, ran>>
    BY <1>1 DEF ServerAccept, Arrives, Dispatched, clientVars, history
  <2>2. toServer'[c] = <<ClientConnect>>
    <3>1. toServer[c] = <<ConnectEvent, ClientConnect>>
      BY <2>1, FirstEvent
    <3>2. toServer'[c] = Tail(toServer[c])
      BY <2>1 DEF TypeOK
    <3> QED BY <3>1, <3>2
  <2>3. Ahead(c)'
    BY <2>2, AheadEmpty DEF ClientConnect
  <2>4. \A d \in Clients : Ahead(d)'
    <3>1. ASSUME NEW d \in Clients, d # c
          PROVE  Ahead(d)'
      BY <2>1, <3>1, OrderUntouched DEF TypeOK
    <3> QED BY <2>3, <3>1
  <2> QED BY <2>1, <2>4, CollectedKept
<1>2. CASE ServerReject(c)
  <2>1. ClosePeers({c}) /\ UNCHANGED <<nextOrders, log, players, ticksDone, ran>>
    BY <1>2 DEF ServerReject, serverVars, clientVars, history
  <2>2. \A d \in Clients : Ahead(d)'
    BY <2>1, OrderClosed
  <2> QED BY <2>1, <2>2, CollectedKept
<1>3. CASE ServerHandleConnect(c) \/ ServerHandleOrder(c)
           \/ ServerHandleTickDone(c)
  <2>1. /\ toServer[c] # << >>
        /\ toServer' = [toServer EXCEPT ![c] = Tail(@)]
        /\ UNCHANGED <<log, players, ran>>
    BY <1>3 DEF ServerHandleConnect, ServerHandleOrder, ServerHandleTickDone,
                Arrives, Dispatched, clientVars, history
  <2>2. ticksDone' = [ticksDone EXCEPT ![c] = @ +
          IF Head(toServer[c]).type = "CLIENT_TICK_DONE" THEN 1 ELSE 0]
    <3>1. CASE ServerHandleTickDone(c)
      BY <3>1 DEF ServerHandleTickDone, Arrives
    <3>2. CASE ServerHandleConnect(c) \/ ServerHandleOrder(c)
      <4>1. /\ ticksDone' = ticksDone
            /\ Head(toServer[c]).type # "CLIENT_TICK_DONE"
        BY <3>2 DEF ServerHandleConnect, ServerHandleOrder, Arrives
      <4>2. ticksDone \in [Clients -> Nat]
        BY DEF TypeOK
      <4> QED BY <4>1, <4>2
    <3> QED BY <1>3, <3>1, <3>2
  <2>3. /\ toServer'[c] = Tail(toServer[c])
        /\ ticksDone'[c] = ticksDone[c] +
              IF Head(toServer[c]).type = "CLIENT_TICK_DONE" THEN 1 ELSE 0
        /\ \A d \in Clients : d # c => /\ toServer'[d] = toServer[d]
                                       /\ ticksDone'[d] = ticksDone[d]
    BY <2>1, <2>2 DEF TypeOK
  <2>4. Ahead(c)'
    BY <2>1, <2>3, AheadTail
  <2>5. \A d \in Clients : Ahead(d)'
    BY <2>1, <2>3, <2>4, OrderUntouched
  <2>6. Collected' /\ OrderLatency' /\ OrdersComeFromPlayers'
    <3>1. CASE ServerHandleOrder(c)
      <4>1. OrderLatency' /\ OrdersComeFromPlayers'
        BY <2>1 DEF OrderLatency, OrdersComeFromPlayers
      <4> QED BY <3>1, <4>1, OrderArrives
    <3>2. CASE ServerHandleConnect(c) \/ ServerHandleTickDone(c)
      <4>1. nextOrders' = nextOrders
        BY <3>2 DEF ServerHandleConnect, ServerHandleTickDone
      <4> QED BY <2>1, <4>1, CollectedKept
    <3> QED BY <1>3, <3>1, <3>2
  <2> QED BY <2>5, <2>6
<1> QED BY <1>1, <1>2, <1>3 DEF ServerHandleEvent

\* A client sends a message: that it has finished a tick, or an order.
LEMMA OrderSent ==
  ASSUME TypeOK, TypeOK', IndInv, OrderInv, NEW c \in Clients,
         NEW m \in ServerEvent, SendToServer(c, m),
         ticksDone' = ticksDone, Len(ran[c]) <= Len(ran'[c]),
         m.type = "CLIENT_ORDER" => simulating[c] /\ m.order.at = Len(ran[c])
  PROVE  Ahead(c)'
<1>1. CASE link[c] = "open"
  <2>1. toServer'[c] = Append(toServer[c], m)
    BY <1>1 DEF SendToServer, TypeOK
  <2>2. ASSUME m.type = "CLIENT_ORDER"
        PROVE  ticksDone[c] + Dones(toServer[c]) <= m.order.at
    <3>1. c \in clients
      BY <1>1, <2>2 DEF IndInv, PeerInv, UpInv
    <3>2. ticksDone[c] + Dones(toServer[c]) + Running(c) = Len(ran[c])
      BY <1>1, <3>1 DEF IndInv, PeerInv, AckInv
    <3>3. Dones(toServer[c]) \in Nat
      BY AheadTypes, DonesType
    <3> QED BY <2>2, <3>2, <3>3, CountsTyped
  <2> QED BY <2>1, <2>2, AheadAppend DEF OrderInv
<1>2. CASE link[c] # "open"
  <2>1. toServer' = toServer
    BY <1>2 DEF SendToServer
  <2> QED BY <2>1, AheadKept DEF OrderInv
<1> QED BY <1>1, <1>2

\* What a client does.
LEMMA OrderClient ==
  ASSUME TypeOK, TypeOK', IndInv, OrderInv, NEW c \in Clients,
         ClientFinishTick(c) \/ ClientIssuesOrder(c) \/ ClientHandleTick(c)
           \/ ClientConnects(c)
  PROVE  OrderInv'
<1>1. UNCHANGED <<nextOrders, log, players, ticksDone>>
  BY DEF ClientFinishTick, ClientIssuesOrder, ClientHandleTick,
         ClientConnects, serverVars, history
<1>2. \A d \in Clients : d # c => ran'[d] = ran[d] /\ toServer'[d] = toServer[d]
  <2>1. ran \in [Clients -> Seq(Batch)] /\ toServer \in [Clients -> Seq(ServerEvent)]
    BY DEF TypeOK
  <2>2. CASE ClientFinishTick(c)
    BY <2>1, <2>2 DEF ClientFinishTick, SendToServer
  <2>3. CASE ClientIssuesOrder(c)
    BY <2>1, <2>3 DEF ClientIssuesOrder, SendToServer, clientVars
  <2>4. CASE ClientHandleTick(c)
    BY <2>1, <2>4 DEF ClientHandleTick
  <2>5. CASE ClientConnects(c)
    BY <2>1, <2>5 DEF ClientConnects
  <2> QED BY <2>2, <2>3, <2>4, <2>5
<1>3. Len(ran[c]) <= Len(ran'[c])
  <2>1. \A b \in Batch : Len(Append(ran[c], b)) = Len(ran[c]) + 1
    BY Appended DEF TypeOK
  <2>2. \/ ran' = ran
        \/ \E b \in Batch : ran'[c] = Append(ran[c], b)
    <3>1. CASE ClientFinishTick(c)
      <4>1. ran \in [Clients -> Seq(Batch)] /\ queuedOrders[c] \in Batch
        BY DEF TypeOK
      <4> QED BY <3>1, <4>1 DEF ClientFinishTick
    <3>2. CASE ClientHandleTick(c)
      <4>1. CASE tickRunning[c]
        BY <3>2, <4>1 DEF ClientHandleTick
      <4>2. CASE ~ tickRunning[c]
        <5>1. /\ toClient[c] # << >> /\ Head(toClient[c]).type = "SERVER_TICK"
              /\ ran' = [ran EXCEPT ![c] = Append(@, Head(toClient[c]).orders)]
          BY <3>2, <4>2 DEF ClientHandleTick, Receives
        <5>2. Head(toClient[c]) \in ClientMessage
          <6>1. toClient[c] \in Seq(ClientMessage)
            BY DEF TypeOK
          <6> QED BY <5>1, <6>1, HeadTailProperties
        <5>3. Head(toClient[c]).orders \in Batch
          BY <5>1, <5>2, MessageContents
        <5> QED BY <5>1, <5>3 DEF TypeOK
      <4> QED BY <4>1, <4>2
    <3>3. CASE ClientIssuesOrder(c) \/ ClientConnects(c)
      BY <3>3 DEF ClientIssuesOrder, ClientConnects, clientVars
    <3> QED BY <3>1, <3>2, <3>3
  <2> QED BY <2>1, <2>2, CountsTyped
<1>4. Ahead(c)'
  <2>1. CASE ClientFinishTick(c)
    <3>1. SendToServer(c, ClientTickDone)
      BY <2>1 DEF ClientFinishTick
    <3>2. ClientTickDone \in ServerEvent /\ ClientTickDone.type # "CLIENT_ORDER"
      BY EventsTyped DEF ClientTickDone
    <3> QED BY <1>1, <1>3, <3>1, <3>2, OrderSent
  <2>2. CASE ClientIssuesOrder(c)
    <3> DEFINE o == [player |-> playerId[c], n |-> issued[c] + 1,
                     at |-> Len(ran[c])]
    <3>1. o \in Order /\ o.at = Len(ran[c])
      <4>1. playerId[c] \in Nat /\ issued[c] \in Nat
        BY DEF TypeOK
      <4> QED BY <4>1, CountsTyped DEF Order
    <3>2. SendToServer(c, ClientOrder(o)) /\ simulating[c]
      BY <2>2 DEF ClientIssuesOrder
    <3> HIDE DEF o
    <3>3. ClientOrder(o) \in ServerEvent /\ ClientOrder(o).order = o
      BY <3>1, EventsTyped DEF ClientOrder
    <3> QED BY <1>1, <1>3, <3>1, <3>2, <3>3, OrderSent
  <2>3. CASE ClientHandleTick(c)
    <3>1. UNCHANGED toServer
      BY <2>3 DEF ClientHandleTick
    <3> QED BY <1>1, <1>3, <3>1, AheadKept DEF OrderInv
  <2>4. CASE ClientConnects(c)
    <3>1. toServer'[c] = <<ConnectEvent, ClientConnect>>
      BY <2>4 DEF ClientConnects, TypeOK
    <3> QED BY <3>1, AheadEmpty DEF ConnectEvent, ClientConnect
  <2> QED BY <2>1, <2>2, <2>3, <2>4
<1>5. \A d \in Clients : Ahead(d)'
  BY <1>1, <1>2, <1>4, OrderUntouched
<1> QED BY <1>1, <1>5, CollectedKept DEF OrderInv

\* Steps that neither send, handle nor run anything.
LEMMA OrderOther ==
  ASSUME TypeOK, TypeOK', OrderInv,
         UNCHANGED <<toServer, ticksDone, ran, nextOrders, log, players>>
  PROVE  OrderInv'
<1>1. \A c \in Clients : Ahead(c)'
  BY OrderUntouched
<1> QED BY <1>1, CollectedKept DEF OrderInv

\* Steps that close connections.
LEMMA OrderClosing ==
  ASSUME TypeOK, TypeOK', OrderInv, NEW cs, ClosePeers(cs),
         UNCHANGED <<ticksDone, ran, nextOrders, log, players>>
  PROVE  OrderInv'
<1>1. \A c \in Clients : Ahead(c)'
  BY OrderClosed
<1> QED BY <1>1, CollectedKept DEF OrderInv

\* All steps keep the invariant.
LEMMA OrderStep ==
  TypeOK /\ TypeOK' /\ IndInv /\ OrderInv /\ [Next]_vars => OrderInv'
<1> SUFFICES ASSUME TypeOK, TypeOK', IndInv, OrderInv, [Next]_vars
             PROVE  OrderInv'
  OBVIOUS
<1>1. CASE ServerStartGame
  BY <1>1, OrderStart
<1>2. CASE ServerStartTick
  <2>1. /\ log' = Append(log, nextOrders) /\ nextOrders' = << >>
        /\ UNCHANGED <<players, toServer, ticksDone, ran>>
    BY <1>2 DEF ServerStartTick, clientVars
  <2>2. \A c \in Clients : Ahead(c)'
    BY <2>1, OrderUntouched
  <2> QED BY <2>1, <2>2, LogGrows DEF OrderInv
<1>3. CASE ServerAbort \/ ServerExit
  <2>1. /\ ClosePeers(OpenPeers)
        /\ UNCHANGED <<ticksDone, ran, nextOrders, log, players>>
    BY <1>3 DEF ServerAbort, ServerExit, clientVars, history
  <2> QED BY <2>1, OrderClosing
<1>4. ASSUME NEW c \in Clients, ServerHandleEvent(c)
      PROVE  OrderInv'
  BY <1>4, OrderEvent
<1>5. ASSUME NEW c \in Clients, ServerHandleDisconnect(c) \/ HandshakeFails(c)
      PROVE  OrderInv'
  <2>1. /\ ClosePeers({c})
        /\ UNCHANGED <<ticksDone, ran, nextOrders, log, players>>
    BY <1>5 DEF ServerHandleDisconnect, HandshakeFails, serverVars,
                clientVars, history
  <2> QED BY <2>1, OrderClosing
<1>6. ASSUME NEW c \in Clients,
             ClientFinishTick(c) \/ ClientIssuesOrder(c)
               \/ ClientHandleTick(c) \/ ClientConnects(c)
      PROVE  OrderInv'
  BY <1>6, OrderClient
<1>7. ASSUME NEW c \in Clients,
             ClientHandleConnect(c) \/ ClientHandleStart(c)
               \/ ClientExits(c) \/ ConnectionLost(c)
      PROVE  OrderInv'
  <2>1. UNCHANGED <<toServer, ticksDone, ran, nextOrders, log, players>>
    BY <1>7 DEF ClientHandleConnect, ClientHandleStart, ClientExits,
                ConnectionLost, serverVars, clientVars, enetVars, history
  <2> QED BY <2>1, OrderOther
<1>8. CASE UNCHANGED vars
  <2>1. UNCHANGED <<toServer, ticksDone, ran, nextOrders, log, players>>
    BY <1>8 DEF vars, serverVars, clientVars, enetVars, history
  <2> QED BY <2>1, OrderOther
<1> QED
  BY <1>1, <1>2, <1>3, <1>4, <1>5, <1>6, <1>7, <1>8
  DEF Next, ServerStep, ClientHandleMessage

\* So it always holds.
LEMMA OrderHolds == Spec => []OrderInv
<1>1. Init => OrderInv
  BY OrderInit
<1>2. TypeOK /\ TypeOK' /\ IndInv /\ OrderInv /\ [Next]_vars => OrderInv'
  BY OrderStep
<1> QED BY <1>1, <1>2, TypeCorrect, Invariant, PTL DEF Spec

\* Sim::runTick finds the player of every order (the assert of
\* SimState.cc:261), also when he has left.
THEOREM PlayersAreKnown == Spec => []OrdersComeFromPlayers
<1>1. OrderInv => OrdersComeFromPlayers
  BY DEF OrderInv
<1> QED BY <1>1, OrderHolds, PTL

\* An order runs after all ticks its player had seen, and at most three
\* ticks later (Server.cc:105 and :161).
THEOREM OrdersRunInTime == Spec => []OrderLatency
<1>1. OrderInv => OrderLatency
  BY DEF OrderInv
<1> QED BY <1>1, OrderHolds, PTL
-----------------------------------------------------------------------------
(* No order is lost, repeated or overtaken.  The numbers of a player's      *)
(* orders are 1..j in the batches and j+1..k on their way.                  *)

PlacesInOrder(c) ==
  \A p, q \in PlacesOf(c) : Before(p, q) => OrderAt(p).n < OrderAt(q).n

SendingInOrder(c) ==
  \A i, j \in Sending(c) : i < j => NumberOf(c, i) < NumberOf(c, j)

Numbered(c) ==
  \E j, k \in 0 .. issued[c] :
    /\ j <= k
    /\ Taken(c) = 1 .. j /\ Sent(c) = (j + 1) .. k
    /\ c \in clients => k = issued[c]

Kept(c) == PlacesInOrder(c) /\ SendingInOrder(c) /\ Numbered(c)

\* It is so for all that the server has given an id.
KeepInv == \A c \in Clients : id[c] # 0 => Kept(c)

\* Nobody gives orders before his game has started; when the server ends
\* in the course of the game it has no clients; ids are unique.
Alone ==
  /\ \A c \in Clients : ~ simulating[c] => issued[c] = 0
  /\ gameStarted /\ (quit \/ server # "running") => clients = {}
  /\ \A c \in Clients : id[c] <= playerCounter
  /\ \A c, d \in Clients : id[c] = id[d] /\ id[c] # 0 => c = d

\* There are no orders before the game.
Quiet ==
  ~ gameStarted => /\ Places = {}
                   /\ \A c \in Clients : Sending(c) = {} /\ issued[c] = 0

\* It implies the property.
LEMMA KeptIsKept ==
  ASSUME TypeOK, KeepInv
  PROVE  OrdersKept
<1> SUFFICES ASSUME NEW c \in Clients, id[c] # 0
             PROVE  InOrder(c) /\ NoneLost(c)
  BY DEF OrdersKept
<1>1. PICK j \in 0 .. issued[c], k \in 0 .. issued[c] :
        /\ j <= k
        /\ Taken(c) = 1 .. j /\ Sent(c) = (j + 1) .. k
        /\ c \in clients => k = issued[c]
  BY DEF KeepInv, Kept, Numbered
<1>2. issued[c] \in Nat
  BY DEF TypeOK
<1>3. Taken(c) \cup Sent(c) = 1 .. k
  BY <1>1, <1>2
<1>4. \A m \in Taken(c), n \in Sent(c) : m < n
  BY <1>1, <1>2
<1>5. NoneLost(c)
  BY <1>1, <1>3 DEF NoneLost
<1> QED
  BY <1>4, <1>5 DEF InOrder, KeepInv, Kept, PlacesInOrder, SendingInOrder
-----------------------------------------------------------------------------
(* The places of orders *)

\* A place is the number of a batch, and one in the batch.
LEMMA PlaceIs ==
  \A p : p \in Places <=> \E t \in DOMAIN Batches :
                            \E i \in DOMAIN Batches[t] : p = <<t, i>>
BY DEF Places

\* The batches, one by one.
LEMMA BatchAt ==
  ASSUME TypeOK
  PROVE  /\ DOMAIN Batches = 1 .. Len(log) + 1 /\ Len(log) \in Nat
         /\ \A t \in 1 .. Len(log) : Batches[t] = log[t]
         /\ Batches[Len(log) + 1] = nextOrders
         /\ nextOrders \in Seq(Order)
         /\ \A t \in 1 .. Len(log) : log[t] \in Seq(Order)
<1>1. log \in Seq(Batch) /\ nextOrders \in Batch
  BY DEF TypeOK
<1>2. /\ Batches \in Seq(Batch) /\ Len(Batches) = Len(log) + 1
      /\ \A t \in 1 .. Len(log) : Batches[t] = log[t]
      /\ Batches[Len(log) + 1] = nextOrders
  BY <1>1, Appended DEF Batches
<1>3. \A t \in 1 .. Len(log) : log[t] \in Batch
  BY <1>1
<1> QED BY <1>1, <1>2, <1>3 DEF Batch

\* The same after a step.
LEMMA BatchAtNext ==
  ASSUME TypeOK'
  PROVE  /\ DOMAIN Batches' = 1 .. Len(log') + 1 /\ Len(log') \in Nat
         /\ \A t \in 1 .. Len(log') : Batches'[t] = log'[t]
         /\ Batches'[Len(log') + 1] = nextOrders'
<1>1. log' \in Seq(Batch) /\ nextOrders' \in Batch
  BY DEF TypeOK
<1>2. /\ Batches' \in Seq(Batch) /\ Len(Batches') = Len(log') + 1
      /\ \A t \in 1 .. Len(log') : Batches'[t] = log'[t]
      /\ Batches'[Len(log') + 1] = nextOrders'
  BY <1>1, Appended DEF Batches
<1> QED BY <1>1, <1>2

\* There are none in empty batches.
LEMMA NoPlaces ==
  ASSUME TypeOK, nextOrders = << >>, \A t \in 1 .. Len(log) : log[t] = << >>
  PROVE  Places = {}
<1>1. \A t \in DOMAIN Batches : Batches[t] = << >>
  BY BatchAt
<1>2. \A t \in DOMAIN Batches : DOMAIN Batches[t] = {}
  BY <1>1
<1> QED BY <1>2 DEF Places

\* Nor after a step.
LEMMA NoPlacesNext ==
  ASSUME TypeOK', nextOrders' = << >>,
         \A t \in 1 .. Len(log') : log'[t] = << >>
  PROVE  Places' = {}
<1>1. \A t \in DOMAIN Batches' : Batches'[t] = << >>
  BY BatchAtNext
<1>2. \A t \in DOMAIN Batches' : DOMAIN Batches'[t] = {}
  BY <1>1
<1> QED BY <1>2 DEF Places

\* When a tick starts no order changes its place.
LEMMA PlacesTick ==
  ASSUME TypeOK, TypeOK', log' = Append(log, nextOrders), nextOrders' = << >>
  PROVE  Places' = Places /\ \A p \in Places : OrderAt(p)' = OrderAt(p)
<1>1. log \in Seq(Batch) /\ nextOrders \in Batch
  BY DEF TypeOK
<1>2. /\ Len(log') = Len(log) + 1 /\ Len(log) \in Nat
      /\ \A t \in 1 .. Len(log) : log'[t] = log[t]
      /\ log'[Len(log) + 1] = nextOrders
  BY <1>1, Appended
<1>3. DOMAIN Batches' = DOMAIN Batches \cup {Len(log) + 2}
  BY <1>2, BatchAt, BatchAtNext
<1>4. \A t \in DOMAIN Batches : Batches'[t] = Batches[t]
  BY <1>2, BatchAt, BatchAtNext
<1>5. Batches'[Len(log) + 2] = << >>
  BY <1>2, BatchAtNext
<1>6. DOMAIN Batches'[Len(log) + 2] = {}
  BY <1>5
<1>7. Places' = Places
  BY <1>3, <1>4, <1>6 DEF Places
<1>8. ASSUME NEW p \in Places
      PROVE  OrderAt(p)' = OrderAt(p)
  <2>1. p[1] \in DOMAIN Batches
    BY PlaceIs
  <2> QED BY <1>4, <2>1 DEF OrderAt
<1> QED BY <1>7, <1>8

\* The place of an order that arrives is behind all others.
LEMMA PlacesOrder ==
  ASSUME TypeOK, TypeOK', log' = log, NEW o \in Order,
         nextOrders' = Append(nextOrders, o)
  PROVE  \E q : /\ Places' = Places \cup {q} /\ q \notin Places
                /\ OrderAt(q)' = o
                /\ \A p \in Places : /\ OrderAt(p)' = OrderAt(p)
                                     /\ ~ Before(q, p)
                /\ ~ Before(q, q)
<1>a. PICK l, n : l = Len(log) + 1 /\ n = Len(nextOrders) + 1
  OBVIOUS
<1> DEFINE q == <<l, n>>
<1>1. /\ nextOrders \in Seq(Order) /\ Len(nextOrders) \in Nat
      /\ l \in Nat /\ l >= 1 /\ l - 1 = Len(log)
  BY <1>a, BatchAt
<1>2. /\ nextOrders' \in Seq(Order) /\ Len(nextOrders') = n
      /\ \A i \in 1 .. Len(nextOrders) : nextOrders'[i] = nextOrders[i]
      /\ nextOrders'[n] = o
  BY <1>1, <1>a, Appended
<1>3. /\ DOMAIN Batches = 1 .. l /\ DOMAIN Batches' = 1 .. l
      /\ \A t \in 1 .. l : t # l => Batches'[t] = Batches[t]
      /\ Batches[l] = nextOrders /\ Batches'[l] = nextOrders'
  <2>1. /\ DOMAIN Batches = 1 .. l /\ Batches[l] = nextOrders
        /\ \A t \in 1 .. Len(log) : Batches[t] = log[t]
    BY <1>a, BatchAt
  <2>2. /\ DOMAIN Batches' = 1 .. l /\ Batches'[l] = nextOrders'
        /\ \A t \in 1 .. Len(log) : Batches'[t] = log[t]
    BY <1>a, BatchAtNext
  <2>3. \A t \in 1 .. l : t # l => t \in 1 .. Len(log)
    BY <1>1
  <2> QED BY <2>1, <2>2, <2>3
<1>4. /\ DOMAIN nextOrders = 1 .. Len(nextOrders)
      /\ DOMAIN nextOrders' = 1 .. n
  BY <1>1, <1>2, <1>a
<1>5. ASSUME NEW t, NEW i
      PROVE  /\ <<t, i>> \in Places <=>
                  t \in DOMAIN Batches /\ i \in DOMAIN Batches[t]
             /\ <<t, i>> \in Places' <=>
                  t \in DOMAIN Batches' /\ i \in DOMAIN Batches'[t]
  BY DEF Places
<1>6. ASSUME NEW p \in Places
      PROVE  /\ p \in Places' /\ OrderAt(p)' = OrderAt(p) /\ ~ Before(q, p)
             /\ p # q
  <2>1. PICK t \in DOMAIN Batches : \E i \in DOMAIN Batches[t] : p = <<t, i>>
    BY PlaceIs
  <2>2. PICK i \in DOMAIN Batches[t] : p = <<t, i>>
    BY <2>1
  <2>3. t \in 1 .. l /\ t \in Nat
    BY <1>1, <1>3, <2>1
  <2>4. CASE t = l
    <3>1. i \in 1 .. Len(nextOrders)
      BY <1>3, <1>4, <2>2, <2>4
    <3>2. i \in DOMAIN nextOrders' /\ nextOrders'[i] = nextOrders[i]
      BY <1>1, <1>2, <1>4, <3>1
    <3>3. p \in Places'
      BY <1>3, <1>5, <2>2, <2>3, <2>4, <3>2
    <3>4. OrderAt(p)' = OrderAt(p)
      BY <1>3, <2>2, <2>4, <3>2 DEF OrderAt
    <3>5. i < n /\ i \in Nat /\ n \in Nat
      BY <1>1, <1>a, <3>1
    <3> QED BY <1>1, <2>2, <2>4, <3>3, <3>4, <3>5 DEF Before
  <2>5. CASE t # l
    <3>1. t < l
      BY <1>1, <2>3, <2>5
    <3>2. p \in Places'
      BY <1>3, <1>5, <2>2, <2>3, <2>5
    <3>3. OrderAt(p)' = OrderAt(p)
      BY <1>3, <2>2, <2>3, <2>5 DEF OrderAt
    <3> QED BY <1>1, <2>2, <2>3, <3>1, <3>2, <3>3 DEF Before
  <2> QED BY <2>4, <2>5
<1>7. q \in Places' /\ OrderAt(q)' = o /\ ~ Before(q, q)
  <2>1. l \in DOMAIN Batches' /\ n \in DOMAIN Batches'[l]
    BY <1>1, <1>3, <1>4, <1>a
  <2>2. q \in Places'
    BY <1>5, <2>1
  <2>3. OrderAt(q)' = o
    BY <1>2, <1>3 DEF OrderAt
  <2>4. ~ Before(q, q)
    BY <1>1, <1>a DEF Before
  <2> QED BY <2>2, <2>3, <2>4
<1>8. ASSUME NEW p \in Places', p # q
      PROVE  p \in Places
  <2>1. PICK t \in DOMAIN Batches' : \E i \in DOMAIN Batches'[t] : p = <<t, i>>
    BY DEF Places
  <2>2. PICK i \in DOMAIN Batches'[t] : p = <<t, i>>
    BY <2>1
  <2>3. CASE t = l
    <3>1. i \in 1 .. n /\ i # n
      BY <1>3, <1>4, <1>8, <2>2, <2>3
    <3>2. i \in DOMAIN nextOrders
      BY <1>1, <1>4, <1>a, <3>1
    <3> QED BY <1>1, <1>3, <1>5, <2>2, <2>3, <3>2
  <2>4. CASE t # l
    BY <1>3, <1>5, <2>1, <2>2, <2>4
  <2> QED BY <2>3, <2>4
<1>9. Places' = Places \cup {q}
  BY <1>6, <1>7, <1>8
<1>10. q \notin Places
  BY <1>6
<1> HIDE DEF q
<1> QED BY <1>6, <1>7, <1>9, <1>10
-----------------------------------------------------------------------------
(* Orders on their way, and what they leave alone *)

\* What is known of the types.
LEMMA SendingTypes ==
  ASSUME TypeOK, NEW c \in Clients
  PROVE  /\ toServer[c] \in Seq(ServerEvent) /\ Len(toServer[c]) \in Nat
         /\ DOMAIN toServer[c] = 1 .. Len(toServer[c])
         /\ Sending(c) \subseteq 1 .. Len(toServer[c])
         /\ \A i \in Sending(c) : NumberOf(c, i) \in Nat
<1>1. toServer[c] \in Seq(ServerEvent)
  BY DEF TypeOK
<1>2. \A i \in DOMAIN toServer[c] : toServer[c][i] \in ServerEvent
  BY <1>1
<1>3. \A i \in Sending(c) : NumberOf(c, i) \in Nat
  BY <1>2, EventContents DEF Sending, NumberOf, Order
<1> QED BY <1>1, <1>3 DEF Sending

\* Nothing is said of a client without orders.
LEMMA KeptNone ==
  ASSUME NEW c \in Clients, Places' = {}, Sending(c)' = {}, issued'[c] = 0
  PROVE  Kept(c)'
<1>1. PlacesOf(c)' = {}
  BY DEF PlacesOf
<1>2. Taken(c)' = {} /\ Sent(c)' = {}
  BY <1>1 DEF Taken, Sent
<1>3. Numbered(c)'
  <2>1. 0 \in 0 .. issued'[c] /\ 0 <= 0 /\ 1 .. 0 = {} /\ (0 + 1) .. 0 = {}
    OBVIOUS
  <2> QED BY <1>2, <2>1 DEF Numbered
<1> QED BY <1>1, <1>3 DEF Kept, PlacesInOrder, SendingInOrder

\* Orders that keep their places stay in order.
LEMMA SamePlaces ==
  ASSUME NEW c \in Clients, PlacesOf(c)' = PlacesOf(c),
         \A p \in PlacesOf(c) : OrderAt(p)' = OrderAt(p)
  PROVE  /\ Taken(c)' = Taken(c)
         /\ PlacesInOrder(c) => PlacesInOrder(c)'
<1>1. Taken(c)' = Taken(c)
  BY DEF Taken
<1>2. ASSUME PlacesInOrder(c), NEW p \in PlacesOf(c), NEW q \in PlacesOf(c),
             Before(p, q)
      PROVE  OrderAt(p)'.n < OrderAt(q)'.n
  BY <1>2 DEF PlacesInOrder
<1>3. PlacesInOrder(c) => PlacesInOrder(c)'
  <2> SUFFICES ASSUME PlacesInOrder(c), NEW p \in PlacesOf(c)',
                      NEW q \in PlacesOf(c)', Before(p, q)
               PROVE  OrderAt(p)'.n < OrderAt(q)'.n
    BY DEF PlacesInOrder, Before
  <2> QED BY <1>2
<1> QED BY <1>1, <1>3

\* The batches are the same, or but a new one is begun.
LEMMA PlacesKept ==
  ASSUME NEW c \in Clients, Places' = Places, id' = id,
         \A p \in Places : OrderAt(p)' = OrderAt(p)
  PROVE  /\ PlacesOf(c)' = PlacesOf(c)
         /\ \A p \in PlacesOf(c) : OrderAt(p)' = OrderAt(p)
<1>1. \A p \in PlacesOf(c) : OrderAt(p)' = OrderAt(p)
  BY DEF PlacesOf
<1>2. ASSUME NEW p \in Places
      PROVE  OrderAt(p)'.player = id'[c] <=> OrderAt(p).player = id[c]
  OBVIOUS
<1>3. PlacesOf(c)' = PlacesOf(c)
  BY <1>2 DEF PlacesOf
<1> QED BY <1>1, <1>3

\* So they are when log and collected orders are left alone.
LEMMA PlacesSame ==
  ASSUME log' = log, nextOrders' = nextOrders
  PROVE  Places' = Places /\ \A p \in Places : OrderAt(p)' = OrderAt(p)
<1>1. Batches' = Batches
  BY DEF Batches
<1>2. Places' = Places
  BY <1>1 DEF Places
<1>3. \A p \in Places : OrderAt(p)' = OrderAt(p)
  BY <1>1 DEF OrderAt
<1> QED BY <1>2, <1>3

\* A queue that is left alone, or holds none before and after.
LEMMA SameSending ==
  ASSUME NEW c \in Clients,
         \/ toServer'[c] = toServer[c]
         \/ Sending(c) = {} /\ Sending(c)' = {}
  PROVE  /\ Sent(c)' = Sent(c)
         /\ SendingInOrder(c) => SendingInOrder(c)'
<1>1. CASE toServer'[c] = toServer[c]
  <2>1. Sending(c)' = Sending(c)
    BY <1>1 DEF Sending
  <2>2. \A i \in Sending(c) : NumberOf(c, i)' = NumberOf(c, i)
    BY <1>1 DEF NumberOf
  <2>3. Sent(c)' = Sent(c)
    BY <2>1, <2>2 DEF Sent
  <2>4. SendingInOrder(c) => SendingInOrder(c)'
    BY <1>1, <2>1 DEF SendingInOrder, NumberOf
  <2> QED BY <2>3, <2>4
<1>2. CASE Sending(c) = {} /\ Sending(c)' = {}
  BY <1>2 DEF Sent, SendingInOrder
<1> QED BY <1>1, <1>2

\* The first event is handled: the orders move up, and it is one no more.
LEMMA SendingTail ==
  ASSUME TypeOK, NEW c \in Clients, toServer[c] # << >>,
         toServer'[c] = Tail(toServer[c]), SendingInOrder(c)
  PROVE  /\ SendingInOrder(c)'
         /\ Sent(c)' = {NumberOf(c, i) : i \in Sending(c) \ {1}}
<1> DEFINE s == toServer[c]
           t == Tail(s)
<1>1. /\ s \in Seq(ServerEvent) /\ Len(s) \in Nat /\ DOMAIN s = 1 .. Len(s)
      /\ t \in Seq(ServerEvent) /\ Len(t) = Len(s) - 1
      /\ DOMAIN t = 1 .. Len(s) - 1
      /\ \A i \in 1 .. Len(t) : t[i] = s[i + 1]
  <2>1. s \in Seq(ServerEvent)
    BY DEF TypeOK
  <2>2. t \in Seq(ServerEvent) /\ Len(t) = Len(s) - 1
    BY <2>1, HeadTailProperties
  <2>3. \A i \in 1 .. Len(t) : t[i] = s[i + 1]
    BY <2>1, HeadTailProperties
  <2> QED BY <2>1, <2>2, <2>3
<1>2. toServer'[c] = t
  OBVIOUS
<1>3. s = toServer[c]
  OBVIOUS
<1> HIDE DEF s, t
<1>4. ASSUME NEW i \in Sending(c)'
      PROVE  /\ i \in Nat /\ i + 1 \in Sending(c) \ {1}
             /\ NumberOf(c, i)' = NumberOf(c, i + 1)
  <2>1. i \in 1 .. Len(t) /\ t[i].type = "CLIENT_ORDER"
    BY <1>1, <1>2 DEF Sending
  <2>2. i + 1 \in 1 .. Len(s) /\ t[i] = s[i + 1] /\ i + 1 # 1 /\ i \in Nat
    BY <1>1, <2>1
  <2>3. i + 1 \in Sending(c)
    BY <1>1, <1>3, <2>1, <2>2 DEF Sending
  <2>4. NumberOf(c, i)' = NumberOf(c, i + 1)
    BY <1>2, <1>3, <2>2 DEF NumberOf
  <2> QED BY <2>2, <2>3, <2>4
<1>5. ASSUME NEW k \in Sending(c) \ {1}
      PROVE  k - 1 \in Sending(c)' /\ NumberOf(c, k - 1)' = NumberOf(c, k)
  <2>1. k \in 1 .. Len(s) /\ s[k].type = "CLIENT_ORDER" /\ k # 1
    BY <1>1, <1>3 DEF Sending
  <2>2. k - 1 \in 1 .. Len(t) /\ t[k - 1] = s[k]
    BY <1>1, <2>1
  <2>3. k - 1 \in Sending(c)'
    BY <1>1, <1>2, <2>1, <2>2 DEF Sending
  <2>4. NumberOf(c, k - 1)' = NumberOf(c, k)
    BY <1>2, <1>3, <2>2 DEF NumberOf
  <2> QED BY <2>3, <2>4
<1>6. SendingInOrder(c)'
  <2> SUFFICES ASSUME NEW i \in Sending(c)', NEW j \in Sending(c)', i < j
               PROVE  NumberOf(c, i)' < NumberOf(c, j)'
    BY DEF SendingInOrder, NumberOf
  <2>1. /\ i \in Nat /\ j \in Nat
        /\ i + 1 \in Sending(c) /\ j + 1 \in Sending(c)
        /\ NumberOf(c, i)' = NumberOf(c, i + 1)
        /\ NumberOf(c, j)' = NumberOf(c, j + 1)
    BY <1>4
  <2>2. i + 1 < j + 1
    BY <2>1
  <2>3. NumberOf(c, i + 1) < NumberOf(c, j + 1)
    BY <2>1, <2>2 DEF SendingInOrder
  <2> QED BY <2>1, <2>3
<1>7. Sent(c)' = {NumberOf(c, i) : i \in Sending(c) \ {1}}
  <2>1. ASSUME NEW x \in Sent(c)'
        PROVE  x \in {NumberOf(c, i) : i \in Sending(c) \ {1}}
    <3>1. PICK i \in Sending(c)' : x = NumberOf(c, i)'
      BY DEF Sent, NumberOf
    <3> QED BY <1>4, <3>1
  <2>2. ASSUME NEW k \in Sending(c) \ {1}
        PROVE  NumberOf(c, k) \in Sent(c)'
    BY <1>5 DEF Sent, NumberOf
  <2> QED BY <2>1, <2>2
<1> QED BY <1>6, <1>7

\* An event is sent: if it is an order, it is the last.
LEMMA SendingAppend ==
  ASSUME TypeOK, NEW c \in Clients, NEW m \in ServerEvent,
         toServer'[c] = Append(toServer[c], m), SendingInOrder(c),
         m.type = "CLIENT_ORDER" =>
           \A i \in Sending(c) : NumberOf(c, i) < m.order.n
  PROVE  /\ SendingInOrder(c)'
         /\ Sent(c)' = Sent(c) \cup IF m.type = "CLIENT_ORDER"
                                      THEN {m.order.n} ELSE {}
<1>a. PICK s, l : s = toServer[c] /\ l = Len(s) + 1
  OBVIOUS
<1>b. PICK t : t = Append(s, m)
  OBVIOUS
<1>1. /\ s \in Seq(ServerEvent) /\ Len(s) \in Nat /\ DOMAIN s = 1 .. Len(s)
      /\ DOMAIN t = 1 .. l /\ t[l] = m
      /\ \A i \in 1 .. Len(s) : t[i] = s[i]
  BY <1>a, <1>b, Appended, SendingTypes
<1>2. toServer'[c] = t /\ toServer[c] = s
  BY <1>a, <1>b
<1>3. Sending(c)' = Sending(c) \cup IF m.type = "CLIENT_ORDER"
                                      THEN {l} ELSE {}
  <2>1. Sending(c) = {i \in 1 .. Len(s) : s[i].type = "CLIENT_ORDER"}
    BY <1>1, <1>2 DEF Sending
  <2>2. Sending(c)' = {i \in 1 .. l : t[i].type = "CLIENT_ORDER"}
    BY <1>1, <1>2 DEF Sending
  <2>3. 1 .. l = (1 .. Len(s)) \cup {l} /\ l \notin 1 .. Len(s)
    BY <1>1, <1>a
  <2> QED BY <1>1, <2>1, <2>2, <2>3
<1>4. \A i \in Sending(c) : /\ NumberOf(c, i)' = NumberOf(c, i)
                            /\ i < l /\ i \in Nat /\ l \in Nat
  BY <1>1, <1>2, <1>a DEF Sending, NumberOf
<1>5. NumberOf(c, l)' = m.order.n
  BY <1>1, <1>2 DEF NumberOf
<1>6. SendingInOrder(c)'
  <2> SUFFICES ASSUME NEW i \in Sending(c)', NEW j \in Sending(c)', i < j
               PROVE  NumberOf(c, i)' < NumberOf(c, j)'
    BY DEF SendingInOrder, NumberOf
  <2>1. CASE i \in Sending(c) /\ j \in Sending(c)
    <3>1. NumberOf(c, i) < NumberOf(c, j)
      BY <2>1 DEF SendingInOrder
    <3> QED BY <1>4, <2>1, <3>1
  <2>2. CASE i \in Sending(c) /\ j \notin Sending(c)
    <3>1. j = l /\ m.type = "CLIENT_ORDER"
      BY <1>3, <2>2
    <3>2. NumberOf(c, i) < m.order.n
      BY <2>2, <3>1
    <3> QED BY <1>4, <1>5, <2>2, <3>1, <3>2
  <2>3. CASE i \notin Sending(c)
    <3>1. i = l
      BY <1>3, <2>3
    <3>2. j \in Sending(c) \/ j = l
      BY <1>3
    <3>3. l \in Nat
      BY <1>1, <1>a
    <3> QED BY <1>4, <3>1, <3>2, <3>3
  <2> QED BY <2>1, <2>2, <2>3
<1>7. Sent(c)' = {NumberOf(c, i)' : i \in Sending(c)'}
  BY DEF Sent, NumberOf
<1>8. Sent(c)' = Sent(c) \cup IF m.type = "CLIENT_ORDER"
                                THEN {m.order.n} ELSE {}
  <2>1. CASE m.type = "CLIENT_ORDER"
    <3>1. Sending(c)' = Sending(c) \cup {l}
      BY <1>3, <2>1
    <3> QED BY <1>4, <1>5, <1>7, <2>1, <3>1 DEF Sent
  <2>2. CASE m.type # "CLIENT_ORDER"
    <3>1. Sending(c)' = Sending(c)
      BY <1>3, <2>2
    <3> QED BY <1>4, <1>7, <2>2, <3>1 DEF Sent
  <2> QED BY <2>1, <2>2
<1> QED BY <1>6, <1>8
-----------------------------------------------------------------------------
(* The numbers add up in every step *)

\* Nothing happens to the orders of a client but that he may be forgotten.
LEMMA KeptSame ==
  ASSUME NEW c \in Clients, Kept(c), clients' \subseteq clients,
         issued'[c] = issued[c],
         PlacesOf(c)' = PlacesOf(c),
         \A p \in PlacesOf(c) : OrderAt(p)' = OrderAt(p),
         Sent(c)' = Sent(c), SendingInOrder(c)'
  PROVE  Kept(c)'
<1>1. Taken(c)' = Taken(c) /\ PlacesInOrder(c)'
  BY SamePlaces DEF Kept
<1>2. Numbered(c)'
  <2>1. PICK j \in 0 .. issued[c], k \in 0 .. issued[c] :
          /\ j <= k
          /\ Taken(c) = 1 .. j /\ Sent(c) = (j + 1) .. k
          /\ c \in clients => k = issued[c]
    BY DEF Kept, Numbered
  <2> QED BY <1>1, <2>1 DEF Numbered
<1> QED BY <1>1, <1>2 DEF Kept

\* His queue is discarded with him: the last orders are lost.
LEMMA KeptClosed ==
  ASSUME TypeOK, NEW c \in Clients, Kept(c), c \notin clients',
         issued'[c] = issued[c],
         PlacesOf(c)' = PlacesOf(c),
         \A p \in PlacesOf(c) : OrderAt(p)' = OrderAt(p),
         toServer'[c] = << >>
  PROVE  Kept(c)'
<1>1. Taken(c)' = Taken(c) /\ PlacesInOrder(c)'
  BY SamePlaces DEF Kept
<1>2. Sending(c)' = {}
  BY DEF Sending
<1>3. Sent(c)' = {} /\ SendingInOrder(c)'
  BY <1>2 DEF Sent, SendingInOrder
<1>4. Numbered(c)'
  <2>1. PICK j \in 0 .. issued[c] : Taken(c) = 1 .. j
    BY DEF Kept, Numbered
  <2>2. j <= j /\ (j + 1) .. j = {}
    BY <2>1 DEF TypeOK
  <2> QED BY <1>1, <1>3, <2>1, <2>2 DEF Numbered
<1> QED BY <1>1, <1>3, <1>4 DEF Kept

\* He gives an order: it has the next number.
LEMMA KeptIssued ==
  ASSUME TypeOK, NEW c \in Clients, Kept(c), clients' = clients,
         c \in clients,
         issued'[c] = issued[c] + 1,
         PlacesOf(c)' = PlacesOf(c),
         \A p \in PlacesOf(c) : OrderAt(p)' = OrderAt(p),
         NEW m \in ServerEvent, m.type = "CLIENT_ORDER",
         m.order.n = issued[c] + 1,
         toServer'[c] = Append(toServer[c], m)
  PROVE  Kept(c)'
<1>1. Taken(c)' = Taken(c) /\ PlacesInOrder(c)'
  BY SamePlaces DEF Kept
<1>2. PICK j \in 0 .. issued[c] :
        Taken(c) = 1 .. j /\ Sent(c) = (j + 1) .. issued[c]
  BY DEF Kept, Numbered
<1>3. issued[c] \in Nat
  BY DEF TypeOK
<1>4. \A i \in Sending(c) : NumberOf(c, i) < m.order.n
  <2>1. \A i \in Sending(c) : NumberOf(c, i) \in Sent(c)
    BY DEF Sent
  <2> QED BY <1>2, <1>3, <2>1
<1>5. /\ SendingInOrder(c)'
      /\ Sent(c)' = Sent(c) \cup {issued[c] + 1}
  BY <1>4, SendingAppend DEF Kept
<1>6. Sent(c)' = (j + 1) .. issued'[c]
  BY <1>2, <1>3, <1>5
<1>7. Numbered(c)'
  <2>1. /\ j \in 0 .. issued'[c] /\ issued'[c] \in 0 .. issued'[c]
        /\ j <= issued'[c]
    BY <1>3
  <2> QED BY <1>1, <1>2, <1>6, <2>1 DEF Numbered
<1> QED BY <1>1, <1>5, <1>7 DEF Kept

\* He gives one when the connection is gone: it is not sent.
LEMMA KeptUnsent ==
  ASSUME TypeOK, NEW c \in Clients, Kept(c), clients' = clients,
         c \notin clients,
         issued'[c] = issued[c] + 1,
         PlacesOf(c)' = PlacesOf(c),
         \A p \in PlacesOf(c) : OrderAt(p)' = OrderAt(p),
         toServer'[c] = toServer[c]
  PROVE  Kept(c)'
<1>1. Taken(c)' = Taken(c) /\ PlacesInOrder(c)'
  BY SamePlaces DEF Kept
<1>2. Sent(c)' = Sent(c) /\ SendingInOrder(c)'
  <2>1. SendingInOrder(c)
    BY DEF Kept
  <2> QED BY <2>1, SameSending
<1>3. PICK j \in 0 .. issued[c], k \in 0 .. issued[c] :
        j <= k /\ Taken(c) = 1 .. j /\ Sent(c) = (j + 1) .. k
  BY DEF Kept, Numbered
<1>4. j \in 0 .. issued'[c] /\ k \in 0 .. issued'[c]
  BY DEF TypeOK
<1>5. Numbered(c)'
  BY <1>1, <1>2, <1>3, <1>4 DEF Numbered
<1> QED BY <1>1, <1>2, <1>5 DEF Kept

\* The server handles an order: it has the number after the last that has
\* arrived, and its place is behind that one's.
LEMMA KeptHandled ==
  ASSUME TypeOK, TypeOK', NEW c \in Clients, Kept(c),
         clients' = clients, issued' = issued, id' = id, log' = log,
         toServer[c] # << >>, Head(toServer[c]).type = "CLIENT_ORDER",
         toServer'[c] = Tail(toServer[c]),
         nextOrders' = Append(nextOrders,
                         [Head(toServer[c]).order EXCEPT !.player = id[c]])
  PROVE  /\ Kept(c)'
         /\ \A d \in Clients :
              id[d] # id[c] =>
                /\ PlacesOf(d)' = PlacesOf(d)
                /\ \A p \in PlacesOf(d) : OrderAt(p)' = OrderAt(p)
<1>1. PICK h : h = NumberOf(c, 1)
  OBVIOUS
<1>2. PICK o : o = [Head(toServer[c]).order EXCEPT !.player = id[c]]
  OBVIOUS
<1>3. /\ toServer[c] \in Seq(ServerEvent) /\ Head(toServer[c]) = toServer[c][1]
      /\ 1 \in 1 .. Len(toServer[c]) /\ toServer[c][1] \in ServerEvent
  <2>1. toServer[c] \in Seq(ServerEvent)
    BY DEF TypeOK
  <2> QED BY <2>1
<1>4. toServer[c][1].order \in Order
  BY <1>3, EventContents
<1>5. o \in Order /\ o.player = id[c] /\ o.n = h
  <2>1. id[c] \in Nat
    BY DEF TypeOK
  <2> QED BY <1>1, <1>2, <1>3, <1>4, <2>1 DEF Order, NumberOf
<1>6. 1 \in Sending(c)
  BY <1>3 DEF Sending
<1>7. PICK j \in 0 .. issued[c], k \in 0 .. issued[c] :
        /\ j <= k
        /\ Taken(c) = 1 .. j /\ Sent(c) = (j + 1) .. k
        /\ c \in clients => k = issued[c]
  BY DEF Kept, Numbered
<1>8. issued[c] \in Nat
  BY DEF TypeOK
<1>9. h = j + 1 /\ h <= k
  <2>1. h \in (j + 1) .. k
    BY <1>1, <1>6, <1>7 DEF Sent
  <2>2. j + 1 \in Sent(c)
    BY <1>7, <1>8, <2>1
  <2>3. PICK i \in Sending(c) : NumberOf(c, i) = j + 1
    BY <2>2 DEF Sent
  <2>4. CASE i = 1
    BY <1>1, <1>7, <1>8, <2>1, <2>3, <2>4
  <2>5. CASE i # 1
    <3>1. i \in Nat /\ 1 < i
      BY <2>5, SendingTypes
    <3>2. h < j + 1
      BY <1>1, <1>6, <2>3, <3>1 DEF Kept, SendingInOrder
    <3> QED BY <1>7, <1>8, <2>1, <3>2
  <2> QED BY <2>4, <2>5
<1>10. SendingInOrder(c)' /\ Sent(c)' = (j + 2) .. k
  <2>1. /\ SendingInOrder(c)'
        /\ Sent(c)' = {NumberOf(c, i) : i \in Sending(c) \ {1}}
    BY SendingTail DEF Kept
  <2>2. ASSUME NEW i \in Sending(c) \ {1}
        PROVE  NumberOf(c, i) \in (j + 2) .. k
    <3>1. i \in Nat /\ 1 < i /\ NumberOf(c, i) \in (j + 1) .. k
      BY <1>7, SendingTypes DEF Sent
    <3>2. h < NumberOf(c, i)
      BY <1>1, <1>6, <3>1 DEF Kept, SendingInOrder
    <3> QED BY <1>7, <1>8, <1>9, <3>1, <3>2
  <2>3. ASSUME NEW x \in (j + 2) .. k
        PROVE  \E i \in Sending(c) \ {1} : x = NumberOf(c, i)
    <3>1. x \in Sent(c) /\ x # h
      BY <1>7, <1>8, <1>9
    <3> QED BY <1>1, <3>1 DEF Sent
  <2>4. Sent(c)' \subseteq (j + 2) .. k
    BY <2>1, <2>2
  <2>5. (j + 2) .. k \subseteq Sent(c)'
    BY <2>1, <2>3
  <2> QED BY <2>1, <2>4, <2>5
<1>11. PICK q : /\ Places' = Places \cup {q} /\ q \notin Places
                /\ OrderAt(q)' = o
                /\ \A p \in Places : /\ OrderAt(p)' = OrderAt(p)
                                     /\ ~ Before(q, p)
                /\ ~ Before(q, q)
  BY <1>2, <1>5, PlacesOrder
<1>12. PlacesOf(c)' = PlacesOf(c) \cup {q} /\ q \notin PlacesOf(c)
  <2>1. \A p \in Places : OrderAt(p)'.player = id'[c]
                            <=> OrderAt(p).player = id[c]
    BY <1>11
  <2>2. PlacesOf(c)' = {p \in Places' : OrderAt(p)'.player = id'[c]}
    BY DEF PlacesOf, OrderAt
  <2> QED BY <1>5, <1>11, <2>1, <2>2 DEF PlacesOf
<1>13. \A p \in PlacesOf(c) : OrderAt(p)' = OrderAt(p) /\ OrderAt(p).n \in 1 .. j
  BY <1>7, <1>11 DEF PlacesOf, Taken
<1>14. Taken(c)' = 1 .. j + 1
  <2>1. Taken(c)' = {OrderAt(p)'.n : p \in PlacesOf(c)'}
    BY DEF Taken, OrderAt
  <2>2. Taken(c)' = Taken(c) \cup {h}
    BY <1>5, <1>11, <1>12, <1>13, <2>1 DEF Taken
  <2> QED BY <1>7, <1>8, <1>9, <2>2
<1>15. PlacesInOrder(c)'
  <2> SUFFICES ASSUME NEW p \in PlacesOf(c)', NEW r \in PlacesOf(c)',
                      Before(p, r)
               PROVE  OrderAt(p)'.n < OrderAt(r)'.n
    BY DEF PlacesInOrder, OrderAt, Before
  <2>1. p # q
    BY <1>11, <1>12 DEF PlacesOf
  <2>2. p \in PlacesOf(c)
    BY <1>12, <2>1
  <2>3. CASE r = q
    BY <1>5, <1>8, <1>9, <1>11, <1>13, <2>2, <2>3
  <2>4. CASE r # q
    <3>1. r \in PlacesOf(c)
      BY <1>12, <2>4
    <3> QED BY <1>13, <2>2, <3>1 DEF Kept, PlacesInOrder
  <2> QED BY <2>3, <2>4
<1>16. Numbered(c)'
  <2>1. /\ j + 1 \in 0 .. issued'[c] /\ k \in 0 .. issued'[c] /\ j + 1 <= k
        /\ (j + 1) + 1 = j + 2
    BY <1>7, <1>8, <1>9
  <2> QED BY <1>7, <1>10, <1>14, <2>1 DEF Numbered
<1>17. ASSUME NEW d \in Clients, id[d] # id[c]
       PROVE  /\ PlacesOf(d)' = PlacesOf(d)
              /\ \A p \in PlacesOf(d) : OrderAt(p)' = OrderAt(p)
  <2>1. \A p \in Places : OrderAt(p)'.player = id'[d]
                            <=> OrderAt(p).player = id[d]
    BY <1>11
  <2>2. PlacesOf(d)' = {p \in Places' : OrderAt(p)'.player = id'[d]}
    BY DEF PlacesOf, OrderAt
  <2> QED BY <1>5, <1>11, <1>17, <2>1, <2>2 DEF PlacesOf
<1> QED BY <1>10, <1>15, <1>16, <1>17 DEF Kept
-----------------------------------------------------------------------------
(* The steps, once the game has started *)

\* There are no orders before the game: log and queues say so.
LEMMA QuietHolds ==
  ASSUME TypeOK, IndInv, Alone
  PROVE  Quiet
<1> SUFFICES ASSUME ~ gameStarted
             PROVE  /\ Places = {}
                    /\ \A c \in Clients : Sending(c) = {} /\ issued[c] = 0
  BY DEF Quiet
<1>1. Places = {}
  <2>1. log = << >> /\ nextOrders = << >>
    BY DEF IndInv, LogInv
  <2>2. \A t \in 1 .. Len(log) : log[t] = << >>
    BY <2>1
  <2> QED BY <2>1, <2>2, NoPlaces
<1>2. ASSUME NEW c \in Clients
      PROVE  Sending(c) = {} /\ issued[c] = 0
  <2>1. issued[c] = 0
    BY DEF Alone, IndInv, PeerInv, ClientInv
  <2>2. \/ toServer[c] = << >> \/ toServer[c] = <<ClientConnect>>
        \/ toServer[c] = <<ConnectEvent, ClientConnect>>
    BY DEF IndInv, PeerInv, UpInv
  <2>3. \A i \in DOMAIN toServer[c] : toServer[c][i].type # "CLIENT_ORDER"
    BY <2>2 DEF ConnectEvent, ClientConnect
  <2> QED BY <2>1, <2>3 DEF Sending
<1> QED BY <1>1, <1>2

\* Nobody is there at first.
LEMMA AloneInit == Init => Alone
BY DEF Init, Alone

\* What the clients do, and what becomes of connections that the server does
\* not know, leaves the server alone.
LEMMA ServerUntouched ==
  ASSUME NEW c \in Clients,
         \/ ServerReject(c) \/ ClientHandleMessage(c) \/ ClientFinishTick(c)
         \/ ClientConnects(c) \/ ClientIssuesOrder(c) \/ ClientExits(c)
         \/ HandshakeFails(c) \/ ConnectionLost(c)
  PROVE  UNCHANGED serverVars
BY DEF ServerReject, ClientHandleMessage, ClientHandleConnect,
       ClientHandleStart, ClientHandleTick, ClientFinishTick, ClientConnects,
       ClientIssuesOrder, ClientExits, HandshakeFails, ConnectionLost

\* Only who simulates gives orders, ids are counted up, and the server quits
\* a game when the last client has left it.
LEMMA AloneStep ==
  ASSUME TypeOK, TypeOK', IndInv, Alone, [Next]_vars
  PROVE  Alone'
<1>1. \A c \in Clients : ~ simulating'[c] => issued'[c] = 0
  <2>1. ASSUME NEW d \in Clients, ClientHandleStart(d)
        PROVE  \A c \in Clients : ~ simulating'[c] => issued'[c] = 0
    BY <2>1 DEF ClientHandleStart, history, TypeOK, Alone
  <2>2. ASSUME NEW d \in Clients, ClientIssuesOrder(d)
        PROVE  \A c \in Clients : ~ simulating'[c] => issued'[c] = 0
    BY <2>2 DEF ClientIssuesOrder, clientVars, TypeOK, Alone
  <2>3. ASSUME UNCHANGED <<simulating, issued>>
        PROVE  \A c \in Clients : ~ simulating'[c] => issued'[c] = 0
    BY <2>3 DEF Alone
  <2>4. \/ \E d \in Clients : ClientHandleStart(d) \/ ClientIssuesOrder(d)
        \/ UNCHANGED <<simulating, issued>>
    BY DEF Next, ServerStep, ServerHandleEvent, ClientHandleMessage,
           ServerStartGame, ServerAbort, ServerStartTick, ServerExit,
           ServerAccept, ServerReject, ServerHandleConnect,
           ServerHandleOrder, ServerHandleTickDone, ServerHandleDisconnect,
           ClientHandleConnect, ClientHandleTick, ClientFinishTick,
           ClientConnects, ClientExits, HandshakeFails, ConnectionLost,
           vars, clientVars, history
  <2> QED BY <2>1, <2>2, <2>3, <2>4
<1>2. gameStarted' /\ (quit' \/ server' # "running") => clients' = {}
  <2>1. CASE ServerStartGame
    BY <2>1 DEF ServerStartGame
  <2>2. CASE ServerAbort
    BY <2>2 DEF ServerAbort
  <2>3. CASE ServerExit
    BY <2>3 DEF ServerExit, Alone
  <2>4. ASSUME NEW c \in Clients, ServerAccept(c)
        PROVE  gameStarted' /\ (quit' \/ server' # "running") => clients' = {}
    BY <2>4 DEF ServerAccept
  <2>5. ASSUME NEW c \in Clients, ServerHandleDisconnect(c)
        PROVE  gameStarted' /\ (quit' \/ server' # "running") => clients' = {}
    BY <2>5 DEF ServerHandleDisconnect, Alone
  <2>6. CASE UNCHANGED <<gameStarted, quit, server, clients>>
    BY <2>6 DEF Alone
  <2>7. \/ ServerStartGame \/ ServerAbort \/ ServerExit
        \/ \E c \in Clients : ServerAccept(c) \/ ServerHandleDisconnect(c)
        \/ UNCHANGED <<gameStarted, quit, server, clients>>
    BY ServerUntouched
    DEF Next, ServerStep, ServerHandleEvent, ServerStartTick,
        ServerHandleConnect, ServerHandleOrder, ServerHandleTickDone,
        vars, serverVars
  <2> QED BY <2>1, <2>2, <2>3, <2>4, <2>5, <2>6, <2>7
<1>3. /\ \A c \in Clients : id'[c] <= playerCounter'
      /\ \A c, d \in Clients : id'[c] = id'[d] /\ id'[c] # 0 => c = d
  <2>1. ASSUME NEW c \in Clients, ServerAccept(c)
        PROVE  /\ \A d \in Clients : id'[d] <= playerCounter'
               /\ \A d, e \in Clients : id'[d] = id'[e] /\ id'[d] # 0 => d = e
    <3>1. /\ playerCounter' = playerCounter + 1
          /\ id' = [id EXCEPT ![c] = playerCounter + 1]
      BY <2>1 DEF ServerAccept
    <3>2. /\ id \in [Clients -> Nat] /\ playerCounter \in Nat
          /\ \A d \in Clients : id[d] <= playerCounter
          /\ \A d, e \in Clients : id[d] = id[e] /\ id[d] # 0 => d = e
      BY DEF TypeOK, Alone
    <3>3. \A d \in Clients :
            id'[d] = IF d = c THEN playerCounter + 1 ELSE id[d]
      BY <3>1, <3>2
    <3>4. \A d \in Clients : id[d] \in Nat
      BY <3>2
    <3> QED BY <3>1, <3>2, <3>3, <3>4
  <2>2. CASE UNCHANGED <<id, playerCounter>>
    BY <2>2 DEF Alone
  <2>3. \/ \E c \in Clients : ServerAccept(c)
        \/ UNCHANGED <<id, playerCounter>>
    BY ServerUntouched
    DEF Next, ServerStep, ServerHandleEvent, ServerStartGame, ServerAbort,
        ServerStartTick, ServerExit, ServerHandleConnect, ServerHandleOrder,
        ServerHandleTickDone, ServerHandleDisconnect, vars, serverVars
  <2> QED BY <2>1, <2>2, <2>3
<1> QED BY <1>1, <1>2, <1>3 DEF Alone

\* So it always holds.
LEMMA AloneHolds == Spec => []Alone
<1>1. TypeOK /\ TypeOK' /\ IndInv /\ Alone /\ [Next]_vars => Alone'
  BY AloneStep
<1> QED BY <1>1, AloneInit, TypeCorrect, Invariant, PTL DEF Spec
-----------------------------------------------------------------------------
\* A client that neither sends nor is listened to.
LEMMA KeptStill ==
  ASSUME NEW c \in Clients, Kept(c),
         UNCHANGED <<id, log, nextOrders>>, clients' \subseteq clients,
         issued'[c] = issued[c],
         \/ toServer'[c] = toServer[c]
         \/ Sending(c) = {} /\ Sending(c)' = {}
  PROVE  Kept(c)'
<1>1. /\ PlacesOf(c)' = PlacesOf(c)
      /\ \A p \in PlacesOf(c) : OrderAt(p)' = OrderAt(p)
  BY PlacesSame, PlacesKept
<1>2. SendingInOrder(c)
  BY DEF Kept
<1>3. Sent(c)' = Sent(c) /\ SendingInOrder(c)'
  BY <1>2, SameSending
<1> QED BY <1>1, <1>3, KeptSame

\* The connections to some clients are closed, and they are none any more.
LEMMA KeepClosing ==
  ASSUME TypeOK, KeepInv, NEW cs, ClosePeers(cs),
         UNCHANGED <<id, log, nextOrders, issued>>,
         clients' \subseteq clients \ cs
  PROVE  KeepInv'
<1> SUFFICES ASSUME NEW c \in Clients, id[c] # 0
             PROVE  Kept(c)'
  BY DEF KeepInv
<1>1. Kept(c)
  BY DEF KeepInv
<1>2. CASE c \in cs
  <2>1. toServer'[c] = << >> /\ c \notin clients'
    BY <1>2 DEF ClosePeers
  <2>2. /\ PlacesOf(c)' = PlacesOf(c)
        /\ \A p \in PlacesOf(c) : OrderAt(p)' = OrderAt(p)
    BY PlacesSame, PlacesKept
  <2> QED BY <1>1, <2>1, <2>2, KeptClosed
<1>3. CASE c \notin cs
  <2>1. toServer'[c] = toServer[c] /\ clients' \subseteq clients
    BY <1>3 DEF ClosePeers
  <2> QED BY <1>1, <2>1, KeptStill
<1> QED BY <1>2, <1>3

\* A tick takes the collected orders along.
LEMMA KeepTick ==
  ASSUME TypeOK, TypeOK', KeepInv, ServerStartTick
  PROVE  KeepInv'
<1>1. /\ log' = Append(log, nextOrders) /\ nextOrders' = << >>
      /\ UNCHANGED <<id, clients, toServer, issued>>
  BY DEF ServerStartTick
<1> SUFFICES ASSUME NEW c \in Clients, id[c] # 0
             PROVE  Kept(c)'
  BY <1>1 DEF KeepInv
<1>2. Kept(c) /\ SendingInOrder(c)
  BY DEF KeepInv, Kept
<1>3. Places' = Places /\ \A p \in Places : OrderAt(p)' = OrderAt(p)
  BY <1>1, PlacesTick
<1>4. /\ PlacesOf(c)' = PlacesOf(c)
      /\ \A p \in PlacesOf(c) : OrderAt(p)' = OrderAt(p)
  BY <1>1, <1>3, PlacesKept
<1>5. Sent(c)' = Sent(c) /\ SendingInOrder(c)'
  BY <1>1, <1>2, SameSending
<1> QED BY <1>1, <1>2, <1>4, <1>5, KeptSame

\* The server handles an event in the course of the game.
LEMMA KeepEvent ==
  ASSUME TypeOK, TypeOK', IndInv, Alone, KeepInv, gameStarted,
         NEW c \in Clients, ServerHandleEvent(c)
  PROVE  KeepInv'
<1>1. CASE ServerAccept(c)
  BY <1>1 DEF ServerAccept
<1>2. CASE ServerReject(c)
  <2>1. /\ toServer[c] # << >> /\ ClosePeers({c})
        /\ Head(toServer[c]).type = "ENET_EVENT_TYPE_CONNECT"
        /\ UNCHANGED <<id, log, nextOrders, issued, clients>>
    BY <1>2 DEF ServerReject, Arrives, serverVars, history
  <2>2. c \notin clients
    BY <2>1, FirstEvent
  <2>3. clients' \subseteq clients \ {c}
    BY <2>1, <2>2
  <2> QED BY <2>1, <2>3, KeepClosing
<1>3. CASE ServerHandleConnect(c)
  <2>1. toServer[c] # << >> /\ Head(toServer[c]).type = "CLIENT_CONNECT"
    BY <1>3 DEF ServerHandleConnect, Arrives
  <2> QED BY <2>1, FirstEvent
<1>4. CASE ServerHandleOrder(c)
  <2>1. /\ toServer[c] # << >> /\ Head(toServer[c]).type = "CLIENT_ORDER"
        /\ toServer' = [toServer EXCEPT ![c] = Tail(@)]
        /\ nextOrders' = Append(nextOrders,
                           [Head(toServer[c]).order EXCEPT !.player = id[c]])
        /\ UNCHANGED <<id, log, issued, clients>>
    BY <1>4 DEF ServerHandleOrder, Arrives, Dispatched, history
  <2>2. /\ toServer'[c] = Tail(toServer[c])
        /\ \A d \in Clients : d # c => toServer'[d] = toServer[d]
    BY <2>1 DEF TypeOK
  <2>3. c \in clients
    BY <2>1, FirstEvent
  <2>4. id[c] # 0
    BY <2>1, <2>3, FirstEvent DEF IndInv, PeerInv, CompleteInv
  <2>5. Kept(c)
    BY <2>4 DEF KeepInv
  <2>6. /\ Kept(c)'
        /\ \A d \in Clients :
             id[d] # id[c] =>
               /\ PlacesOf(d)' = PlacesOf(d)
               /\ \A p \in PlacesOf(d) : OrderAt(p)' = OrderAt(p)
    BY <2>1, <2>2, <2>5, KeptHandled
  <2>7. ASSUME NEW d \in Clients, id[d] # 0, d # c
        PROVE  Kept(d)'
    <3>1. id[d] # id[c]
      BY <2>7 DEF Alone
    <3>2. Kept(d) /\ SendingInOrder(d)
      BY <2>7 DEF KeepInv, Kept
    <3>3. toServer'[d] = toServer[d]
      BY <2>2, <2>7
    <3>4. Sent(d)' = Sent(d) /\ SendingInOrder(d)'
      BY <3>2, <3>3, SameSending
    <3>5. /\ PlacesOf(d)' = PlacesOf(d)
          /\ \A p \in PlacesOf(d) : OrderAt(p)' = OrderAt(p)
      BY <2>6, <3>1
    <3>6. clients' \subseteq clients /\ issued'[d] = issued[d]
      BY <2>1
    <3> QED BY <3>2, <3>4, <3>5, <3>6, KeptSame
  <2> QED BY <2>1, <2>6, <2>7 DEF KeepInv
<1>5. CASE ServerHandleTickDone(c)
  <2>1. /\ toServer[c] # << >> /\ Head(toServer[c]).type = "CLIENT_TICK_DONE"
        /\ toServer' = [toServer EXCEPT ![c] = Tail(@)]
        /\ UNCHANGED <<id, log, nextOrders, issued, clients>>
    BY <1>5 DEF ServerHandleTickDone, Arrives, Dispatched, history
  <2>2. /\ toServer'[c] = Tail(toServer[c])
        /\ \A d \in Clients : d # c => toServer'[d] = toServer[d]
    BY <2>1 DEF TypeOK
  <2>3. ASSUME id[c] # 0
        PROVE  Kept(c)'
    <3>1. Kept(c) /\ SendingInOrder(c)
      BY <2>3 DEF KeepInv, Kept
    <3>2. 1 \notin Sending(c)
      <4>1. toServer[c] \in Seq(ServerEvent) /\ Head(toServer[c]) = toServer[c][1]
        BY SendingTypes
      <4> QED BY <2>1, <4>1 DEF Sending
    <3>3. /\ SendingInOrder(c)'
          /\ Sent(c)' = {NumberOf(c, i) : i \in Sending(c) \ {1}}
      BY <2>1, <2>2, <3>1, SendingTail
    <3>4. Sent(c)' = Sent(c)
      BY <3>2, <3>3 DEF Sent
    <3>5. /\ PlacesOf(c)' = PlacesOf(c)
          /\ \A p \in PlacesOf(c) : OrderAt(p)' = OrderAt(p)
      BY <2>1, PlacesSame, PlacesKept
    <3>6. clients' \subseteq clients /\ issued'[c] = issued[c]
      BY <2>1
    <3> QED BY <3>1, <3>3, <3>4, <3>5, <3>6, KeptSame
  <2>4. ASSUME NEW d \in Clients, id[d] # 0, d # c
        PROVE  Kept(d)'
    <3>1. Kept(d) /\ toServer'[d] = toServer[d]
      BY <2>2, <2>4 DEF KeepInv
    <3>2. clients' \subseteq clients /\ issued'[d] = issued[d]
      BY <2>1
    <3> QED BY <2>1, <3>1, <3>2, KeptStill
  <2> QED BY <2>1, <2>3, <2>4 DEF KeepInv
<1> QED BY <1>1, <1>2, <1>3, <1>4, <1>5 DEF ServerHandleEvent

\* One client sends something, or connects.
LEMMA KeepClient ==
  ASSUME TypeOK, TypeOK', IndInv, Alone, KeepInv, gameStarted,
         NEW c \in Clients,
         ClientFinishTick(c) \/ ClientIssuesOrder(c) \/ ClientConnects(c)
  PROVE  KeepInv'
<1>1. UNCHANGED <<id, log, nextOrders, clients>>
  BY DEF ClientFinishTick, ClientIssuesOrder, ClientConnects, serverVars,
         history
<1>2. \A d \in Clients : d # c => /\ toServer'[d] = toServer[d]
                                  /\ issued'[d] = issued[d]
  <2>1. /\ toServer \in [Clients -> Seq(ServerEvent)]
        /\ issued \in [Clients -> Nat]
    BY DEF TypeOK
  <2>2. CASE ClientFinishTick(c)
    BY <2>1, <2>2 DEF ClientFinishTick, SendToServer, history
  <2>3. CASE ClientIssuesOrder(c)
    BY <2>1, <2>3 DEF ClientIssuesOrder, SendToServer
  <2>4. CASE ClientConnects(c)
    BY <2>1, <2>4 DEF ClientConnects, history
  <2> QED BY <2>2, <2>3, <2>4
<1>3. ASSUME NEW d \in Clients, id[d] # 0, d # c
      PROVE  Kept(d)'
  <2>1. Kept(d) /\ toServer'[d] = toServer[d] /\ issued'[d] = issued[d]
    BY <1>2, <1>3 DEF KeepInv
  <2>2. clients' \subseteq clients
    BY <1>1
  <2> QED BY <1>1, <2>1, <2>2, KeptStill
<1>4. /\ PlacesOf(c)' = PlacesOf(c)
      /\ \A p \in PlacesOf(c) : OrderAt(p)' = OrderAt(p)
  BY <1>1, PlacesSame, PlacesKept
<1>5. ASSUME id[c] # 0
      PROVE  Kept(c)'
  <2>0. Kept(c) /\ SendingInOrder(c) /\ clients' \subseteq clients
    BY <1>1, <1>5 DEF KeepInv, Kept
  <2>1. CASE ClientFinishTick(c)
    <3>1. SendToServer(c, ClientTickDone) /\ issued' = issued
      BY <2>1 DEF ClientFinishTick, history
    <3>2. CASE link[c] = "open"
      <4>1. toServer'[c] = Append(toServer[c], ClientTickDone)
        BY <3>1, <3>2 DEF SendToServer, TypeOK
      <4>2. /\ ClientTickDone \in ServerEvent
            /\ ClientTickDone.type # "CLIENT_ORDER"
        BY EventsTyped DEF ClientTickDone
      <4>3. SendingInOrder(c)' /\ Sent(c)' = Sent(c) \cup {}
        BY <2>0, <4>1, <4>2, SendingAppend
      <4>4. Sent(c)' = Sent(c) /\ issued'[c] = issued[c]
        BY <3>1, <4>3
      <4> QED BY <1>4, <2>0, <4>3, <4>4, KeptSame
    <3>3. CASE link[c] # "open"
      <4>1. toServer'[c] = toServer[c] /\ issued'[c] = issued[c]
        BY <3>1, <3>3 DEF SendToServer
      <4> QED BY <1>1, <2>0, <4>1, KeptStill
    <3> QED BY <3>2, <3>3
  <2>2. CASE ClientIssuesOrder(c)
    <3> DEFINE o == [player |-> playerId[c], n |-> issued[c] + 1,
                     at |-> Len(ran[c])]
    <3>1. /\ SendToServer(c, ClientOrder(o)) /\ simulating[c]
          /\ issued' = [issued EXCEPT ![c] = @ + 1]
      BY <2>2 DEF ClientIssuesOrder
    <3>2. issued'[c] = issued[c] + 1
      BY <3>1 DEF TypeOK
    <3>3. o \in Order /\ o.n = issued[c] + 1
      <4>1. playerId[c] \in Nat /\ issued[c] \in Nat
        BY DEF TypeOK
      <4> QED BY <4>1, CountsTyped DEF Order
    <3> HIDE DEF o
    <3>4. /\ ClientOrder(o) \in ServerEvent
          /\ ClientOrder(o).type = "CLIENT_ORDER"
          /\ ClientOrder(o).order.n = issued[c] + 1
      BY <3>3, EventsTyped DEF ClientOrder
    <3>5. CASE link[c] = "open"
      <4>1. toServer'[c] = Append(toServer[c], ClientOrder(o))
        BY <3>1, <3>5 DEF SendToServer, TypeOK
      <4>2. c \in clients
        BY <3>1, <3>5 DEF IndInv, PeerInv, UpInv
      <4> QED BY <1>1, <1>4, <2>0, <3>2, <3>4, <4>1, <4>2, KeptIssued
    <3>6. CASE link[c] # "open"
      <4>1. toServer'[c] = toServer[c]
        BY <3>1, <3>6 DEF SendToServer
      <4>2. c \notin clients
        <5>1. server = "running" /\ c \in clients => link[c] = "open"
          BY DEF IndInv, PeerInv, UpInv
        <5> QED BY <3>6, <5>1 DEF Alone
      <4> QED BY <1>1, <1>4, <2>0, <3>2, <4>1, <4>2, KeptUnsent
    <3> QED BY <3>5, <3>6
  <2>3. CASE ClientConnects(c)
    <3>1. toServer'[c] = <<ConnectEvent, ClientConnect>> /\ issued' = issued
      BY <2>3 DEF ClientConnects, history, TypeOK
    <3>2. toServer[c] = << >>
      BY <2>3 DEF ClientConnects, IndInv, PeerInv, UpInv
    <3>3. Sending(c) = {} /\ Sending(c)' = {}
      BY <3>1, <3>2 DEF Sending, ConnectEvent, ClientConnect
    <3>4. issued'[c] = issued[c]
      BY <3>1
    <3> QED BY <1>1, <2>0, <3>3, <3>4, KeptStill
  <2> QED BY <2>1, <2>2, <2>3
<1> QED BY <1>1, <1>3, <1>5 DEF KeepInv

\* Steps that have nothing to do with orders.
LEMMA KeepOther ==
  ASSUME KeepInv, UNCHANGED <<id, log, nextOrders, clients, toServer, issued>>
  PROVE  KeepInv'
<1> SUFFICES ASSUME NEW c \in Clients, id[c] # 0
             PROVE  Kept(c)'
  BY DEF KeepInv
<1>1. Kept(c) /\ clients' \subseteq clients
  BY DEF KeepInv
<1> QED BY <1>1, KeptStill

\* The game starts without orders.
LEMMA KeepStart ==
  ASSUME TypeOK, TypeOK', IndInv, Quiet, ServerStartGame
  PROVE  KeepInv'
<1>1. /\ ~ gameStarted /\ log' = log \o OpeningBatches /\ nextOrders' = << >>
      /\ UNCHANGED <<toServer, issued>>
  BY DEF ServerStartGame
<1>2. log = << >> /\ nextOrders = << >>
  BY <1>1 DEF IndInv, LogInv
<1>3. log' = << << >>, << >> >>
  BY <1>1, <1>2 DEF OpeningBatches
<1>4. \A t \in 1 .. Len(log') : log'[t] = << >>
  BY <1>3
<1>5. Places' = {}
  BY <1>1, <1>4, NoPlacesNext
<1>6. \A c \in Clients : Sending(c)' = {} /\ issued'[c] = 0
  BY <1>1 DEF Quiet, Sending
<1> QED BY <1>5, <1>6, KeptNone DEF KeepInv

\* All steps keep the numbers.
LEMMA KeepStep ==
  ASSUME TypeOK, TypeOK', IndInv, Alone, Quiet, Quiet', KeepInv, [Next]_vars
  PROVE  KeepInv'
<1>1. CASE ~ gameStarted'
  <2>1. Places' = {} /\ \A c \in Clients : Sending(c)' = {} /\ issued'[c] = 0
    BY <1>1 DEF Quiet
  <2> QED BY <2>1, KeptNone DEF KeepInv
<1>2. CASE ServerStartGame
  BY <1>2, KeepStart
<1>3. CASE gameStarted /\ ~ ServerStartGame
  <2>1. CASE ServerAbort
    BY <1>3, <2>1 DEF ServerAbort
  <2>2. CASE ServerStartTick
    BY <2>2, KeepTick
  <2>3. CASE ServerExit
    <3>1. /\ ClosePeers(OpenPeers)
          /\ UNCHANGED <<id, log, nextOrders, issued, clients>>
      BY <2>3 DEF ServerExit, history
    <3>2. clients = {}
      BY <1>3, <2>3 DEF ServerExit, Alone
    <3>3. clients' \subseteq clients \ OpenPeers
      BY <3>1, <3>2
    <3> QED BY <3>1, <3>3, KeepClosing
  <2>4. ASSUME NEW c \in Clients, ServerHandleEvent(c)
        PROVE  KeepInv'
    BY <1>3, <2>4, KeepEvent
  <2>5. ASSUME NEW c \in Clients,
               ServerHandleDisconnect(c) \/ HandshakeFails(c)
        PROVE  KeepInv'
    <3>1. /\ ClosePeers({c})
          /\ UNCHANGED <<id, log, nextOrders, issued>>
          /\ clients' \subseteq clients \ {c}
      BY <2>5 DEF ServerHandleDisconnect, HandshakeFails, serverVars, history
    <3> QED BY <3>1, KeepClosing
  <2>6. ASSUME NEW c \in Clients,
               ClientFinishTick(c) \/ ClientIssuesOrder(c) \/ ClientConnects(c)
        PROVE  KeepInv'
    BY <1>3, <2>6, KeepClient
  <2>7. ASSUME NEW c \in Clients,
               ClientHandleMessage(c) \/ ClientExits(c) \/ ConnectionLost(c)
        PROVE  KeepInv'
    <3>1. UNCHANGED <<id, log, nextOrders, clients, toServer, issued>>
      BY <2>7 DEF ClientHandleMessage, ClientHandleConnect,
                  ClientHandleStart, ClientHandleTick, ClientExits,
                  ConnectionLost, serverVars, enetVars, history
    <3> QED BY <3>1, KeepOther
  <2>8. CASE UNCHANGED vars
    <3>1. UNCHANGED <<id, log, nextOrders, clients, toServer, issued>>
      BY <2>8 DEF vars, serverVars, enetVars, history
    <3> QED BY <3>1, KeepOther
  <2> QED
    BY <1>3, <2>1, <2>2, <2>3, <2>4, <2>5, <2>6, <2>7, <2>8
    DEF Next, ServerStep
<1>4. gameStarted' => gameStarted \/ ServerStartGame
  BY DEF Next, ServerStep, ServerHandleEvent, ClientHandleMessage,
         ServerAbort, ServerStartTick, ServerExit, ServerAccept, ServerReject,
         ServerHandleConnect, ServerHandleOrder, ServerHandleTickDone,
         ServerHandleDisconnect, ClientHandleConnect, ClientHandleStart,
         ClientHandleTick, ClientFinishTick, ClientConnects,
         ClientIssuesOrder, ClientExits, HandshakeFails, ConnectionLost,
         vars, serverVars
<1> QED BY <1>1, <1>2, <1>3, <1>4

\* No order is lost, repeated, overtaken or credited to somebody else
\* between Client::order and the tick that carries it (Server.cc:105): only
\* the last ones of a player who leaves may be missing.
THEOREM NoOrderIsLost == Spec => []OrdersKept
<1>1. Init => KeepInv
  BY DEF Init, KeepInv
<1>2. TypeOK /\ IndInv /\ Alone => Quiet
  BY QuietHolds
<1>3. /\ TypeOK /\ TypeOK' /\ IndInv /\ Alone /\ Quiet /\ Quiet'
      /\ KeepInv /\ [Next]_vars
      => KeepInv'
  BY KeepStep
<1>4. TypeOK /\ KeepInv => OrdersKept
  BY KeptIsKept
<1> QED
  BY <1>1, <1>2, <1>3, <1>4, TypeCorrect, Invariant, AloneHolds, PTL DEF Spec
=============================================================================
