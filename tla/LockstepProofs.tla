--------------------------- MODULE LockstepProofs ---------------------------
(***************************************************************************)
(* Proofs of the safety properties of Lockstep, for every set of clients,  *)
(* number of players to wait for, and bound on ticks and orders.           *)
(***************************************************************************)
EXTENDS Lockstep, TLAPS, FiniteSetTheorems, FunctionTheorems, SequenceTheorems

\* The messages are messages.
LEMMA EventsTyped ==
  /\ ConnectEvent \in ServerEvent /\ ClientConnect \in ServerEvent
  /\ ClientTickDone \in ServerEvent
  /\ \A o \in Order : ClientOrder(o) \in ServerEvent
BY DEF ServerEvent, ConnectEvent, ClientConnect, ClientTickDone, ClientOrder

\* So are those of the other direction.
LEMMA MessagesTyped ==
  /\ ServerStart \in ClientMessage
  /\ \A i \in Nat : ServerConnect(i) \in ClientMessage
  /\ \A b \in Batch : ServerTick(b) \in ClientMessage
BY DEF ClientMessage, ServerStart, ServerConnect, ServerTick

\* What a handler finds in a message of its type.
LEMMA EventContents ==
  ASSUME NEW m \in ServerEvent
  PROVE  /\ m.type = "CLIENT_ORDER" => m.order \in Order
         /\ m.type \in {"ENET_EVENT_TYPE_CONNECT", "CLIENT_CONNECT",
                        "CLIENT_TICK_DONE", "CLIENT_ORDER"}
BY DEF ServerEvent, ConnectEvent, ClientConnect, ClientTickDone

\* What a client finds in a message of its type.
LEMMA MessageContents ==
  ASSUME NEW m \in ClientMessage
  PROVE  /\ m.type = "SERVER_CONNECT" => m.yourPlayerId \in Nat
         /\ m.type = "SERVER_TICK" => m.orders \in Batch
BY DEF ClientMessage, ServerStart
-----------------------------------------------------------------------------
(* Counting the CLIENT_TICK_DONE of a queue. *)

\* The count is a number.
LEMMA DonesType ==
  ASSUME NEW s \in Seq(ServerEvent)
  PROVE  /\ IsFiniteSet({i \in DOMAIN s : s[i].type = "CLIENT_TICK_DONE"})
         /\ Dones(s) \in Nat
<1> DEFINE D == {i \in DOMAIN s : s[i].type = "CLIENT_TICK_DONE"}
<1>1. IsFiniteSet(1..Len(s))
  BY FS_Interval
<1>2. D \in SUBSET (1..Len(s))
  OBVIOUS
<1>3. IsFiniteSet(D)
  BY <1>1, <1>2, FS_Subset
<1> QED
  BY <1>3, FS_CardinalityType DEF Dones

\* A message at the end counts if it is one.
LEMMA DonesAppend ==
  ASSUME NEW s \in Seq(ServerEvent), NEW m \in ServerEvent
  PROVE  Dones(Append(s, m)) = Dones(s) +
                                   IF m.type = "CLIENT_TICK_DONE" THEN 1 ELSE 0
<1> DEFINE D(q) == {i \in DOMAIN q : q[i].type = "CLIENT_TICK_DONE"}
<1>1. IsFiniteSet(D(s))
  BY DonesType
<1>2. CASE m.type = "CLIENT_TICK_DONE"
  <2>1. D(Append(s, m)) = D(s) \cup {Len(s) + 1}
    BY <1>2
  <2>2. Len(s) + 1 \notin D(s)
    OBVIOUS
  <2> HIDE DEF D
  <2>3. Cardinality(D(s) \cup {Len(s) + 1}) = Cardinality(D(s)) + 1
    BY <1>1, <2>2, FS_AddElement
  <2> QED
    BY <1>2, <2>1, <2>3 DEF Dones, D
<1>3. CASE m.type # "CLIENT_TICK_DONE"
  <2>1. D(Append(s, m)) = D(s)
    BY <1>3
  <2>2. Dones(Append(s, m)) = Dones(s)
    BY <2>1 DEF Dones
  <2>3. Dones(s) \in Nat
    BY DonesType
  <2> QED
    BY <1>3, <2>2, <2>3
<1> QED
  BY <1>2, <1>3

\* So does one taken from the front.
LEMMA DonesTail ==
  ASSUME NEW s \in Seq(ServerEvent), s # <<>>
  PROVE  Dones(s) = Dones(Tail(s))
                     + IF Head(s).type = "CLIENT_TICK_DONE" THEN 1 ELSE 0
<1> DEFINE D(q) == {i \in DOMAIN q : q[i].type = "CLIENT_TICK_DONE"}
           Shift == [i \in D(Tail(s)) |-> i + 1]
<1>1. /\ Tail(s) \in Seq(ServerEvent)
      /\ IsFiniteSet(D(s)) /\ IsFiniteSet(D(Tail(s)))
  <2>1. Tail(s) \in Seq(ServerEvent)
    BY HeadTailProperties
  <2> QED
    BY <2>1, DonesType
<1>2. D(s) \ {1} = {i + 1 : i \in D(Tail(s))}
  <2>1. ASSUME NEW i \in D(s) \ {1}
        PROVE  i - 1 \in D(Tail(s)) /\ i = (i - 1) + 1
    OBVIOUS
  <2>2. ASSUME NEW i \in D(Tail(s))
        PROVE  i + 1 \in D(s) \ {1}
    OBVIOUS
  <2> HIDE DEF D
  <2>3. D(Tail(s)) \subseteq Int
    BY DEF D
  <2> QED
    BY <2>1, <2>2, <2>3
<1>3. Shift \in Bijection(D(Tail(s)), D(s) \ {1})
  <2>1. Shift \in [D(Tail(s)) -> D(s) \ {1}]
    BY <1>2
  <2>2. \A i, j \in D(Tail(s)) : Shift[i] = Shift[j] => i = j
    BY <1>1
  <2>3. \A k \in D(s) \ {1} : \E i \in D(Tail(s)) : Shift[i] = k
    BY <1>2
  <2> QED
    BY <2>1, <2>2, <2>3 DEF Bijection, Injection, Surjection, IsInjective
<1>4. Cardinality(D(s) \ {1}) = Cardinality(D(Tail(s)))
  <2> HIDE DEF D, Shift
  <2> QED
    BY <1>1, <1>3, FS_Bijection DEF ExistsBijection
<1>5. Cardinality(D(s) \ {1}) = IF 1 \in D(s) THEN Cardinality(D(s)) - 1
                                             ELSE Cardinality(D(s))
  <2> HIDE DEF D
  <2> QED
    BY <1>1, FS_RemoveElement
<1>6. 1 \in D(s) <=> Head(s).type = "CLIENT_TICK_DONE"
  OBVIOUS
<1>7. Dones(s) = Cardinality(D(s)) /\ Dones(Tail(s)) = Cardinality(D(Tail(s)))
  BY DEF Dones
<1>8. Dones(s) \in Nat /\ Dones(Tail(s)) \in Nat
  BY <1>1, DonesType
<1>9. Dones(s) = IF Head(s).type = "CLIENT_TICK_DONE"
                   THEN Dones(Tail(s)) + 1 ELSE Dones(Tail(s))
  <2> HIDE DEF D
  <2> QED
    BY <1>4, <1>5, <1>6, <1>7, <1>8
<1> QED
  BY <1>8, <1>9
-----------------------------------------------------------------------------
(* Type correctness, one step per action. *)

\* Taking the first message of a queue, and adding one, keeps it a queue.
LEMMA QueueTyped ==
  ASSUME NEW S, NEW q \in [Clients -> Seq(S)], NEW c \in Clients
  PROVE  /\ q[c] # <<>> => /\ Head(q[c]) \in S
                           /\ [q EXCEPT ![c] = Tail(@)] \in [Clients -> Seq(S)]
         /\ \A m \in S :
              [q EXCEPT ![c] = Append(@, m)] \in [Clients -> Seq(S)]
OBVIOUS

\* Every step keeps the types.
LEMMA TypeStep == TypeOK /\ [Next]_vars => TypeOK'
<1> SUFFICES ASSUME TypeOK, [Next]_vars PROVE TypeOK'
  OBVIOUS
<1> USE DEF TypeOK
<1>e. <<>> \in Batch
  BY DEF Batch
<1>a. \A b \in Seq(Batch), x \in Batch : Append(b, x) \in Seq(Batch)
  OBVIOUS
<1>1. CASE ServerStartGame
  <2>1. OpeningMessages \in Seq(ClientMessage)
    BY <1>e, MessagesTyped DEF OpeningMessages
  <2>2. toClient' \in [Clients -> Seq(ClientMessage)]
    BY <1>1, <2>1, ConcatProperties DEF ServerStartGame, Broadcast
  <2>3. OpeningBatches \in Seq(Batch)
    BY <1>e DEF OpeningBatches
  <2>4. log' \in Seq(Batch)
    BY <1>1, <2>3, ConcatProperties DEF ServerStartGame
  <2> QED
    BY <1>1, <1>e, <2>2, <2>4 DEF ServerStartGame, PlayersOf, clientVars
<1>2. CASE ServerAbort
  BY <1>2
  DEF ServerAbort, OpenPeers, ClosePeers, serverVars, enetVars, clientVars,
      history
<1>3. CASE ServerStartTick
  <2>1. <<ServerTick(nextOrders)>> \in Seq(ClientMessage)
    BY MessagesTyped
  <2>2. toClient' \in [Clients -> Seq(ClientMessage)]
    BY <1>3, <2>1, ConcatProperties DEF ServerStartTick, Broadcast
  <2>4. log' \in Seq(Batch)
    BY <1>3, <1>a DEF ServerStartTick
  <2> QED
    BY <1>3, <1>e, <2>2, <2>4 DEF ServerStartTick, clientVars
<1>4. CASE ServerExit
  BY <1>4
  DEF ServerExit, OpenPeers, ClosePeers, serverVars, enetVars, clientVars,
      history
<1>5. ASSUME NEW c \in Clients, ServerAccept(c) PROVE TypeOK'
  <2>1. /\ Head(toServer[c]) \in ServerEvent
        /\ toServer' \in [Clients -> Seq(ServerEvent)]
    BY <1>5, QueueTyped DEF ServerAccept, Arrives, Dispatched
  <2>2. id' \in [Clients -> Nat] /\ named' \in [Clients -> BOOLEAN]
    BY <1>5 DEF ServerAccept
  <2>3. ticksDone' \in [Clients -> Nat] /\ clients' \subseteq Clients
    BY <1>5 DEF ServerAccept
  <2> QED
    BY <1>5, <2>1, <2>2, <2>3 DEF ServerAccept, clientVars, history
<1>6. ASSUME NEW c \in Clients, ServerReject(c) PROVE TypeOK'
  <2>1. link' \in [Clients -> {"none", "open", "closed"}]
    BY <1>6 DEF ServerReject, ClosePeers
  <2>2. toServer' \in [Clients -> Seq(ServerEvent)]
    BY <1>6 DEF ServerReject, ClosePeers
  <2> QED
    BY <1>6, <2>1, <2>2 DEF ServerReject, serverVars, clientVars, history
<1>7. ASSUME NEW c \in Clients, ServerHandleConnect(c) PROVE TypeOK'
  <2>1. /\ Head(toServer[c]) \in ServerEvent
        /\ toServer' \in [Clients -> Seq(ServerEvent)]
    BY <1>7, QueueTyped DEF ServerHandleConnect, Arrives, Dispatched
  <2>2. toClient' \in [Clients -> Seq(ClientMessage)]
    BY <1>7, QueueTyped, MessagesTyped DEF ServerHandleConnect
  <2> QED
    BY <1>7, <2>1, <2>2 DEF ServerHandleConnect, clientVars, history
<1>8. ASSUME NEW c \in Clients, ServerHandleOrder(c) PROVE TypeOK'
  <2>1. /\ Head(toServer[c]) \in ServerEvent
        /\ toServer' \in [Clients -> Seq(ServerEvent)]
    BY <1>8, QueueTyped DEF ServerHandleOrder, Arrives, Dispatched
  <2>2. Head(toServer[c]).order \in Order
    BY <1>8, <2>1, EventContents DEF ServerHandleOrder, Arrives
  <2>3. [Head(toServer[c]).order EXCEPT !.player = id[c]] \in Order
    BY <2>2 DEF Order
  <2>4. nextOrders' \in Batch
    BY <1>8, <2>3 DEF ServerHandleOrder, Batch
  <2> QED
    BY <1>8, <2>1, <2>4 DEF ServerHandleOrder, clientVars, history
<1>9. ASSUME NEW c \in Clients, ServerHandleTickDone(c) PROVE TypeOK'
  <2>1. /\ Head(toServer[c]) \in ServerEvent
        /\ toServer' \in [Clients -> Seq(ServerEvent)]
    BY <1>9, QueueTyped DEF ServerHandleTickDone, Arrives, Dispatched
  <2>2. ticksDone' \in [Clients -> Nat]
    BY <1>9 DEF ServerHandleTickDone
  <2> QED
    BY <1>9, <2>1, <2>2 DEF ServerHandleTickDone, clientVars, history
<1>10. ASSUME NEW c \in Clients, ServerHandleDisconnect(c) PROVE TypeOK'
  <2>1. quit' \in BOOLEAN
    BY <1>10, Zenon DEF ServerHandleDisconnect
  <2>2. link' \in [Clients -> {"none", "open", "closed"}]
    BY <1>10 DEF ServerHandleDisconnect, ClosePeers
  <2>3. toServer' \in [Clients -> Seq(ServerEvent)]
    BY <1>10 DEF ServerHandleDisconnect, ClosePeers
  <2>4. clients' \subseteq Clients
    BY <1>10 DEF ServerHandleDisconnect
  <2> QED
    BY <1>10, <2>1, <2>2, <2>3, <2>4 DEF ServerHandleDisconnect, clientVars, history
<1>11. ASSUME NEW c \in Clients, ClientHandleConnect(c) PROVE TypeOK'
  <2>1. /\ Head(toClient[c]) \in ClientMessage
        /\ toClient' \in [Clients -> Seq(ClientMessage)]
    BY <1>11, QueueTyped DEF ClientHandleConnect, Receives
  <2> QED
    BY <1>11, <2>1, MessageContents
    DEF ClientHandleConnect, Receives, serverVars, history
<1>12. ASSUME NEW c \in Clients, ClientHandleStart(c) PROVE TypeOK'
  <2>1. /\ Head(toClient[c]) \in ClientMessage
        /\ toClient' \in [Clients -> Seq(ClientMessage)]
    BY <1>12, QueueTyped DEF ClientHandleStart, Receives
  <2> QED
    BY <1>12, <2>1, MessageContents
    DEF ClientHandleStart, Receives, serverVars, history
<1>13. ASSUME NEW c \in Clients, ClientHandleTick(c) PROVE TypeOK'
  <2>1. /\ Head(toClient[c]) \in ClientMessage
        /\ toClient' \in [Clients -> Seq(ClientMessage)]
    BY <1>13, QueueTyped DEF ClientHandleTick, Receives
  <2>2. Head(toClient[c]).orders \in Batch
    BY <1>13, <2>1, MessageContents DEF ClientHandleTick, Receives
  <2>3. ran' \in [Clients -> Seq(Batch)]
    <3>1. [ran EXCEPT ![c] = Append(@, Head(toClient[c]).orders)]
            \in [Clients -> Seq(Batch)]
      BY <2>2, QueueTyped
    <3> QED
      BY <1>13, <3>1 DEF ClientHandleTick
  <2>4. queuedOrders' \in [Clients -> Batch]
    BY <1>13, <2>2 DEF ClientHandleTick
  <2>5. /\ tickRunning' \in [Clients -> BOOLEAN]
        /\ haveQueuedTick' \in [Clients -> BOOLEAN]
    BY <1>13 DEF ClientHandleTick
  <2> QED
    BY <1>13, <2>1, <2>3, <2>4, <2>5 DEF ClientHandleTick, serverVars, history
<1>14. ASSUME NEW c \in Clients, ClientFinishTick(c) PROVE TypeOK'
  <2>1. toServer' \in [Clients -> Seq(ServerEvent)]
    <3>1. [toServer EXCEPT ![c] = Append(@, ClientTickDone)]
            \in [Clients -> Seq(ServerEvent)]
      BY QueueTyped, EventsTyped
    <3> QED
      BY <1>14, <3>1 DEF ClientFinishTick, SendToServer
  <2>2. ran' \in [Clients -> Seq(Batch)]
    <3>1. [ran EXCEPT ![c] = Append(@, queuedOrders[c])]
            \in [Clients -> Seq(Batch)]
      BY QueueTyped
    <3> QED
      BY <1>14, <3>1 DEF ClientFinishTick
  <2>3. /\ tickRunning' \in [Clients -> BOOLEAN]
        /\ haveQueuedTick' \in [Clients -> BOOLEAN]
    BY <1>14 DEF ClientFinishTick
  <2> QED
    BY <1>14, <2>1, <2>2, <2>3
    DEF ClientFinishTick, serverVars, clientVars, history
<1>15. ASSUME NEW c \in Clients, ClientConnects(c) PROVE TypeOK'
  <2>1. <<ConnectEvent, ClientConnect>> \in Seq(ServerEvent)
    BY EventsTyped
  <2> QED
    BY <1>15, <2>1 DEF ClientConnects, serverVars, history
<1>16. ASSUME NEW c \in Clients, ClientIssuesOrder(c) PROVE TypeOK'
  <2> DEFINE o == [player |-> playerId[c], n |-> issued[c] + 1, at |-> Len(ran[c])]
  <2>0. o \in Order
    BY DEF Order
  <2>1. toServer' \in [Clients -> Seq(ServerEvent)]
    <3>1. [toServer EXCEPT ![c] = Append(@, ClientOrder(o))]
            \in [Clients -> Seq(ServerEvent)]
      BY <2>0, QueueTyped, EventsTyped
    <3> QED
      BY <1>16, <3>1 DEF ClientIssuesOrder, SendToServer
  <2>2. issued' \in [Clients -> Nat]
    BY <1>16 DEF ClientIssuesOrder
  <2> QED
    BY <1>16, <2>1, <2>2 DEF ClientIssuesOrder, serverVars, clientVars, history
<1>17. ASSUME NEW c \in Clients, ClientExits(c) PROVE TypeOK'
  BY <1>17 DEF ClientExits, serverVars, enetVars, clientVars, history
<1>18. ASSUME NEW c \in Clients, HandshakeFails(c) PROVE TypeOK'
  <2>1. link' \in [Clients -> {"none", "open", "closed"}]
    BY <1>18 DEF HandshakeFails, ClosePeers
  <2>2. toServer' \in [Clients -> Seq(ServerEvent)]
    BY <1>18 DEF HandshakeFails, ClosePeers
  <2> QED
    BY <1>18, <2>1, <2>2 DEF HandshakeFails, serverVars, clientVars, history
<1>19. ASSUME NEW c \in Clients, ConnectionLost(c) PROVE TypeOK'
  <2>1. toClient' \in [Clients -> Seq(ClientMessage)]
    BY <1>19 DEF ConnectionLost
  <2> QED
    BY <1>19, <2>1 DEF ConnectionLost, serverVars, clientVars, history
<1>20. CASE UNCHANGED vars
  BY <1>20 DEF vars, serverVars, enetVars, clientVars, history
<1> QED
  BY <1>1, <1>2, <1>3, <1>4, <1>5, <1>6, <1>7, <1>8, <1>9, <1>10, <1>11,
     <1>12, <1>13, <1>14, <1>15, <1>16, <1>17, <1>18, <1>19, <1>20
  DEF Next, ServerStep, ServerHandleEvent, ClientHandleMessage

\* The initial state has the types.
LEMMA InitType == Init => TypeOK
<1>1. /\ <<>> \in Seq(ServerEvent) /\ <<>> \in Seq(ClientMessage)
      /\ <<>> \in Seq(Batch) /\ <<>> \in Batch
  BY DEF Batch
<1> SUFFICES ASSUME Init PROVE TypeOK
  OBVIOUS
<1>2. /\ server \in {"running", "exited", "aborted"}
      /\ quit \in BOOLEAN /\ gameStarted \in BOOLEAN
      /\ players \subseteq Nat /\ playerCounter \in Nat
      /\ clients \subseteq Clients
      /\ ticksStarted \in Nat /\ nextOrders \in Batch
  BY <1>1 DEF Init
<1>3. /\ id \in [Clients -> Nat] /\ named \in [Clients -> BOOLEAN]
      /\ ticksDone \in [Clients -> Nat]
      /\ link \in [Clients -> {"none", "open", "closed"}]
      /\ process \in [Clients -> {"new", "running", "exited"}]
      /\ playerId \in [Clients -> Nat] /\ simulating \in [Clients -> BOOLEAN]
      /\ tickRunning \in [Clients -> BOOLEAN]
      /\ haveQueuedTick \in [Clients -> BOOLEAN]
      /\ issued \in [Clients -> Nat]
  BY DEF Init
<1>4. /\ toServer \in [Clients -> Seq(ServerEvent)]
      /\ toClient \in [Clients -> Seq(ClientMessage)]
      /\ ran \in [Clients -> Seq(Batch)]
      /\ queuedOrders \in [Clients -> Batch] /\ log \in Seq(Batch)
  BY <1>1 DEF Init
<1> QED
  BY <1>2, <1>3, <1>4 DEF TypeOK

\* Every variable keeps its type.
THEOREM TypeCorrect == Spec => []TypeOK
BY InitType, TypeStep, PTL DEF Spec
-----------------------------------------------------------------------------
(* The inductive invariant.  First what it implies, then that the initial   *)
(* state satisfies it, then that the steps preserve it.                     *)

\* The invariant implies the five safety properties.
LEMMA InvImplies ==
  TypeOK /\ IndInv => /\ TickWindow /\ QueueNeverOverrun /\ NothingIgnored
                      /\ StartedClientKnowsItsId /\ InLockstep
<1> SUFFICES ASSUME TypeOK, IndInv
             PROVE  /\ TickWindow /\ QueueNeverOverrun /\ NothingIgnored
                    /\ StartedClientKnowsItsId /\ InLockstep
  OBVIOUS
<1>1. TickWindow /\ InLockstep
  BY DEF IndInv, LogInv, PeerInv, TickWindow, InLockstep
<1>2. ASSUME NEW c \in Clients, haveQueuedTick[c]
      PROVE  toClient[c] = <<>>
  <2>1. tickRunning[c] /\ simulating[c]
    BY <1>2 DEF IndInv, PeerInv, ClientInv
  <2>2. 1 + 1 + Len(toClient[c]) <= 2
    <3>1. CreditInv(c)
      BY DEF IndInv, PeerInv
    <3>2. Preamble(c) = 0 /\ Waiting(c) = 1 /\ Running(c) = 1
      BY <1>2, <2>1 DEF Preamble, Received, Waiting, Running
    <3> QED
      BY <3>1, <3>2 DEF CreditInv, TypeOK
  <2> QED
    BY <2>2 DEF TypeOK
<1>3. ASSUME NEW c \in Clients, toClient[c] # <<>>,
             Head(toClient[c]).type = "SERVER_TICK"
      PROVE  simulating[c]
  <2>1. 1 \in DOMAIN toClient[c] /\ Head(toClient[c]) = toClient[c][1]
    BY <1>3 DEF TypeOK
  <2>2. DownInv(c)
    BY DEF IndInv, PeerInv
  <2> SUFFICES ASSUME ~simulating[c] PROVE FALSE
    OBVIOUS
  <2>3. Preamble(c) \in {1, 2}
    BY DEF Preamble
  <2> QED
    BY <1>3, <2>1, <2>2, <2>3 DEF DownInv, ServerStart, ServerConnect
<1>4. ASSUME NEW c \in Clients, toServer[c] # <<>>,
             Head(toServer[c]).type = "CLIENT_ORDER"
      PROVE  gameStarted
  <2>1. link[c] = "open"
    BY <1>4 DEF IndInv, PeerInv, UpInv
  <2> QED
    BY <1>4, <2>1 DEF IndInv, PeerInv, UpInv, ConnectEvent, ClientConnect
<1>5. StartedClientKnowsItsId
  BY DEF IndInv, PeerInv, ClientInv, StartedClientKnowsItsId
<1> QED
  BY <1>1, <1>2, <1>3, <1>4, <1>5 DEF QueueNeverOverrun, NothingIgnored

\* It leaves no client and the server waiting for each other: the ticks that
\* a client has not done are running, waiting or on their way, and one that
\* waits has one running before it.
LEMMA InvMovesOn == TypeOK /\ IndInv => NoneWaitsInVain
<1> SUFFICES ASSUME TypeOK, IndInv, server = "running", gameStarted,
                    NEW c \in clients, ticksDone[c] < ticksStarted - 1,
                    \A i \in DOMAIN toServer[c] : toServer[c][i] # ClientTickDone,
                    ~tickRunning[c]
             PROVE  CanHandle(c)
  BY DEF NoneWaitsInVain
<1>1. /\ c \in Clients
      /\ ClientInv(c) /\ UpInv(c) /\ CompleteInv(c) /\ AckInv(c)
  BY DEF TypeOK, IndInv, PeerInv
<1>2. link[c] = "open" /\ ~haveQueuedTick[c]
  BY <1>1 DEF UpInv, ClientInv
<1>3. Dones(toServer[c]) = 0
  <2>1. toServer[c] \in Seq(ServerEvent)
    BY <1>1 DEF TypeOK
  <2>2. {i \in DOMAIN toServer[c] : toServer[c][i].type = "CLIENT_TICK_DONE"}
          = {}
    BY <2>1 DEF ServerEvent, ConnectEvent, ClientConnect, ClientTickDone
  <2> QED BY <2>2, FS_EmptySet DEF Dones
<1>4. ticksDone[c] = Len(ran[c])
  <2>1. ticksDone[c] \in Nat /\ Len(ran[c]) \in Nat
    BY <1>1 DEF TypeOK
  <2> QED BY <1>1, <1>2, <1>3, <2>1 DEF AckInv, Running
<1>5. Len(ran[c]) + Len(toClient[c]) = ticksStarted + Preamble(c)
  <2>1. Received(c) = Len(ran[c])
    <3>1. Waiting(c) = 0
      BY <1>2 DEF Waiting
    <3>2. Len(ran[c]) \in Nat
      BY <1>1 DEF TypeOK
    <3> QED BY <3>1, <3>2 DEF Received
  <2>2. Received(c) + Len(toClient[c]) = ticksStarted + Preamble(c)
    BY <1>1, <1>2 DEF CompleteInv
  <2> QED BY <2>1, <2>2
<1>6. toClient[c] # <<>>
  <2>1. /\ Len(ran[c]) \in Nat /\ ticksStarted \in Nat
        /\ toClient[c] \in Seq(ClientMessage)
    BY <1>1 DEF TypeOK
  <2>2. Preamble(c) \in Nat
    BY DEF Preamble
  <2>3. Len(ran[c]) < ticksStarted - 1
    BY <1>4
  <2>4. \A r, t, p, n \in Nat : r < t - 1 /\ r + n = t + p => n # 0
    OBVIOUS
  <2>5. Len(toClient[c]) \in Nat
    BY <2>1
  <2>6. Len(toClient[c]) # 0
    BY <1>5, <2>1, <2>2, <2>3, <2>4, <2>5
  <2> QED BY <2>1, <2>6
<1>7. Head(toClient[c]).type = "SERVER_TICK" => simulating[c]
  BY <1>1, <1>6, InvImplies DEF NothingIgnored
<1> QED BY <1>2, <1>6, <1>7 DEF CanHandle

\* The initial state satisfies the invariant: there is no client yet.
LEMMA InitInv == Init => IndInv
<1> SUFFICES ASSUME Init PROVE IndInv
  OBVIOUS
<1>1. LogInv
  BY DEF Init, LogInv
<1>2. ASSUME NEW c \in Clients PROVE PeerInv(c)
  BY DEF Init, PeerInv, ClientInv, UpInv, DownInv, CompleteInv, AckInv,
         CreditInv, InStep, InWindow, Received, Waiting, Running, Preamble
<1> QED
  BY <1>1, <1>2 DEF IndInv

\* A step that leaves a client, its connection, its ClientInfo and the game
\* alone keeps what holds of it.
LEMMA PeerUntouched ==
  ASSUME NEW d \in Clients, PeerInv(d),
         UNCHANGED <<server, gameStarted, players, ticksStarted, log>>,
         d \in clients <=> d \in clients',
         UNCHANGED <<id[d], named[d], ticksDone[d]>>,
         UNCHANGED <<link[d], toServer[d], toClient[d]>>,
         UNCHANGED <<process[d], playerId[d], simulating[d], ran[d],
                     tickRunning[d], haveQueuedTick[d], queuedOrders[d]>>
  PROVE  PeerInv(d)'
<1>1. /\ Received(d)' = Received(d) /\ Preamble(d)' = Preamble(d)
      /\ Running(d)' = Running(d) /\ Waiting(d)' = Waiting(d)
  BY DEF Received, Waiting, Preamble, Running
<1>2. ClientInv(d)' /\ UpInv(d)' /\ AckInv(d)' /\ InStep(d)' /\ InWindow(d)'
  BY <1>1 DEF PeerInv, ClientInv, UpInv, AckInv, InStep, InWindow
<1>3. DownInv(d)' /\ CompleteInv(d)' /\ CreditInv(d)'
  BY <1>1 DEF PeerInv, DownInv, TickAt, CompleteInv, CreditInv
<1> QED
  BY <1>2, <1>3 DEF PeerInv

(* The steps. *)

\* A queue without CLIENT_TICK_DONE.
LEMMA DonesNone ==
  ASSUME NEW s \in Seq(ServerEvent),
         \A i \in DOMAIN s : s[i].type # "CLIENT_TICK_DONE"
  PROVE  Dones(s) = 0
<1>1. {i \in DOMAIN s : s[i].type = "CLIENT_TICK_DONE"} = {}
  OBVIOUS
<1> QED
  BY <1>1, FS_EmptySet DEF Dones

\* What the first event of a peer says about its client.
LEMMA FirstEvent ==
  ASSUME TypeOK, IndInv, NEW c \in Clients, toServer[c] # <<>>
  PROVE  /\ link[c] = "open"
         /\ Head(toServer[c]).type = "ENET_EVENT_TYPE_CONNECT" =>
              /\ c \notin clients
              /\ toServer[c] = <<ConnectEvent, ClientConnect>>
         /\ Head(toServer[c]).type = "CLIENT_CONNECT" =>
              /\ c \in clients /\ ~gameStarted /\ ~named[c]
              /\ toServer[c] = <<ClientConnect>>
         /\ Head(toServer[c]).type \in {"CLIENT_ORDER", "CLIENT_TICK_DONE"} =>
              c \in clients /\ gameStarted
<1>1. UpInv(c)
  BY DEF IndInv, PeerInv
<1>2. link[c] = "open"
  BY <1>1 DEF UpInv
<1>3. CASE c \notin clients
  <2>1. toServer[c] = <<ConnectEvent, ClientConnect>>
    BY <1>1, <1>2, <1>3 DEF UpInv
  <2> QED
    BY <1>2, <1>3, <2>1 DEF ConnectEvent
<1>4. CASE c \in clients /\ ~gameStarted
  <2>1. toServer[c] = <<ClientConnect>> /\ ~named[c]
    BY <1>1, <1>2, <1>4 DEF UpInv
  <2> QED
    BY <1>2, <1>4, <2>1 DEF ClientConnect
<1>5. CASE c \in clients /\ gameStarted
  <2>1. Head(toServer[c]).type \in {"CLIENT_ORDER", "CLIENT_TICK_DONE"}
    BY <1>1, <1>2, <1>5 DEF UpInv, TypeOK
  <2> QED
    BY <1>2, <1>5, <2>1
<1> QED
  BY <1>3, <1>4, <1>5

\* What the first message in the channel to a client is.
LEMMA FirstMessage ==
  ASSUME TypeOK, IndInv, NEW c \in Clients, toClient[c] # <<>>
  PROVE  /\ Head(toClient[c]).type = "SERVER_CONNECT" =>
              /\ Preamble(c) = 2 /\ id[c] # 0
              /\ Head(toClient[c]) = ServerConnect(id[c])
         /\ Head(toClient[c]).type = "SERVER_START" =>
              Preamble(c) = 1 /\ gameStarted /\ id[c] \in players
         /\ Head(toClient[c]).type = "SERVER_TICK" =>
              /\ Preamble(c) = 0 /\ Received(c) + 1 \in DOMAIN log
              /\ Head(toClient[c]) = ServerTick(log[Received(c) + 1])
<1>1. DownInv(c)
  BY DEF IndInv, PeerInv
<1>2. 1 \in DOMAIN toClient[c] /\ Head(toClient[c]) = toClient[c][1]
  BY DEF TypeOK
<1>3. Preamble(c) \in {0, 1, 2} /\ Received(c) \in Nat
  BY DEF Preamble, Received, Waiting, Running, TypeOK
<1>4. CASE Preamble(c) = 0
  <2>1. TickAt(c, 1) = Received(c) + 1
    BY <1>3, <1>4 DEF TickAt
  <2> QED
    BY <1>1, <1>2, <1>4, <2>1 DEF DownInv, ServerTick
<1>5. CASE Preamble(c) = 1
  BY <1>1, <1>2, <1>5 DEF DownInv, ServerStart
<1>6. CASE Preamble(c) = 2
  BY <1>1, <1>2, <1>6 DEF DownInv, ServerConnect
<1> QED
  BY <1>3, <1>4, <1>5, <1>6

\* Handling the first message: the rest is what it was, one place on.
LEMMA DownTail ==
  ASSUME TypeOK, NEW c \in Clients, DownInv(c), toClient[c] # <<>>,
         toClient' = [toClient EXCEPT ![c] = Tail(@)],
         UNCHANGED <<log, id, players, gameStarted>>,
         \/ Received(c)' = Received(c) /\ Preamble(c)' = Preamble(c) - 1
         \/ Received(c)' = Received(c) + 1 /\ Preamble(c) = 0
                                            /\ Preamble(c)' = 0
  PROVE  DownInv(c)' /\ Len(toClient'[c]) = Len(toClient[c]) - 1
<1>1. /\ DOMAIN toClient'[c] = 1..(Len(toClient[c]) - 1)
      /\ Len(toClient'[c]) = Len(toClient[c]) - 1
      /\ \A i \in DOMAIN toClient'[c] : /\ i + 1 \in DOMAIN toClient[c]
                                        /\ toClient'[c][i] = toClient[c][i + 1]
  BY DEF TypeOK
<1>2. Preamble(c) \in {0, 1, 2} /\ Received(c) \in Nat
  BY DEF Preamble, Received, Waiting, Running, TypeOK
<1>3. ASSUME NEW i \in DOMAIN toClient'[c]
      PROVE  /\ TickAt(c, i)' = TickAt(c, i + 1)
             /\ i > Preamble(c)' <=> i + 1 > Preamble(c)
             /\ i = Preamble(c)' => i + 1 = Preamble(c)
             /\ i < Preamble(c)' => i + 1 < Preamble(c)
  <2>1. i \in Nat /\ i >= 1
    BY <1>1 DEF TypeOK
  <2>2. CASE Received(c)' = Received(c) /\ Preamble(c)' = Preamble(c) - 1
    BY <1>2, <2>1, <2>2 DEF TickAt
  <2>3. CASE Received(c)' = Received(c) + 1 /\ Preamble(c) = 0
                                            /\ Preamble(c)' = 0
    <3>1. TickAt(c, i)' = TickAt(c, i + 1)
      BY <1>2, <2>1, <2>3 DEF TickAt
    <3>2. i > Preamble(c)' /\ i + 1 > Preamble(c)
      BY <2>1, <2>3
    <3> QED
      BY <2>1, <2>3, <3>1, <3>2
  <2> QED
    BY <2>2, <2>3
<1>4. DownInv(c)'
  BY <1>1, <1>3 DEF DownInv
<1> QED
  BY <1>1, <1>4

\* The numbers the invariant counts with are numbers.
LEMMA CountsTyped ==
  ASSUME TypeOK, NEW c \in Clients
  PROVE  /\ Received(c) \in Nat /\ Preamble(c) \in {0, 1, 2}
         /\ Len(ran[c]) \in Nat /\ Len(toClient[c]) \in Nat
         /\ Running(c) \in {0, 1} /\ Waiting(c) \in {0, 1}
         /\ Len(log) \in Nat
         /\ ticksDone[c] \in Nat /\ ticksStarted \in Nat
BY DEF TypeOK, Received, Preamble, Running, Waiting

\* A queue with a message more.
LEMMA Appended ==
  ASSUME NEW S, NEW s \in Seq(S), NEW m \in S
  PROVE  /\ Append(s, m) \in Seq(S) /\ Append(s, m) # <<>>
         /\ Len(Append(s, m)) = Len(s) + 1
         /\ \A t \in 1..Len(s) : Append(s, m)[t] = s[t]
         /\ Append(s, m)[Len(s) + 1] = m
OBVIOUS

\* A client that ends changes neither its connection nor its queues.
LEMMA ClientExitsInv ==
  ASSUME TypeOK, TypeOK', IndInv, NEW c \in Clients, ClientExits(c)
  PROVE  IndInv'
<1>0. /\ LogInv /\ PeerInv(c)
      /\ ClientInv(c) /\ UpInv(c) /\ DownInv(c) /\ CompleteInv(c)
      /\ AckInv(c) /\ CreditInv(c) /\ InStep(c) /\ InWindow(c)
  BY DEF IndInv, PeerInv
<1>1. LogInv'
  BY <1>0 DEF LogInv, ClientExits, serverVars, enetVars, clientVars, history
<1>2. ASSUME NEW d \in Clients, d # c PROVE PeerInv(d)'
  BY <1>2, PeerUntouched
  DEF TypeOK, IndInv, ClientExits, serverVars, enetVars, clientVars, history
<1>3. PeerInv(c)'
  <2>1. ClientInv(c)' /\ InStep(c)' /\ InWindow(c)'
    BY <1>0
    DEF TypeOK, ClientInv, InStep, InWindow, ClientExits, serverVars, enetVars,
        clientVars, history
  <2>2. UpInv(c)'
    BY <1>0
    DEF TypeOK, UpInv, ClientExits, serverVars, enetVars, clientVars, history
  <2>3. Received(c)' = Received(c) /\ Preamble(c)' = Preamble(c)
    BY <1>0
    DEF TypeOK, Received, Waiting, Preamble, ClientExits, serverVars, enetVars,
        clientVars, history
  <2>4. DownInv(c)' /\ CompleteInv(c)' /\ CreditInv(c)'
    BY <1>0, <2>3
    DEF TypeOK, DownInv, TickAt, CompleteInv, CreditInv, Running, Waiting,
        ClientExits, serverVars, enetVars, clientVars, history
  <2>5. AckInv(c)'
    BY <1>0
    DEF TypeOK, AckInv, Running, ClientExits, serverVars, enetVars, clientVars,
        history
  <2> QED
    BY <2>1, <2>2, <2>4, <2>5 DEF PeerInv
<1> QED
  BY <1>1, <1>2, <1>3 DEF IndInv

\* Handling SERVER_CONNECT: the preamble is shorter by one, and so is the
\* channel.
LEMMA ClientHandleConnectInv ==
  ASSUME TypeOK, TypeOK', IndInv, NEW c \in Clients, ClientHandleConnect(c)
  PROVE  IndInv'
<1>0. /\ LogInv /\ PeerInv(c)
      /\ ClientInv(c) /\ UpInv(c) /\ DownInv(c) /\ CompleteInv(c)
      /\ AckInv(c) /\ CreditInv(c) /\ InStep(c) /\ InWindow(c)
  BY DEF IndInv, PeerInv
<1>1. LogInv'
  BY <1>0
  DEF LogInv, ClientHandleConnect, Receives, serverVars, enetVars, clientVars,
      history
<1>2. ASSUME NEW d \in Clients, d # c PROVE PeerInv(d)'
  BY <1>2, PeerUntouched
  DEF TypeOK, IndInv, ClientHandleConnect, Receives, serverVars, enetVars,
      clientVars, history
<1>3. PeerInv(c)'
  <2>1. /\ Preamble(c) = 2 /\ id[c] # 0 /\ toClient[c] # <<>>
        /\ playerId'[c] = id[c]
    <3>1. toClient[c] # <<>> /\ Head(toClient[c]).type = "SERVER_CONNECT"
      BY DEF ClientHandleConnect, Receives
    <3>2. /\ Preamble(c) = 2 /\ id[c] # 0
          /\ Head(toClient[c]) = ServerConnect(id[c])
      BY <3>1, FirstMessage
    <3> QED
      <4>1. playerId'[c] = Head(toClient[c]).yourPlayerId
        BY DEF ClientHandleConnect, TypeOK
      <4> QED
        BY <3>1, <3>2, <4>1 DEF ServerConnect
  <2>2. ~simulating[c] /\ playerId[c] = 0
    BY <2>1 DEF Preamble
  <2>3. Received(c)' = Received(c) /\ Preamble(c)' = 1
    BY <2>1, <2>2 DEF ClientHandleConnect, Received, Waiting, Preamble
  <2>4. DownInv(c)' /\ Len(toClient'[c]) = Len(toClient[c]) - 1
    <3>1. Preamble(c)' = Preamble(c) - 1
      BY <2>1, <2>3
    <3> QED
      BY <1>0, <2>1, <2>3, <3>1, DownTail
      DEF ClientHandleConnect, Receives, serverVars, history
  <2>5. ClientInv(c)' /\ InStep(c)' /\ InWindow(c)' /\ AckInv(c)'
    BY <1>0, <2>1, <2>2
    DEF TypeOK, ClientInv, InStep, InWindow, AckInv, Running,
        ClientHandleConnect, Receives, serverVars, enetVars, clientVars, history
  <2>6. UpInv(c)'
    BY <1>0, <2>1
    DEF TypeOK, UpInv, ClientHandleConnect, Receives, serverVars, enetVars,
        clientVars, history
  <2>7. CreditInv(c)'
    <3>1. Running(c)' = Running(c) /\ Waiting(c)' = Waiting(c)
      BY DEF Running, Waiting, ClientHandleConnect
    <3>2. Running(c) + Waiting(c) + Len(toClient[c]) <= Preamble(c) + 2
      BY <1>0 DEF CreditInv
    <3> QED
      BY <2>1, <2>3, <2>4, <3>1, <3>2, CountsTyped DEF CreditInv
  <2>8. CompleteInv(c)'
    BY <1>0, <2>1, <2>2, <2>3, <2>4
    DEF TypeOK, CompleteInv, Received, Waiting, ClientHandleConnect, Receives,
        serverVars, enetVars, clientVars, history
  <2> QED
    BY <2>4, <2>5, <2>6, <2>7, <2>8 DEF PeerInv
<1> QED
  BY <1>1, <1>2, <1>3 DEF IndInv

\* A new connection: its queue to the server is the handshake.
LEMMA ClientConnectsInv ==
  ASSUME TypeOK, TypeOK', IndInv, NEW c \in Clients, ClientConnects(c)
  PROVE  IndInv'
<1>0. /\ LogInv /\ PeerInv(c)
      /\ ClientInv(c) /\ UpInv(c) /\ DownInv(c) /\ CompleteInv(c)
      /\ AckInv(c) /\ CreditInv(c) /\ InStep(c) /\ InWindow(c)
  BY DEF IndInv, PeerInv
<1>1. LogInv'
  BY <1>0 DEF LogInv, ClientConnects, serverVars, enetVars, clientVars, history
<1>2. ASSUME NEW d \in Clients, d # c PROVE PeerInv(d)'
  BY <1>2, PeerUntouched
  DEF TypeOK, IndInv, ClientConnects, serverVars, enetVars, clientVars, history
<1>3. PeerInv(c)'
  <2>1. /\ link[c] = "none" /\ c \notin clients /\ toClient[c] = <<>>
        /\ playerId[c] = 0 /\ ~simulating[c]
    BY <1>0 DEF UpInv, ClientConnects
  <2>2. ClientInv(c)' /\ InStep(c)' /\ InWindow(c)'
    BY <1>0
    DEF TypeOK, ClientInv, InStep, InWindow, ClientConnects, serverVars,
        enetVars, clientVars, history
  <2>3. UpInv(c)'
    BY <2>1
    DEF TypeOK, UpInv, ClientConnects, serverVars, enetVars, clientVars, history
  <2>4. Received(c)' = Received(c) /\ Preamble(c)' = Preamble(c)
    BY DEF Received, Waiting, Preamble, Running, ClientConnects
  <2>5. DownInv(c)' /\ CreditInv(c)'
    BY <1>0, <2>4
    DEF DownInv, TickAt, CreditInv, Running, Waiting, ClientConnects,
        serverVars, enetVars, clientVars, history
  <2>6. CompleteInv(c)' /\ AckInv(c)'
    BY <2>1
    DEF CompleteInv, AckInv, ClientConnects, serverVars, enetVars, clientVars,
        history
  <2> QED
    BY <2>2, <2>3, <2>5, <2>6 DEF PeerInv
<1> QED
  BY <1>1, <1>2, <1>3 DEF IndInv

\* The server takes a client on: nothing is on its way to it yet.
LEMMA ServerAcceptInv ==
  ASSUME TypeOK, TypeOK', IndInv, NEW c \in Clients, ServerAccept(c)
  PROVE  IndInv'
<1>0. /\ LogInv /\ PeerInv(c)
      /\ ClientInv(c) /\ UpInv(c) /\ DownInv(c) /\ CompleteInv(c)
      /\ AckInv(c) /\ CreditInv(c) /\ InStep(c) /\ InWindow(c)
  BY DEF IndInv, PeerInv
<1>1. LogInv'
  BY <1>0
  DEF LogInv, ServerAccept, Arrives, Dispatched, serverVars, enetVars,
      clientVars, history
<1>2. ASSUME NEW d \in Clients, d # c PROVE PeerInv(d)'
  BY <1>2, PeerUntouched
  DEF TypeOK, IndInv, ServerAccept, Arrives, Dispatched, serverVars, enetVars,
      clientVars, history
<1>3. PeerInv(c)'
  <2>1. /\ link[c] = "open" /\ c \notin clients
        /\ toServer[c] = <<ConnectEvent, ClientConnect>>
    BY FirstEvent DEF ServerAccept, Arrives
  <2>2. /\ toClient[c] = <<>> /\ playerId[c] = 0 /\ ~simulating[c]
        /\ ran[c] = <<>> /\ ~tickRunning[c] /\ ~haveQueuedTick[c]
    BY <1>0, <2>1 DEF UpInv, ClientInv
  <2>3. /\ toServer'[c] = <<ClientConnect>> /\ c \in clients'
        /\ id'[c] = playerCounter + 1 /\ ~named'[c] /\ ticksDone'[c] = 0
        /\ ~gameStarted' /\ server' = server /\ link' = link
        /\ UNCHANGED <<clientVars, toClient, log, ticksStarted>>
    BY <2>1 DEF ServerAccept, Arrives, Dispatched, TypeOK, history
  <2>4. ClientInv(c)' /\ InStep(c)' /\ InWindow(c)'
    BY <1>0, <2>2, <2>3 DEF ClientInv, InStep, InWindow, clientVars
  <2>5. UpInv(c)'
    BY <1>0, <2>1, <2>3 DEF UpInv, clientVars
  <2>6. Received(c)' = 0 /\ Preamble(c)' = 2
    BY <2>2, <2>3 DEF Received, Waiting, Preamble, Running, clientVars
  <2>7. DownInv(c)'
    BY <2>2, <2>3 DEF DownInv
  <2>8. CompleteInv(c)'
    BY <2>2, <2>3 DEF CompleteInv, clientVars, TypeOK
  <2>9. CreditInv(c)'
    BY <2>2, <2>3, <2>6 DEF CreditInv, Running, Waiting, clientVars
  <2>10. Dones(toServer'[c]) = 0
    <3>1. <<ClientConnect>> \in Seq(ServerEvent)
      BY EventsTyped
    <3>2. \A i \in DOMAIN <<ClientConnect>> :
            <<ClientConnect>>[i].type # "CLIENT_TICK_DONE"
      BY DEF ClientConnect
    <3> QED
      BY <2>3, <3>1, <3>2, DonesNone
  <2>11. AckInv(c)'
    BY <2>2, <2>3, <2>10 DEF AckInv, Running, clientVars
  <2> QED
    BY <2>4, <2>5, <2>7, <2>8, <2>9, <2>11 DEF PeerInv
<1> QED
  BY <1>1, <1>2, <1>3 DEF IndInv

\* The server turns away a client that it has not taken on.
LEMMA ServerRejectInv ==
  ASSUME TypeOK, TypeOK', IndInv, NEW c \in Clients, ServerReject(c)
  PROVE  IndInv'
<1>0. /\ LogInv /\ PeerInv(c)
      /\ ClientInv(c) /\ UpInv(c) /\ DownInv(c) /\ CompleteInv(c)
      /\ AckInv(c) /\ CreditInv(c) /\ InStep(c) /\ InWindow(c)
  BY DEF IndInv, PeerInv
<1>1. LogInv'
  BY <1>0
  DEF LogInv, ServerReject, Arrives, ClosePeers, serverVars, enetVars,
      clientVars, history
<1>2. ASSUME NEW d \in Clients, d # c PROVE PeerInv(d)'
  BY <1>2, PeerUntouched
  DEF TypeOK, IndInv, ServerReject, Arrives, ClosePeers, serverVars, enetVars,
      clientVars, history
<1>3. PeerInv(c)'
  <2>1. c \notin clients /\ link'[c] = "closed" /\ toServer'[c] = <<>>
    BY FirstEvent DEF ServerReject, Arrives, ClosePeers
  <2>2. ClientInv(c)' /\ InStep(c)' /\ InWindow(c)'
    BY <1>0
    DEF TypeOK, ClientInv, InStep, InWindow, ServerReject, Arrives, ClosePeers,
        serverVars, enetVars, clientVars, history
  <2>3. UpInv(c)'
    <3>1. process[c] # "new"
      BY <1>0, FirstEvent DEF UpInv, ServerReject, Arrives
    <3> QED
      BY <2>1, <3>1 DEF UpInv, ServerReject, serverVars, clientVars
  <2>4. Received(c)' = Received(c) /\ Preamble(c)' = Preamble(c)
    BY DEF Received, Waiting, Preamble, Running, ServerReject, clientVars
  <2>5. DownInv(c)' /\ CreditInv(c)'
    BY <1>0, <2>4
    DEF DownInv, TickAt, CreditInv, Running, Waiting, ServerReject, Arrives,
        ClosePeers, serverVars, enetVars, clientVars, history
  <2>6. CompleteInv(c)' /\ AckInv(c)'
    BY <2>1 DEF CompleteInv, AckInv
  <2> QED
    BY <2>2, <2>3, <2>5, <2>6 DEF PeerInv
<1> QED
  BY <1>1, <1>2, <1>3 DEF IndInv

\* CLIENT_CONNECT: SERVER_CONNECT is the only message of the channel.
LEMMA ServerHandleConnectInv ==
  ASSUME TypeOK, TypeOK', IndInv, NEW c \in Clients, ServerHandleConnect(c)
  PROVE  IndInv'
<1>0. /\ LogInv /\ PeerInv(c)
      /\ ClientInv(c) /\ UpInv(c) /\ DownInv(c) /\ CompleteInv(c)
      /\ AckInv(c) /\ CreditInv(c) /\ InStep(c) /\ InWindow(c)
  BY DEF IndInv, PeerInv
<1>1. LogInv'
  BY <1>0
  DEF LogInv, ServerHandleConnect, Arrives, Dispatched, serverVars, enetVars,
      clientVars, history
<1>2. ASSUME NEW d \in Clients, d # c PROVE PeerInv(d)'
  BY <1>2, PeerUntouched
  DEF TypeOK, IndInv, ServerHandleConnect, Arrives, Dispatched, serverVars,
      enetVars, clientVars, history
<1>3. PeerInv(c)'
  <2>1. /\ link[c] = "open" /\ c \in clients /\ ~gameStarted /\ ~named[c]
        /\ toServer[c] = <<ClientConnect>>
    BY FirstEvent DEF ServerHandleConnect, Arrives
  <2>2. /\ playerId[c] = 0 /\ id[c] # 0 /\ ~simulating[c]
        /\ ran[c] = <<>> /\ ~tickRunning[c] /\ ~haveQueuedTick[c]
    BY <1>0, <2>1 DEF CompleteInv, ClientInv
  <2>3. toClient[c] = <<>>
    BY <1>0, <2>1 DEF CompleteInv, TypeOK
  <2>4. /\ toServer'[c] = <<>> /\ toClient'[c] = <<ServerConnect(id[c])>>
        /\ named'[c]
        /\ UNCHANGED <<server, gameStarted, players, clients, id, ticksDone,
                       ticksStarted, log, link, clientVars>>
    BY <2>1, <2>3 DEF ServerHandleConnect, Dispatched, TypeOK, history
  <2>5. ClientInv(c)' /\ InStep(c)' /\ InWindow(c)'
    BY <1>0, <2>4 DEF ClientInv, InStep, InWindow, clientVars
  <2>6. UpInv(c)'
    BY <1>0, <2>1, <2>4 DEF UpInv, clientVars
  <2>7. Received(c)' = 0 /\ Preamble(c)' = 2
    BY <2>2, <2>4 DEF Received, Waiting, Preamble, Running, clientVars
  <2>8. DownInv(c)' /\ CreditInv(c)'
    BY <2>2, <2>4, <2>7
    DEF DownInv, TickAt, CreditInv, Running, Waiting, clientVars
  <2>9. CompleteInv(c)'
    BY <2>1, <2>2, <2>4 DEF CompleteInv, clientVars
  <2>10. Dones(toServer[c]) = 0 /\ Dones(toServer'[c]) = 0
    <3>1. /\ \A i \in DOMAIN toServer[c] :
               toServer[c][i].type # "CLIENT_TICK_DONE"
          /\ \A i \in DOMAIN toServer'[c] :
               toServer'[c][i].type # "CLIENT_TICK_DONE"
      BY <2>1, <2>4 DEF ClientConnect
    <3> QED
      BY <3>1, DonesNone DEF TypeOK
  <2>11. AckInv(c)'
    BY <1>0, <2>4, <2>10 DEF AckInv, Running, clientVars
  <2> QED
    BY <2>5, <2>6, <2>8, <2>9, <2>11 DEF PeerInv
<1> QED
  BY <1>1, <1>2, <1>3 DEF IndInv

\* An order leaves the queue; only nextOrders changes with it.
LEMMA ServerHandleOrderInv ==
  ASSUME TypeOK, TypeOK', IndInv, NEW c \in Clients, ServerHandleOrder(c)
  PROVE  IndInv'
<1>0. /\ LogInv /\ PeerInv(c)
      /\ ClientInv(c) /\ UpInv(c) /\ DownInv(c) /\ CompleteInv(c)
      /\ AckInv(c) /\ CreditInv(c) /\ InStep(c) /\ InWindow(c)
  BY DEF IndInv, PeerInv
<1>1. LogInv'
  BY <1>0
  DEF LogInv, ServerHandleOrder, Arrives, Dispatched, serverVars, enetVars,
      clientVars, history
<1>2. ASSUME NEW d \in Clients, d # c PROVE PeerInv(d)'
  BY <1>2, PeerUntouched
  DEF TypeOK, IndInv, ServerHandleOrder, Arrives, Dispatched, serverVars,
      enetVars, clientVars, history
<1>3. PeerInv(c)'
  <2>1. /\ link[c] = "open" /\ c \in clients /\ gameStarted
        /\ toServer[c] # <<>>
    BY FirstEvent DEF ServerHandleOrder, Arrives
  <2>2. /\ toServer'[c] = Tail(toServer[c])
        /\ toServer[c] \in Seq(ServerEvent) /\ toServer'[c] \in Seq(ServerEvent)
    BY DEF ServerHandleOrder, Dispatched, TypeOK
  <2>3. Dones(toServer[c]) \in Nat /\ Dones(toServer'[c]) \in Nat
    BY <2>2, DonesType
  <2>4. UpInv(c)'
    <3>1. \A i \in DOMAIN toServer'[c] : /\ i + 1 \in DOMAIN toServer[c]
                                         /\ toServer'[c][i] = toServer[c][i + 1]
      BY <2>1, <2>2
    <3> QED
      BY <1>0, <2>1, <3>1 DEF UpInv, ServerHandleOrder, clientVars
  <2>5. Received(c)' = Received(c) /\ Preamble(c)' = Preamble(c)
    BY DEF Received, Waiting, Preamble, Running, ServerHandleOrder, clientVars
  <2>6. ClientInv(c)' /\ InStep(c)' /\ DownInv(c)' /\ CreditInv(c)'
    BY <1>0, <2>5
    DEF ClientInv, InStep, DownInv, TickAt, CreditInv, Running, Waiting,
        ServerHandleOrder, clientVars, history
  <2>7. CompleteInv(c)'
    BY <1>0, <2>5 DEF CompleteInv, ServerHandleOrder, clientVars, history
  <2>8. Dones(toServer'[c]) = Dones(toServer[c])
    <3>1. Head(toServer[c]).type # "CLIENT_TICK_DONE"
      BY DEF ServerHandleOrder, Arrives
    <3> QED
      BY <2>1, <2>2, <2>3, <3>1, DonesTail
  <2>9. AckInv(c)' /\ InWindow(c)'
    BY <1>0, <2>8 DEF AckInv, Running, InWindow, ServerHandleOrder, clientVars
  <2> QED
    BY <2>4, <2>6, <2>7, <2>9 DEF PeerInv
<1> QED
  BY <1>1, <1>2, <1>3 DEF IndInv

\* A CLIENT_TICK_DONE leaves the queue and is counted in ticksDone.  It does
\* not get ahead of ticksStarted, since the client has run that many ticks.
LEMMA ServerHandleTickDoneInv ==
  ASSUME TypeOK, TypeOK', IndInv, NEW c \in Clients, ServerHandleTickDone(c)
  PROVE  IndInv'
<1>0. /\ LogInv /\ PeerInv(c)
      /\ ClientInv(c) /\ UpInv(c) /\ DownInv(c) /\ CompleteInv(c)
      /\ AckInv(c) /\ CreditInv(c) /\ InStep(c) /\ InWindow(c)
  BY DEF IndInv, PeerInv
<1>1. LogInv'
  BY <1>0
  DEF LogInv, ServerHandleTickDone, Arrives, Dispatched, serverVars, enetVars,
      clientVars, history
<1>2. ASSUME NEW d \in Clients, d # c PROVE PeerInv(d)'
  BY <1>2, PeerUntouched
  DEF TypeOK, IndInv, ServerHandleTickDone, Arrives, Dispatched, serverVars,
      enetVars, clientVars, history
<1>3. PeerInv(c)'
  <2>1. /\ link[c] = "open" /\ c \in clients /\ gameStarted
        /\ toServer[c] # <<>>
    BY FirstEvent DEF ServerHandleTickDone, Arrives
  <2>2. /\ toServer'[c] = Tail(toServer[c])
        /\ toServer[c] \in Seq(ServerEvent) /\ toServer'[c] \in Seq(ServerEvent)
    BY DEF ServerHandleTickDone, Dispatched, TypeOK
  <2>3. Dones(toServer[c]) \in Nat /\ Dones(toServer'[c]) \in Nat
    BY <2>2, DonesType
  <2>4. UpInv(c)'
    <3>1. \A i \in DOMAIN toServer'[c] : /\ i + 1 \in DOMAIN toServer[c]
                                         /\ toServer'[c][i] = toServer[c][i + 1]
      BY <2>1, <2>2
    <3> QED
      BY <1>0, <2>1, <3>1 DEF UpInv, ServerHandleTickDone, clientVars
  <2>5. Received(c)' = Received(c) /\ Preamble(c)' = Preamble(c)
    BY DEF Received, Waiting, Preamble, Running, ServerHandleTickDone,
           clientVars
  <2>6. ClientInv(c)' /\ InStep(c)' /\ DownInv(c)' /\ CreditInv(c)'
    BY <1>0, <2>5
    DEF ClientInv, InStep, DownInv, TickAt, CreditInv, Running, Waiting,
        ServerHandleTickDone, clientVars, history
  <2>7. CompleteInv(c)'
    BY <1>0, <2>5 DEF CompleteInv, ServerHandleTickDone, clientVars, history
  <2>8. Dones(toServer[c]) = Dones(toServer'[c]) + 1
    <3>1. Head(toServer[c]).type = "CLIENT_TICK_DONE"
      BY DEF ServerHandleTickDone, Arrives
    <3> QED
      BY <2>1, <2>2, <2>3, <3>1, DonesTail
  <2>9. ticksDone'[c] = ticksDone[c] + 1 /\ ticksDone[c] \in Nat
    BY DEF ServerHandleTickDone, TypeOK
  <2>10. AckInv(c)'
    <3>1. Running(c) \in Nat /\ Len(ran[c]) \in Nat
      BY DEF Running, TypeOK
    <3> QED
      BY <1>0, <2>1, <2>3, <2>8, <2>9, <3>1
      DEF AckInv, Running, ServerHandleTickDone, clientVars
  <2>11. ticksDone'[c] <= ticksStarted
    <3>1. ticksDone[c] + Dones(toServer[c]) + Running(c) = Len(ran[c])
      BY <1>0, <2>1 DEF AckInv
    <3>2. Len(ran[c]) <= ticksStarted
      BY <1>0 DEF InStep, LogInv
    <3>3. /\ Running(c) \in Nat /\ Len(ran[c]) \in Nat
          /\ ticksStarted \in Nat
      BY DEF Running, TypeOK
    <3> QED
      BY <2>3, <2>8, <2>9, <3>1, <3>2, <3>3
  <2>12. InWindow(c)'
    <3>1. /\ ticksDone[c] \in Nat /\ ticksStarted \in Nat
          /\ UNCHANGED <<gameStarted, clients, ticksStarted>>
      BY CountsTyped DEF ServerHandleTickDone
    <3> QED
      BY <1>0, <2>1, <2>9, <2>11, <3>1 DEF InWindow
  <2> QED
    BY <2>4, <2>6, <2>7, <2>10, <2>12 DEF PeerInv
<1> QED
  BY <1>1, <1>2, <1>3 DEF IndInv

\* Handling SERVER_START ends the preamble: next come the ticks.
LEMMA ClientHandleStartInv ==
  ASSUME TypeOK, TypeOK', IndInv, NEW c \in Clients, ClientHandleStart(c)
  PROVE  IndInv'
<1>0. /\ LogInv /\ PeerInv(c)
      /\ ClientInv(c) /\ UpInv(c) /\ DownInv(c) /\ CompleteInv(c)
      /\ AckInv(c) /\ CreditInv(c) /\ InStep(c) /\ InWindow(c)
  BY DEF IndInv, PeerInv
<1>1. LogInv'
  BY <1>0
  DEF LogInv, ClientHandleStart, Receives, serverVars, enetVars, clientVars,
      history
<1>2. ASSUME NEW d \in Clients, d # c PROVE PeerInv(d)'
  BY <1>2, PeerUntouched
  DEF TypeOK, IndInv, ClientHandleStart, Receives, serverVars, enetVars,
      clientVars, history
<1>3. PeerInv(c)'
  <2>1. toClient[c] # <<>> /\ Head(toClient[c]).type = "SERVER_START"
    BY DEF ClientHandleStart, Receives
  <2>2. Preamble(c) = 1 /\ gameStarted /\ id[c] \in players
    BY <2>1, FirstMessage
  <2>3. /\ ~simulating[c] /\ playerId[c] # 0 /\ simulating'[c]
        /\ ran[c] = <<>> /\ ~tickRunning[c] /\ ~haveQueuedTick[c]
    BY <1>0, <2>2 DEF Preamble, ClientInv, ClientHandleStart, TypeOK
  <2>4. /\ Received(c)' = Received(c) /\ Preamble(c)' = 0
        /\ Preamble(c)' = Preamble(c) - 1
    BY <2>2, <2>3 DEF ClientHandleStart, Received, Waiting, Preamble
  <2>5. DownInv(c)' /\ Len(toClient'[c]) = Len(toClient[c]) - 1
    BY <1>0, <2>1, <2>4, DownTail
    DEF ClientHandleStart, Receives, serverVars, history
  <2>6. ClientInv(c)' /\ InStep(c)' /\ InWindow(c)' /\ AckInv(c)'
    BY <1>0, <2>2, <2>3
    DEF ClientInv, InStep, InWindow, AckInv, Running, ClientHandleStart,
        serverVars,
        history
  <2>7. UpInv(c)'
    BY <1>0, <2>1, <2>3 DEF UpInv, ClientHandleStart, serverVars
  <2>8. CreditInv(c)' /\ CompleteInv(c)'
    <3>1. Running(c)' = Running(c) /\ Waiting(c)' = Waiting(c)
      BY DEF Running, Waiting, ClientHandleStart
    <3>2. /\ Received(c) \in Nat
          /\ Len(toClient[c]) \in Nat
          /\ ticksStarted \in Nat
      BY CountsTyped
    <3>3. Running(c) + Waiting(c) + Len(toClient[c]) <= Preamble(c) + 2
      BY <1>0 DEF CreditInv
    <3>4. CreditInv(c)'
      BY <2>2, <2>4, <2>5, <3>1, <3>3, CountsTyped DEF CreditInv
    <3>5. ASSUME link[c] = "open", c \in clients
          PROVE  Received(c)' + Len(toClient'[c]) = ticksStarted + Preamble(c)'
      <4>1. Received(c) + Len(toClient[c]) = ticksStarted + Preamble(c)
        BY <1>0, <2>2, <3>5 DEF CompleteInv
      <4> QED
        BY <2>2, <2>4, <2>5, <3>2, <4>1
    <3>6. CompleteInv(c)'
      BY <1>0, <2>2, <2>3, <3>5 DEF CompleteInv, ClientHandleStart, serverVars
    <3> QED
      BY <3>4, <3>6
  <2> QED
    BY <2>5, <2>6, <2>7, <2>8 DEF PeerInv
<1> QED
  BY <1>1, <1>2, <1>3 DEF IndInv

\* A tick leaves the channel, and runs or waits.
LEMMA ClientHandleTickInv ==
  ASSUME TypeOK, TypeOK', IndInv, NEW c \in Clients, ClientHandleTick(c)
  PROVE  IndInv'
<1>0. /\ LogInv /\ PeerInv(c)
      /\ ClientInv(c) /\ UpInv(c) /\ DownInv(c) /\ CompleteInv(c)
      /\ AckInv(c) /\ CreditInv(c) /\ InStep(c) /\ InWindow(c)
  BY DEF IndInv, PeerInv
<1>1. LogInv'
  BY <1>0
  DEF LogInv, ClientHandleTick, Receives, serverVars, enetVars, clientVars,
      history
<1>2. ASSUME NEW d \in Clients, d # c PROVE PeerInv(d)'
  <2>1. UNCHANGED <<serverVars, link, process, playerId, simulating, history>>
    BY DEF ClientHandleTick
  <2>2. /\ toServer \in [Clients -> Seq(ServerEvent)]
        /\ toClient \in [Clients -> Seq(ClientMessage)]
        /\ ran \in [Clients -> Seq(Batch)]
        /\ tickRunning \in [Clients -> BOOLEAN]
        /\ haveQueuedTick \in [Clients -> BOOLEAN]
        /\ queuedOrders \in [Clients -> Batch]
    BY DEF TypeOK
  <2>3. UNCHANGED <<toServer[d], toClient[d]>>
    BY <1>2, <2>2 DEF ClientHandleTick, Receives
  <2>4. ran'[d] = ran[d]
    BY <1>2, <2>2 DEF ClientHandleTick
  <2>5. tickRunning'[d] = tickRunning[d]
    BY <1>2, <2>2 DEF ClientHandleTick
  <2>6. haveQueuedTick'[d] = haveQueuedTick[d]
    BY <1>2, <2>2 DEF ClientHandleTick
  <2>7. queuedOrders'[d] = queuedOrders[d]
    BY <1>2, <2>2 DEF ClientHandleTick
  <2> QED
    BY <2>1, <2>3, <2>4, <2>5, <2>6, <2>7, PeerUntouched
    DEF IndInv, serverVars, history
<1>3. PeerInv(c)'
  <2> DEFINE n == Len(ran[c]) + 1
  <2>1. toClient[c] # <<>> /\ Head(toClient[c]).type = "SERVER_TICK"
    BY DEF ClientHandleTick, Receives
  <2>2. /\ Preamble(c) = 0 /\ Received(c) + 1 \in DOMAIN log
        /\ Head(toClient[c]) = ServerTick(log[Received(c) + 1])
    BY <2>1, FirstMessage
  <2>3. /\ simulating[c] /\ ~haveQueuedTick[c] /\ simulating'[c]
        /\ Received(c) = Len(ran[c]) /\ n \in 1..Len(log)
        /\ Head(toClient[c]).orders = log[n]
    <3>1. simulating[c] /\ ~haveQueuedTick[c] /\ simulating'[c]
      BY DEF ClientHandleTick
    <3>2. Received(c) = Len(ran[c])
      BY <3>1 DEF Received, Waiting, TypeOK
    <3>3. n \in 1..Len(log) /\ Head(toClient[c]).orders = log[n]
      <4>1. log \in Seq(Batch)
        BY DEF TypeOK
      <4>2. n \in 1..Len(log)
        BY <2>2, <3>2, <4>1
      <4> QED
        BY <2>2, <3>2, <4>2 DEF ServerTick
    <3> QED
      BY <3>1, <3>2, <3>3
  <2>4. ASSUME tickRunning[c]
        PROVE  /\ Received(c)' = Received(c) + 1
               /\ InStep(c)'
               /\ tickRunning'[c]
               /\ Running(c)' + Waiting(c)' = Running(c) + Waiting(c) + 1
               /\ Running(c)' + Len(ran[c]) = Running(c) + Len(ran'[c])
               /\ ran'[c] # <<>>
    <3>1. /\ haveQueuedTick'[c] /\ queuedOrders'[c] = log[n]
          /\ tickRunning'[c] /\ ran'[c] = ran[c]
      <4>1. /\ queuedOrders' = [queuedOrders EXCEPT
                                   ![c] = Head(toClient[c]).orders]
            /\ haveQueuedTick' = [haveQueuedTick EXCEPT ![c] = TRUE]
            /\ UNCHANGED <<ran, tickRunning>>
        BY <2>4 DEF ClientHandleTick
      <4>2. haveQueuedTick'[c] /\ tickRunning'[c] /\ ran'[c] = ran[c]
        BY <2>4, <4>1, Zenon DEF TypeOK
      <4>3. queuedOrders'[c] = log[n]
        BY <2>3, <4>1 DEF TypeOK
      <4> QED
        BY <4>2, <4>3
    <3>2. Received(c)' = Received(c) + 1
      BY <2>3, <3>1 DEF Received, Waiting, TypeOK
    <3>3. InStep(c)'
      BY <1>0, <2>3, <3>1 DEF InStep, ClientHandleTick, history, TypeOK
    <3>4. /\ Running(c)' + Waiting(c)' = Running(c) + Waiting(c) + 1
          /\ Running(c)' + Len(ran[c]) = Running(c) + Len(ran'[c])
      BY <2>3, <2>4, <3>1 DEF Running, Waiting
    <3>5. ran'[c] # <<>>
      BY <1>0, <2>4, <3>1 DEF ClientInv
    <3> QED
      BY <3>1, <3>2, <3>3, <3>4, <3>5
  <2>5. ASSUME ~tickRunning[c]
        PROVE  /\ Received(c)' = Received(c) + 1
               /\ InStep(c)'
               /\ tickRunning'[c]
               /\ Running(c)' + Waiting(c)' = Running(c) + Waiting(c) + 1
               /\ Running(c)' + Len(ran[c]) = Running(c) + Len(ran'[c])
               /\ ran'[c] # <<>>
    <3>1. /\ ran'[c] = Append(ran[c], log[n])
          /\ tickRunning'[c] /\ ~haveQueuedTick'[c]
      BY <2>3, <2>5 DEF ClientHandleTick, TypeOK
    <3>2. /\ Len(ran'[c]) = n /\ ran'[c] # <<>> /\ ran'[c][n] = log[n]
          /\ \A t \in 1..Len(ran[c]) : ran'[c][t] = ran[c][t]
      <4>1. ran[c] \in Seq(Batch) /\ log[n] \in Batch
        <5>1. log \in Seq(Batch) /\ n \in 1..Len(log)
          BY <2>3 DEF TypeOK
        <5>2. ran[c] \in Seq(Batch)
          BY DEF TypeOK
        <5> HIDE DEF n
        <5> QED
          BY <5>1, <5>2
      <4> HIDE DEF n
      <4> QED
        BY <3>1, <4>1, Appended DEF n
    <3>3. Received(c)' = Received(c) + 1
      BY <2>3, <3>1, <3>2 DEF Received, Waiting, TypeOK
    <3>4. InStep(c)'
      <4>1. Len(ran[c]) \in Nat
        BY CountsTyped
      <4>2. \A t \in 1..Len(ran[c]) : ran[c][t] = log[t]
        BY <1>0 DEF InStep
      <4>3. \A t \in 1..n : ran'[c][t] = log[t]
        BY <3>2, <4>1, <4>2
      <4> QED
        BY <2>3, <3>1, <3>2, <4>3 DEF InStep, ClientHandleTick, history
    <3>5. /\ Running(c)' + Waiting(c)' = Running(c) + Waiting(c) + 1
          /\ Running(c)' + Len(ran[c]) = Running(c) + Len(ran'[c])
      <4>1. Len(ran[c]) \in Nat
        BY CountsTyped
      <4> QED
        BY <2>3, <2>5, <3>1, <3>2, <4>1 DEF Running, Waiting
    <3> QED
      BY <3>1, <3>2, <3>3, <3>4, <3>5
  <2>6. /\ Received(c)' = Received(c) + 1 /\ InStep(c)' /\ tickRunning'[c]
        /\ Running(c)' + Waiting(c)' = Running(c) + Waiting(c) + 1
        /\ Running(c)' + Len(ran[c]) = Running(c) + Len(ran'[c])
        /\ ran'[c] # <<>>
    BY <2>4, <2>5
  <2>7. Preamble(c)' = 0
    BY <2>3 DEF Preamble
  <2>8. DownInv(c)' /\ Len(toClient'[c]) = Len(toClient[c]) - 1
    BY <1>0, <2>1, <2>2, <2>6, <2>7, DownTail
    DEF ClientHandleTick, Receives, serverVars, history
  <2>9. ClientInv(c)' /\ InWindow(c)' /\ UpInv(c)'
    BY <1>0, <2>1, <2>3, <2>6
    DEF ClientInv, InWindow, UpInv, ClientHandleTick, serverVars
  <2>10. Len(ran'[c]) \in Nat /\ Running(c)' \in {0, 1}
    BY DEF TypeOK, Running
  <2>11. CreditInv(c)'
    <3>1. Running(c) + Waiting(c) + Len(toClient[c]) <= 0 + 2
      BY <1>0, <2>2 DEF CreditInv
    <3>2. Running(c)' + Waiting(c)' + Len(toClient'[c]) <= 0 + 2
      BY <2>6, <2>8, <3>1, CountsTyped
    <3> QED
      BY <2>7, <3>2 DEF CreditInv
  <2>12. CompleteInv(c)'
    <3>1. /\ Received(c) \in Nat /\ Len(toClient[c]) \in Nat
          /\ ticksStarted \in Nat
      BY CountsTyped
    <3>2. gameStarted /\ playerId[c] # 0
      BY <1>0, <2>3 DEF ClientInv
    <3>3. ASSUME link[c] = "open", c \in clients
          PROVE  Received(c)' + Len(toClient'[c]) = ticksStarted + Preamble(c)'
      <4>1. Received(c) + Len(toClient[c]) = ticksStarted + Preamble(c)
        BY <1>0, <3>2, <3>3 DEF CompleteInv
      <4> QED
        BY <2>2, <2>6, <2>7, <2>8, <3>1, <4>1
    <3> QED
      BY <1>0, <3>2, <3>3 DEF CompleteInv, ClientHandleTick, serverVars
  <2>13. AckInv(c)'
    <3>1. UNCHANGED <<link, clients, ticksDone, toServer>>
      BY DEF ClientHandleTick, serverVars
    <3>2. Dones(toServer[c]) \in Nat
      BY DonesType DEF TypeOK
    <3>3. /\ ticksDone[c] \in Nat /\ Len(ran[c]) \in Nat
          /\ Running(c) \in Nat
      BY CountsTyped
    <3>4. ASSUME link[c] = "open", c \in clients
          PROVE  ticksDone[c] + Dones(toServer[c]) + Running(c)' = Len(ran'[c])
      <4>1. ticksDone[c] + Dones(toServer[c]) + Running(c) = Len(ran[c])
        BY <1>0, <3>4 DEF AckInv
      <4> QED
        BY <2>6, <2>10, <3>2, <3>3, <4>1, SMTT(30)
    <3> QED
      BY <3>1, <3>4 DEF AckInv
  <2> QED
    BY <2>6, <2>8, <2>9, <2>11, <2>12, <2>13 DEF PeerInv
<1> QED
  BY <1>1, <1>2, <1>3 DEF IndInv

\* A tick is done: it is reported, and the waiting one runs.
LEMMA ClientFinishTickInv ==
  ASSUME TypeOK, TypeOK', IndInv, NEW c \in Clients, ClientFinishTick(c)
  PROVE  IndInv'
<1>0. /\ LogInv /\ PeerInv(c)
      /\ ClientInv(c) /\ UpInv(c) /\ DownInv(c) /\ CompleteInv(c)
      /\ AckInv(c) /\ CreditInv(c) /\ InStep(c) /\ InWindow(c)
  BY DEF IndInv, PeerInv
<1>1. LogInv'
  BY <1>0
  DEF LogInv, ClientFinishTick, SendToServer, serverVars, enetVars, clientVars,
      history
<1>2. ASSUME NEW d \in Clients, d # c PROVE PeerInv(d)'
  <2>1. UNCHANGED <<serverVars, link, process, playerId, simulating, history>>
    BY DEF ClientFinishTick
  <2>2. /\ toServer \in [Clients -> Seq(ServerEvent)]
        /\ toClient \in [Clients -> Seq(ClientMessage)]
        /\ ran \in [Clients -> Seq(Batch)]
        /\ tickRunning \in [Clients -> BOOLEAN]
        /\ haveQueuedTick \in [Clients -> BOOLEAN]
        /\ queuedOrders \in [Clients -> Batch]
    BY DEF TypeOK
  <2>3. UNCHANGED <<toServer[d], toClient[d]>>
    BY <1>2, <2>2 DEF ClientFinishTick, SendToServer
  <2>4. ran'[d] = ran[d]
    BY <1>2, <2>2 DEF ClientFinishTick
  <2>5. tickRunning'[d] = tickRunning[d]
    BY <1>2, <2>2 DEF ClientFinishTick
  <2>6. haveQueuedTick'[d] = haveQueuedTick[d]
    BY <1>2, <2>2 DEF ClientFinishTick
  <2>7. queuedOrders'[d] = queuedOrders[d]
    BY <1>2, <2>2 DEF ClientFinishTick
  <2> QED
    BY <2>1, <2>3, <2>4, <2>5, <2>6, <2>7, PeerUntouched
    DEF IndInv, serverVars, history
<1>3. PeerInv(c)'
  <2>1. /\ tickRunning[c] /\ simulating[c] /\ gameStarted /\ ran[c] # <<>>
        /\ UNCHANGED <<serverVars, link, toClient, process, playerId, simulating,
                       history>>
    BY <1>0 DEF ClientInv, ClientFinishTick
  <2>2. ASSUME haveQueuedTick[c]
        PROVE  /\ Received(c)' = Received(c) /\ InStep(c)'
               /\ ~haveQueuedTick'[c] /\ ran'[c] # <<>>
               /\ Len(ran'[c]) = Len(ran[c]) + Running(c)'
    <3>1. /\ ran'[c] = Append(ran[c], queuedOrders[c])
          /\ tickRunning'[c] /\ ~haveQueuedTick'[c]
      BY <2>1, <2>2 DEF ClientFinishTick, TypeOK
    <3>2. /\ Len(ran'[c]) = Len(ran[c]) + 1 /\ ran'[c] # <<>>
          /\ ran'[c][Len(ran[c]) + 1] = queuedOrders[c]
          /\ \A t \in 1..Len(ran[c]) : ran'[c][t] = ran[c][t]
      <4>1. ran[c] \in Seq(Batch) /\ queuedOrders[c] \in Batch
        BY DEF TypeOK
      <4> QED
        BY <3>1, <4>1, Appended
    <3>3. Received(c)' = Received(c)
      BY <2>2, <3>1, <3>2, CountsTyped DEF Received, Waiting
    <3>4. InStep(c)'
      <4>1. Len(ran[c]) \in Nat /\ Len(log) \in Nat
        BY CountsTyped
      <4>2. /\ \A t \in 1..Len(ran[c]) : ran[c][t] = log[t]
            /\ Len(ran[c]) < Len(log)
            /\ queuedOrders[c] = log[Len(ran[c]) + 1]
        BY <1>0, <2>2 DEF InStep
      <4>3. \A t \in 1..(Len(ran[c]) + 1) : ran'[c][t] = log[t]
        BY <3>2, <4>1, <4>2
      <4>4. Len(ran'[c]) <= Len(log)
        BY <3>2, <4>1, <4>2
      <4> QED
        BY <2>1, <3>1, <3>2, <4>3, <4>4 DEF InStep, history
    <3>5. Len(ran'[c]) = Len(ran[c]) + Running(c)'
      BY <3>1, <3>2 DEF Running
    <3> QED
      BY <3>1, <3>2, <3>3, <3>4, <3>5
  <2>3. ASSUME ~haveQueuedTick[c]
        PROVE  /\ Received(c)' = Received(c) /\ InStep(c)'
               /\ ~haveQueuedTick'[c] /\ ran'[c] # <<>>
               /\ Len(ran'[c]) = Len(ran[c]) + Running(c)'
    <3>1. ran' = ran /\ ~tickRunning'[c] /\ ~haveQueuedTick'[c]
      BY <2>1, <2>3 DEF ClientFinishTick, TypeOK
    <3>2. Received(c)' = Received(c)
      BY <2>3, <3>1 DEF Received, Waiting
    <3>3. InStep(c)'
      BY <1>0, <2>1, <3>1 DEF InStep, history
    <3>4. Len(ran'[c]) = Len(ran[c]) + Running(c)'
      BY <3>1, CountsTyped DEF Running
    <3> QED
      BY <2>1, <3>1, <3>2, <3>3, <3>4
  <2>4. /\ Received(c)' = Received(c) /\ InStep(c)'
        /\ ~haveQueuedTick'[c] /\ ran'[c] # <<>>
        /\ Len(ran'[c]) = Len(ran[c]) + Running(c)'
    BY <2>1, <2>2, <2>3
  <2>5. Preamble(c)' = Preamble(c)
    BY <2>1 DEF Preamble
  <2>6. DownInv(c)' /\ CompleteInv(c)'
    BY <1>0, <2>1, <2>4, <2>5
    DEF DownInv, TickAt, CompleteInv, serverVars, history
  <2>7. ClientInv(c)' /\ InWindow(c)'
    BY <1>0, <2>1, <2>4 DEF ClientInv, InWindow, serverVars
  <2>8. Len(ran'[c]) \in Nat /\ Running(c)' \in {0, 1}
    BY DEF TypeOK, Running
  <2>9. CreditInv(c)'
    <3>1. Running(c) + Waiting(c) + Len(toClient[c]) <= Preamble(c) + 2
      BY <1>0 DEF CreditInv
    <3>2. Running(c)' + Waiting(c)' + 1 = Running(c) + Waiting(c)
      <4>1. IF haveQueuedTick[c]
              THEN tickRunning'[c] /\ ~haveQueuedTick'[c]
              ELSE ~tickRunning'[c] /\ ~haveQueuedTick'[c]
        BY <2>1 DEF ClientFinishTick, TypeOK
      <4> QED
        BY <2>1, <4>1 DEF Running, Waiting
    <3>3. Running(c)' \in Nat /\ Waiting(c)' \in Nat
      BY DEF Running, Waiting
    <3>4. /\ Running(c) \in Nat /\ Waiting(c) \in Nat
          /\ Preamble(c) \in Nat /\ Len(toClient[c]) \in Nat
      BY CountsTyped
    <3>5. Running(c)' + Waiting(c)' + Len(toClient[c]) <= Preamble(c) + 2
      BY <3>1, <3>2, <3>3, <3>4, SMTT(30)
    <3> QED
      BY <2>1, <2>5, <3>5 DEF CreditInv
  <2>10. ASSUME link[c] = "open" PROVE AckInv(c)' /\ UpInv(c)'
    <3>1. toServer'[c] = Append(toServer[c], ClientTickDone)
      BY <2>10 DEF ClientFinishTick, SendToServer, TypeOK
    <3>2. c \in clients
      BY <1>0, <2>1, <2>10 DEF UpInv
    <3>3. Dones(toServer'[c]) = Dones(toServer[c]) + 1
      BY <3>1, EventsTyped, DonesAppend DEF ClientTickDone, TypeOK
    <3>4. Dones(toServer[c]) \in Nat
      BY DonesType DEF TypeOK
    <3>5. AckInv(c)'
      <4>1. ticksDone[c] + Dones(toServer[c]) + Running(c) = Len(ran[c])
        BY <1>0, <2>10, <3>2 DEF AckInv
      <4>2. /\ ticksDone[c] \in Nat /\ Len(ran[c]) \in Nat
            /\ Running(c) \in Nat
        BY CountsTyped
      <4>3. ticksDone[c] + Dones(toServer'[c]) + Running(c)' = Len(ran'[c])
        <5>1. Running(c) = 1
          BY <2>1 DEF Running
        <5>2. ticksDone[c] + (Dones(toServer[c]) + 1) = Len(ran[c])
          BY <3>4, <4>1, <4>2, <5>1
        <5> QED
          BY <2>4, <3>3, <5>2
      <4> QED
        BY <2>1, <4>3 DEF AckInv, serverVars
    <3>6. \A i \in DOMAIN toServer'[c] :
            toServer'[c][i].type \in {"CLIENT_ORDER", "CLIENT_TICK_DONE"}
      <4>1. \A i \in DOMAIN toServer[c] :
              toServer[c][i].type \in {"CLIENT_ORDER", "CLIENT_TICK_DONE"}
        BY <1>0, <2>1, <2>10, <3>2 DEF UpInv
      <4>2. toServer[c] \in Seq(ServerEvent) /\ ClientTickDone \in ServerEvent
        BY EventsTyped DEF TypeOK
      <4> QED
        BY <3>1, <4>1, <4>2, Appended DEF ClientTickDone
    <3>7. UpInv(c)'
      BY <1>0, <2>1, <2>10, <3>2, <3>6 DEF UpInv, serverVars
    <3> QED
      BY <3>5, <3>7
  <2>11. ASSUME link[c] # "open" PROVE AckInv(c)' /\ UpInv(c)'
    <3>1. toServer' = toServer
      BY <2>11 DEF ClientFinishTick, SendToServer
    <3> QED
      BY <1>0, <2>1, <2>11, <3>1 DEF AckInv, Running, UpInv, serverVars
  <2> QED
    BY <2>4, <2>6, <2>7, <2>9, <2>10, <2>11 DEF PeerInv
<1> QED
  BY <1>1, <1>2, <1>3 DEF IndInv

\* An order joins the queue to the server and is not counted as a done tick.
LEMMA ClientIssuesOrderInv ==
  ASSUME TypeOK, TypeOK', IndInv, NEW c \in Clients, ClientIssuesOrder(c)
  PROVE  IndInv'
<1>0. /\ LogInv /\ PeerInv(c)
      /\ ClientInv(c) /\ UpInv(c) /\ DownInv(c) /\ CompleteInv(c)
      /\ AckInv(c) /\ CreditInv(c) /\ InStep(c) /\ InWindow(c)
  BY DEF IndInv, PeerInv
<1>1. LogInv'
  BY <1>0
  DEF LogInv, ClientIssuesOrder, SendToServer, serverVars, enetVars,
      clientVars, history
<1>2. ASSUME NEW d \in Clients, d # c PROVE PeerInv(d)'
  BY <1>2, PeerUntouched
  DEF TypeOK, IndInv, ClientIssuesOrder, SendToServer, serverVars, enetVars,
      clientVars, history
<1>3. PeerInv(c)'
  <2> DEFINE o == [player |-> playerId[c], n |-> issued[c] + 1,
                   at |-> Len(ran[c])]
  <2>1. /\ simulating[c] /\ gameStarted
        /\ UNCHANGED <<serverVars, link, toClient, clientVars, log>>
    BY <1>0 DEF ClientInv, ClientIssuesOrder
  <2>2. Received(c)' = Received(c) /\ Preamble(c)' = Preamble(c)
    BY <2>1 DEF Received, Waiting, Preamble, Running, clientVars
  <2>3. ClientInv(c)' /\ InStep(c)' /\ InWindow(c)' /\ DownInv(c)'
    BY <1>0, <2>1, <2>2
    DEF ClientInv, InStep, InWindow, DownInv, TickAt, serverVars, clientVars
  <2>4. CompleteInv(c)' /\ CreditInv(c)'
    BY <1>0, <2>1, <2>2
    DEF CompleteInv, CreditInv, Running, Waiting, serverVars, clientVars
  <2>5. ASSUME link[c] = "open" PROVE AckInv(c)' /\ UpInv(c)'
    <3>1. toServer'[c] = Append(toServer[c], ClientOrder(o))
      BY <2>5 DEF ClientIssuesOrder, SendToServer, TypeOK
    <3>2. c \in clients
      BY <1>0, <2>1, <2>5 DEF UpInv
    <3>3. ClientOrder(o) \in ServerEvent
      <4>1. playerId[c] \in Nat /\ issued[c] + 1 \in Nat /\ Len(ran[c]) \in Nat
        <5>1. playerId[c] \in Nat /\ issued[c] \in Nat
          BY DEF TypeOK
        <5> QED
          BY <5>1, CountsTyped
      <4>2. o \in Order
        BY <4>1 DEF Order
      <4> QED
        BY <4>2, EventsTyped
    <3>4. Dones(toServer'[c]) = Dones(toServer[c])
      <4>1. ClientOrder(o).type # "CLIENT_TICK_DONE"
        BY DEF ClientOrder
      <4>2. toServer[c] \in Seq(ServerEvent)
        BY DEF TypeOK
      <4>3. Dones(toServer[c]) \in Nat
        BY <4>2, DonesType
      <4> HIDE DEF o
      <4>4. Dones(Append(toServer[c], ClientOrder(o))) = Dones(toServer[c]) + 0
        BY <3>3, <4>1, <4>2, DonesAppend
      <4> QED
        BY <3>1, <4>3, <4>4
    <3>5. AckInv(c)'
      BY <1>0, <2>1, <3>4 DEF AckInv, Running, serverVars, clientVars
    <3>6. \A i \in DOMAIN toServer'[c] :
            toServer'[c][i].type \in {"CLIENT_ORDER", "CLIENT_TICK_DONE"}
      <4>1. /\ toServer[c] \in Seq(ServerEvent)
            /\ ClientOrder(o).type = "CLIENT_ORDER"
        BY DEF TypeOK, ClientOrder
      <4>2. \A i \in DOMAIN toServer[c] :
              toServer[c][i].type \in {"CLIENT_ORDER", "CLIENT_TICK_DONE"}
        BY <1>0, <2>1, <2>5, <3>2 DEF UpInv
      <4> HIDE DEF o
      <4> QED
        BY <3>1, <3>3, <4>1, <4>2
    <3>7. UpInv(c)'
      BY <1>0, <2>1, <2>5, <3>2, <3>6 DEF UpInv, serverVars, clientVars
    <3> QED
      BY <3>5, <3>7
  <2>6. ASSUME link[c] # "open" PROVE AckInv(c)' /\ UpInv(c)'
    <3>1. toServer' = toServer
      BY <2>6 DEF ClientIssuesOrder, SendToServer
    <3> QED
      BY <1>0, <2>1, <2>6, <3>1
      DEF AckInv, Running, UpInv, serverVars, clientVars
  <2> QED
    BY <2>3, <2>4, <2>5, <2>6 DEF PeerInv
<1> QED
  BY <1>1, <1>2, <1>3 DEF IndInv

\* The server forgets a client, which keeps what it has received.
LEMMA ServerHandleDisconnectInv ==
  ASSUME TypeOK, TypeOK', IndInv, NEW c \in Clients, ServerHandleDisconnect(c)
  PROVE  IndInv'
<1>0. /\ LogInv /\ PeerInv(c)
      /\ ClientInv(c) /\ UpInv(c) /\ DownInv(c) /\ CompleteInv(c)
      /\ AckInv(c) /\ CreditInv(c) /\ InStep(c) /\ InWindow(c)
  BY DEF IndInv, PeerInv
<1>1. LogInv'
  BY <1>0
  DEF LogInv, ServerHandleDisconnect, ClosePeers, serverVars, enetVars,
      clientVars, history
<1>2. ASSUME NEW d \in Clients, d # c PROVE PeerInv(d)'
  BY <1>2, PeerUntouched
  DEF TypeOK, IndInv, ServerHandleDisconnect, ClosePeers, serverVars, enetVars,
      clientVars, history
<1>3. PeerInv(c)'
  <2>1. ClientInv(c)' /\ InStep(c)' /\ InWindow(c)'
    BY <1>0
    DEF TypeOK, ClientInv, InStep, InWindow, ServerHandleDisconnect,
        ClosePeers, serverVars, enetVars, clientVars, history
  <2>2. UpInv(c)'
    BY <1>0
    DEF TypeOK, UpInv, ServerHandleDisconnect, ClosePeers, serverVars,
        enetVars, clientVars, history
  <2>3. Received(c)' = Received(c) /\ Preamble(c)' = Preamble(c)
    BY <1>0
    DEF TypeOK, Received, Waiting, Preamble, ServerHandleDisconnect,
        ClosePeers, serverVars, enetVars, clientVars, history
  <2>4. DownInv(c)' /\ CompleteInv(c)' /\ CreditInv(c)'
    BY <1>0, <2>3
    DEF TypeOK, DownInv, TickAt, CompleteInv, CreditInv, Running, Waiting,
        ServerHandleDisconnect, ClosePeers, serverVars, enetVars, clientVars,
        history
  <2>5. AckInv(c)'
    BY <1>0
    DEF TypeOK, AckInv, Running, ServerHandleDisconnect, ClosePeers,
        serverVars, enetVars, clientVars, history
  <2> QED
    BY <2>1, <2>2, <2>4, <2>5 DEF PeerInv
<1> QED
  BY <1>1, <1>2, <1>3 DEF IndInv

\* A connection that the server never took on ends.
LEMMA HandshakeFailsInv ==
  ASSUME TypeOK, TypeOK', IndInv, NEW c \in Clients, HandshakeFails(c)
  PROVE  IndInv'
<1>0. /\ LogInv /\ PeerInv(c)
      /\ ClientInv(c) /\ UpInv(c) /\ DownInv(c) /\ CompleteInv(c)
      /\ AckInv(c) /\ CreditInv(c) /\ InStep(c) /\ InWindow(c)
  BY DEF IndInv, PeerInv
<1>1. LogInv'
  BY <1>0
  DEF LogInv, HandshakeFails, ClosePeers, serverVars, enetVars, clientVars,
      history
<1>2. ASSUME NEW d \in Clients, d # c PROVE PeerInv(d)'
  BY <1>2, PeerUntouched
  DEF TypeOK, IndInv, HandshakeFails, ClosePeers, serverVars, enetVars,
      clientVars, history
<1>3. PeerInv(c)'
  <2>1. ClientInv(c)' /\ InStep(c)' /\ InWindow(c)'
    BY <1>0
    DEF TypeOK, ClientInv, InStep, InWindow, HandshakeFails, ClosePeers,
        serverVars, enetVars, clientVars, history
  <2>2. UpInv(c)'
    BY <1>0
    DEF TypeOK, UpInv, HandshakeFails, ClosePeers, serverVars, enetVars,
        clientVars, history
  <2>3. Received(c)' = Received(c) /\ Preamble(c)' = Preamble(c)
    BY <1>0
    DEF TypeOK, Received, Waiting, Preamble, HandshakeFails, ClosePeers,
        serverVars, enetVars, clientVars, history
  <2>4. DownInv(c)' /\ CompleteInv(c)' /\ CreditInv(c)'
    BY <1>0, <2>3
    DEF TypeOK, DownInv, TickAt, CompleteInv, CreditInv, Running, Waiting,
        HandshakeFails, ClosePeers, serverVars, enetVars, clientVars, history
  <2>5. AckInv(c)'
    BY <1>0
    DEF TypeOK, AckInv, Running, HandshakeFails, ClosePeers, serverVars,
        enetVars, clientVars, history
  <2> QED
    BY <2>1, <2>2, <2>4, <2>5 DEF PeerInv
<1> QED
  BY <1>1, <1>2, <1>3 DEF IndInv

\* The channel to a client is cut: what it has received is still in order.
LEMMA ConnectionLostInv ==
  ASSUME TypeOK, TypeOK', IndInv, NEW c \in Clients, ConnectionLost(c)
  PROVE  IndInv'
<1>0. /\ LogInv /\ PeerInv(c)
      /\ ClientInv(c) /\ UpInv(c) /\ DownInv(c) /\ CompleteInv(c)
      /\ AckInv(c) /\ CreditInv(c) /\ InStep(c) /\ InWindow(c)
  BY DEF IndInv, PeerInv
<1>1. LogInv'
  BY <1>0 DEF LogInv, ConnectionLost, serverVars, enetVars, clientVars, history
<1>2. ASSUME NEW d \in Clients, d # c PROVE PeerInv(d)'
  BY <1>2, PeerUntouched
  DEF TypeOK, IndInv, ConnectionLost, serverVars, enetVars, clientVars, history
<1>3. PeerInv(c)'
  <2>1. /\ link[c] = "closed" /\ toClient'[c] = <<>>
        /\ UNCHANGED <<serverVars, link, toServer, clientVars, history>>
    BY DEF ConnectionLost, TypeOK
  <2>2. ClientInv(c)' /\ InStep(c)' /\ InWindow(c)' /\ AckInv(c)' /\ UpInv(c)'
    BY <1>0, <2>1
    DEF ClientInv, InStep, InWindow, AckInv, Running, UpInv, serverVars,
        clientVars,
        history
  <2>3. DownInv(c)' /\ CompleteInv(c)'
    BY <2>1 DEF DownInv, CompleteInv
  <2>4. Received(c)' = Received(c) /\ Preamble(c)' = Preamble(c)
    BY <2>1 DEF Received, Waiting, Preamble, Running, clientVars
  <2>5. CreditInv(c)'
    <3>1. Len(toClient'[c]) = 0
      BY <2>1
    <3>2. Running(c)' \in {0, 1} /\ Waiting(c)' \in {0, 1}
      BY DEF Running, Waiting
    <3>3. Preamble(c)' \in Nat
      BY DEF Preamble
    <3> QED
      BY <3>1, <3>2, <3>3 DEF CreditInv
  <2> QED
    BY <2>2, <2>3, <2>5 DEF PeerInv
<1> QED
  BY <1>1, <1>2, <1>3 DEF IndInv

\* The server's process ends and with it every connection.
LEMMA AllClosedInv ==
  ASSUME TypeOK, IndInv, server' # "running", ClosePeers(OpenPeers),
         UNCHANGED <<quit, gameStarted, players, playerCounter, clients, id,
                     named, ticksDone, ticksStarted, nextOrders, toClient,
                     clientVars, history>>
  PROVE  IndInv'
<1>1. LogInv'
  BY DEF IndInv, LogInv, history
<1>2. ASSUME NEW c \in Clients PROVE PeerInv(c)'
  <2>0. /\ ClientInv(c) /\ UpInv(c) /\ DownInv(c) /\ CompleteInv(c)
        /\ CreditInv(c) /\ InStep(c) /\ InWindow(c)
    BY DEF IndInv, PeerInv
  <2>1. /\ link'[c] # "open" /\ toServer'[c] = <<>>
        /\ link'[c] = "none" <=> link[c] = "none"
    BY <2>0 DEF ClosePeers, OpenPeers, UpInv, TypeOK
  <2>2. ClientInv(c)' /\ InStep(c)' /\ InWindow(c)'
    BY <2>0 DEF ClientInv, InStep, InWindow, clientVars, history
  <2>3. UpInv(c)'
    BY <2>0, <2>1 DEF UpInv, clientVars
  <2>4. /\ Received(c)' = Received(c) /\ Preamble(c)' = Preamble(c)
        /\ Running(c)' = Running(c) /\ Waiting(c)' = Waiting(c)
    BY DEF Received, Preamble, Running, Waiting, clientVars
  <2>5. DownInv(c)' /\ CreditInv(c)'
    BY <2>0, <2>4 DEF DownInv, TickAt, CreditInv, history
  <2>6. CompleteInv(c)' /\ AckInv(c)'
    BY <2>1 DEF CompleteInv, AckInv
  <2> QED
    BY <2>2, <2>3, <2>5, <2>6 DEF PeerInv
<1> QED
  BY <1>1, <1>2 DEF IndInv

\* A failed assert ends the process.
LEMMA ServerAbortInv == TypeOK /\ IndInv /\ ServerAbort => IndInv'
BY AllClosedInv DEF ServerAbort

\* So does the end of the outer loop.
LEMMA ServerExitInv == TypeOK /\ IndInv /\ ServerExit => IndInv'
BY AllClosedInv DEF ServerExit

\* A broadcast reaches the clients of the server and nobody else.
LEMMA BroadcastTo ==
  ASSUME TypeOK, NEW ms \in Seq(ClientMessage), Broadcast(ms),
         NEW c \in Clients
  PROVE  /\ c \notin clients => toClient'[c] = toClient[c]
         /\ c \in clients =>
              /\ Len(toClient'[c]) = Len(toClient[c]) + Len(ms)
              /\ DOMAIN toClient'[c] = 1..(Len(toClient[c]) + Len(ms))
              /\ \A i \in 1..Len(toClient[c]) :
                   toClient'[c][i] = toClient[c][i]
              /\ \A k \in 1..Len(ms) :
                   toClient'[c][Len(toClient[c]) + k] = ms[k]
<1>1. toClient'[c] = IF c \in clients THEN toClient[c] \o ms ELSE toClient[c]
  BY DEF Broadcast
<1>2. toClient[c] \in Seq(ClientMessage)
  BY DEF TypeOK
<1> QED
  BY <1>1, <1>2

\* A tick more in the log: one that is not a client of the server keeps what
\* it has received and will receive.
LEMMA LongerLog ==
  ASSUME TypeOK, TypeOK', NEW c \in Clients, NEW ms \in Seq(Batch),
         log' = log \o ms
  PROVE  /\ Len(log') = Len(log) + Len(ms)
         /\ \A t \in 1..Len(log) : t \in DOMAIN log' /\ log'[t] = log[t]
         /\ \A k \in 1..Len(ms) : log'[Len(log) + k] = ms[k]
         /\ InStep(c) /\ UNCHANGED clientVars => InStep(c)'
<1>1. log \in Seq(Batch)
  BY DEF TypeOK
<1>2. /\ Len(log') = Len(log) + Len(ms)
      /\ \A t \in 1..Len(log) : t \in DOMAIN log' /\ log'[t] = log[t]
      /\ \A k \in 1..Len(ms) : log'[Len(log) + k] = ms[k]
  BY <1>1
<1>3. ASSUME InStep(c), UNCHANGED clientVars PROVE InStep(c)'
  <2>1. Len(ran[c]) \in Nat /\ Len(log) \in Nat /\ Len(ms) \in Nat
    BY CountsTyped
  <2>2. Len(log) <= Len(log')
    BY <1>2, <2>1
  <2>3. \A t \in 1..Len(ran[c]) : ran[c][t] = log'[t]
    BY <1>2, <1>3, <2>1 DEF InStep
  <2>4. Len(ran[c]) <= Len(log')
    BY <1>2, <1>3, <2>1 DEF InStep
  <2>5. haveQueuedTick[c] => /\ Len(ran[c]) < Len(log')
                             /\ queuedOrders[c] = log'[Len(ran[c]) + 1]
    BY <1>2, <1>3, <2>1 DEF InStep
  <2> QED
    BY <1>3, <2>3, <2>4, <2>5 DEF InStep, clientVars
<1> QED
  BY <1>2, <1>3

\* A tick is broadcast: every client has at most one tick running, waiting or
\* on its way besides it, because it has reported all the others.
LEMMA ServerStartTickInv ==
  ASSUME TypeOK, TypeOK', IndInv, ServerStartTick
  PROVE  IndInv'
<1> DEFINE m == ServerTick(nextOrders)
<1>1. /\ server = "running" /\ gameStarted /\ PrevTickDone
      /\ Broadcast(<<m>>) /\ log' = log \o <<nextOrders>>
      /\ ticksStarted' = ticksStarted + 1 /\ nextOrders' = <<>>
      /\ UNCHANGED <<server, gameStarted, players, clients, id, named,
                     ticksDone, link, toServer, clientVars>>
  <2>1. Append(log, nextOrders) = log \o <<nextOrders>>
    BY DEF TypeOK
  <2> QED
    BY <2>1 DEF ServerStartTick
<1>2. /\ <<m>> \in Seq(ClientMessage) /\ Len(<<m>>) = 1 /\ <<m>>[1] = m
      /\ <<nextOrders>> \in Seq(Batch) /\ Len(<<nextOrders>>) = 1
      /\ <<nextOrders>>[1] = nextOrders
  BY MessagesTyped DEF TypeOK
<1>3. Len(log) = ticksStarted /\ ticksStarted >= 2
  BY <1>1 DEF IndInv, LogInv
<1> HIDE DEF m
<1>4. LogInv'
  <2>1. CASE Clients = {}
    BY <1>1, <1>2, <1>3 DEF LogInv, TypeOK
  <2>2. CASE Clients # {}
    BY <1>1, <1>2, <1>3, <2>2, LongerLog DEF LogInv, TypeOK
  <2> QED
    BY <2>1, <2>2
<1>5. ASSUME NEW c \in Clients PROVE PeerInv(c)'
  <2>0. /\ ClientInv(c) /\ UpInv(c) /\ DownInv(c) /\ CompleteInv(c)
        /\ AckInv(c) /\ CreditInv(c) /\ InStep(c) /\ InWindow(c)
    BY DEF IndInv, PeerInv
  <2>1. /\ Len(log') = ticksStarted + 1
        /\ \A t \in 1..Len(log) : t \in DOMAIN log' /\ log'[t] = log[t]
        /\ log'[ticksStarted + 1] = nextOrders
        /\ InStep(c)'
    <3> DEFINE ms == <<nextOrders>>
    <3>1. /\ ms \in Seq(Batch)
          /\ log' = log \o ms
          /\ Len(ms) = 1
          /\ ms[1] = nextOrders
      BY <1>1, <1>2
    <3> HIDE DEF ms
    <3>2. /\ Len(log') = Len(log) + Len(ms)
          /\ \A t \in 1..Len(log) : t \in DOMAIN log' /\ log'[t] = log[t]
          /\ \A k \in 1..Len(ms) : log'[Len(log) + k] = ms[k]
          /\ InStep(c)'
      BY <1>1, <2>0, <3>1, LongerLog
    <3> QED
      BY <1>3, <3>1, <3>2
  <2>2. /\ Received(c)' = Received(c) /\ Preamble(c)' = Preamble(c)
        /\ Running(c)' = Running(c) /\ Waiting(c)' = Waiting(c)
        /\ \A i : TickAt(c, i)' = TickAt(c, i)
    BY <1>1 DEF Received, Preamble, Running, Waiting, TickAt, clientVars
  <2>3. ClientInv(c)' /\ AckInv(c)'
    BY <1>1, <2>0, <2>2 DEF ClientInv, AckInv, clientVars
  <2>4. ASSUME c \notin clients PROVE PeerInv(c)'
    <3>1. toClient'[c] = toClient[c]
      BY <1>1, <1>2, <2>4, BroadcastTo
    <3>2. DownInv(c)'
      BY <1>1, <2>0, <2>1, <2>2, <3>1 DEF DownInv
    <3>3. UpInv(c)' /\ CreditInv(c)' /\ CompleteInv(c)' /\ InWindow(c)'
      BY <1>1, <2>0, <2>2, <2>4, <3>1
      DEF UpInv, CreditInv, CompleteInv, InWindow, clientVars
    <3> QED
      BY <2>1, <2>3, <3>2, <3>3 DEF PeerInv
  <2>5. ASSUME c \in clients PROVE PeerInv(c)'
    <3> DEFINE len == Len(toClient[c])
    <3>1. link[c] = "open" /\ UpInv(c)'
      BY <1>1, <2>0, <2>5 DEF UpInv, clientVars
    <3>2. /\ Len(toClient'[c]) = len + 1
          /\ DOMAIN toClient'[c] = 1..(len + 1)
          /\ \A i \in 1..len : toClient'[c][i] = toClient[c][i]
          /\ toClient'[c][len + 1] = m
      <4> DEFINE ms == <<m>>
      <4>1. /\ ms \in Seq(ClientMessage) /\ Broadcast(ms)
            /\ Len(ms) = 1 /\ ms[1] = m
        BY <1>1, <1>2
      <4> HIDE DEF ms
      <4>2. /\ Len(toClient'[c]) = Len(toClient[c]) + Len(ms)
            /\ DOMAIN toClient'[c] = 1..(Len(toClient[c]) + Len(ms))
            /\ \A i \in 1..Len(toClient[c]) :
                 toClient'[c][i] = toClient[c][i]
            /\ \A k \in 1..Len(ms) :
                 toClient'[c][Len(toClient[c]) + k] = ms[k]
        BY <2>5, <4>1, BroadcastTo
      <4> QED
        BY <4>1, <4>2
    <3>3. Received(c) + len = ticksStarted + Preamble(c)
      BY <1>1, <2>0, <2>5, <3>1 DEF CompleteInv
    <3>4. /\ len \in Nat /\ Received(c) \in Nat /\ Preamble(c) \in Nat
          /\ Running(c) \in Nat /\ Waiting(c) \in Nat /\ ticksStarted \in Nat
          /\ Len(ran[c]) \in Nat /\ ticksDone[c] \in Nat
      BY CountsTyped
    <3>5. Received(c) <= ticksStarted
      <4>1. Received(c) = Len(ran[c]) + Waiting(c)
        BY DEF Received
      <4>2. CASE haveQueuedTick[c]
        BY <1>3, <2>0, <3>4, <4>1, <4>2 DEF InStep, Waiting
      <4>3. CASE ~haveQueuedTick[c]
        BY <1>3, <2>0, <3>4, <4>1, <4>3 DEF InStep, Waiting
      <4> QED
        BY <4>2, <4>3
    <3>6. len + 1 > Preamble(c) /\ TickAt(c, len + 1) = ticksStarted + 1
      BY <3>3, <3>4, <3>5, SMTT(30) DEF TickAt
    <3> HIDE DEF len
    <3>7. DownInv(c)'
      <4> SUFFICES ASSUME NEW i \in 1..(len + 1)
                   PROVE  /\ i > Preamble(c) =>
                               /\ TickAt(c, i) \in DOMAIN log'
                               /\ toClient'[c][i] = ServerTick(log'[TickAt(c, i)])
                          /\ i = Preamble(c) =>
                               /\ gameStarted /\ id[c] \in players
                               /\ toClient'[c][i] = ServerStart
                          /\ i < Preamble(c) =>
                               /\ id[c] # 0
                               /\ toClient'[c][i] = ServerConnect(id[c])
        BY <1>1, <2>2, <3>2 DEF DownInv
      <4>1. CASE i \in 1..len
        <5>1. i \in DOMAIN toClient[c] /\ toClient'[c][i] = toClient[c][i]
          <6>1. toClient[c] \in Seq(ClientMessage)
            BY DEF TypeOK
          <6>2. i \in DOMAIN toClient[c]
            BY <4>1, <6>1 DEF len
          <6> QED
            BY <3>2, <4>1, <6>2
        <5> QED
          BY <2>0, <2>1, <5>1 DEF DownInv
      <4>2. CASE i = len + 1
        <5>1. ticksStarted + 1 \in DOMAIN log'
          BY <2>1, <3>4 DEF TypeOK
        <5>2. ~(i <= Preamble(c))
          BY <3>4, <3>6, <4>2
        <5>3. toClient'[c][i] = ServerTick(log'[TickAt(c, i)])
          BY <2>1, <3>2, <3>6, <4>2 DEF m
        <5> QED
          BY <3>4, <3>6, <4>2, <5>1, <5>2, <5>3
      <4> QED
        BY <3>4, <4>1, <4>2
    <3>8. CompleteInv(c)'
      <4>1. Received(c) + (len + 1) = (ticksStarted + 1) + Preamble(c)
        BY <3>3, <3>4, SMTT(30)
      <4> QED
        BY <1>1, <2>0, <2>2, <2>5, <3>1, <3>2, <4>1
        DEF CompleteInv, clientVars
    <3>9. CreditInv(c)'
      <4>1. ticksDone[c] + Dones(toServer[c]) + Running(c) = Len(ran[c])
        BY <2>0, <2>5, <3>1 DEF AckInv
      <4>2. Dones(toServer[c]) \in Nat
        BY DonesType DEF TypeOK
      <4>3. ticksDone[c] >= ticksStarted - 1
        BY <1>1, <2>5 DEF PrevTickDone
      <4>4. ticksStarted + Running(c) <= Len(ran[c]) + 1
        BY <3>4, <4>1, <4>2, <4>3, SMTT(30)
      <4>5. Len(ran[c]) + Waiting(c) + len = ticksStarted + Preamble(c)
        BY <3>3 DEF Received
      <4>6. Running(c) + Waiting(c) + len <= Preamble(c) + 1
        BY <3>4, <4>4, <4>5, SMTT(30)
      <4>7. Running(c) + Waiting(c) + (len + 1) <= Preamble(c) + 2
        BY <3>4, <4>6
      <4> QED
        BY <2>2, <3>2, <4>7 DEF CreditInv
    <3>10. InWindow(c)'
      <4>1. ticksDone[c] >= ticksStarted - 1 /\ ticksDone[c] <= ticksStarted
        BY <1>1, <2>0, <2>5 DEF PrevTickDone, InWindow
      <4>2. /\ ticksDone[c] <= ticksStarted + 1
            /\ ticksStarted + 1 <= ticksDone[c] + 2
        BY <3>4, <4>1
      <4> QED
        BY <1>1, <4>2 DEF InWindow
    <3> QED
      BY <2>1, <2>3, <3>1, <3>7, <3>8, <3>9, <3>10 DEF PeerInv
  <2> QED
    BY <2>4, <2>5
<1> QED
  BY <1>4, <1>5 DEF IndInv

\* The game starts: SERVER_START and the first two ticks follow what is in
\* the channels, which is at most the client's SERVER_CONNECT.
LEMMA ServerStartGameInv ==
  ASSUME TypeOK, TypeOK', IndInv, ServerStartGame
  PROVE  IndInv'
<1> DEFINE ms == OpeningMessages
<1>1. /\ server = "running" /\ ~gameStarted /\ gameStarted'
      /\ \A c \in clients : named[c]
      /\ players' = {id[c] : c \in clients}
      /\ Broadcast(ms) /\ log' = log \o OpeningBatches
      /\ ticksStarted' = ticksStarted + 2 /\ nextOrders' = <<>>
      /\ UNCHANGED <<server, clients, id, named, ticksDone, link, toServer,
                     clientVars>>
  BY DEF ServerStartGame, PlayersOf
<1>2. /\ ms \in Seq(ClientMessage) /\ Len(ms) = 3 /\ ms[1] = ServerStart
      /\ ms[2] = ServerTick(nextOrders) /\ ms[3] = ServerTick(<<>>)
  <2>1. <<>> \in Batch
    BY DEF Batch
  <2> QED
    BY <2>1, MessagesTyped DEF OpeningMessages, TypeOK
<1>3. log = <<>> /\ ticksStarted = 0
  BY <1>1 DEF IndInv, LogInv
<1>4. /\ log' = <<nextOrders, <<>>>> /\ ticksStarted' = 2
      /\ Len(log') = 2 /\ DOMAIN log' = 1..2
      /\ log'[1] = nextOrders /\ log'[2] = <<>>
  <2>1. log' = <<>> \o <<nextOrders, <<>>>>
    BY <1>1, <1>3 DEF OpeningBatches
  <2> QED
    BY <1>1, <1>3, <2>1
<1> HIDE DEF ms
<1>5. LogInv'
  BY <1>1, <1>4 DEF LogInv
<1>6. ASSUME NEW c \in Clients PROVE PeerInv(c)'
  <2>0. /\ ClientInv(c) /\ UpInv(c) /\ DownInv(c) /\ CompleteInv(c)
        /\ AckInv(c) /\ CreditInv(c)
    BY DEF IndInv, PeerInv
  <2>1. /\ ~simulating[c] /\ ran[c] = <<>> /\ ~tickRunning[c]
        /\ ~haveQueuedTick[c] /\ playerId[c] \in {0, id[c]}
    BY <1>1, <2>0 DEF ClientInv
  <2>2. Received(c) = 0 /\ Running(c) = 0 /\ Waiting(c) = 0
    BY <2>1 DEF Received, Running, Waiting
  <2>3. /\ Received(c)' = 0 /\ Running(c)' = 0 /\ Waiting(c)' = 0
        /\ Preamble(c)' = Preamble(c) /\ Preamble(c) \in {1, 2}
    BY <1>1, <2>1 DEF Received, Preamble, Running, Waiting, clientVars
  <2>4. ClientInv(c)' /\ InStep(c)'
    BY <1>1, <1>4, <2>1 DEF ClientInv, InStep, clientVars
  <2>5. AckInv(c)'
    BY <1>1, <2>0, <2>2, <2>3 DEF AckInv, clientVars
  <2>6. ASSUME c \notin clients PROVE PeerInv(c)'
    <3>1. toClient'[c] = toClient[c]
      BY <1>1, <1>2, <2>6, BroadcastTo
    <3>2. \A i \in DOMAIN toClient[c] : ~(i > Preamble(c)) /\ i # Preamble(c)
      BY <1>1, <1>3, <2>0 DEF DownInv
    <3>3. DownInv(c)'
      BY <1>1, <2>0, <2>3, <3>1, <3>2 DEF DownInv
    <3>4. CreditInv(c)'
      BY <2>0, <2>2, <2>3, <3>1 DEF CreditInv
    <3>5. UpInv(c)' /\ CompleteInv(c)' /\ InWindow(c)'
      BY <1>1, <2>0, <2>6, <3>1
      DEF UpInv, CompleteInv, InWindow, clientVars
    <3> QED
      BY <2>4, <2>5, <3>3, <3>4, <3>5 DEF PeerInv
  <2>7. ASSUME c \in clients PROVE PeerInv(c)'
    <3> DEFINE len == Len(toClient[c])
    <3>1. link[c] = "open" /\ named[c] /\ toServer[c] = <<>>
      BY <1>1, <2>0, <2>7 DEF UpInv
    <3>2. /\ len \in Nat /\ Len(toClient'[c]) = len + 3
          /\ DOMAIN toClient'[c] = 1..(len + 3)
          /\ \A i \in 1..len : toClient'[c][i] = toClient[c][i]
          /\ toClient'[c][len + 1] = ServerStart
          /\ toClient'[c][len + 2] = ServerTick(nextOrders)
          /\ toClient'[c][len + 3] = ServerTick(<<>>)
      <4>1. /\ Len(toClient'[c]) = Len(toClient[c]) + Len(ms)
            /\ DOMAIN toClient'[c] = 1..(Len(toClient[c]) + Len(ms))
            /\ \A i \in 1..Len(toClient[c]) :
                 toClient'[c][i] = toClient[c][i]
            /\ \A k \in 1..Len(ms) :
                 toClient'[c][Len(toClient[c]) + k] = ms[k]
        <5>1. Broadcast(ms) /\ ms \in Seq(ClientMessage)
          BY <1>1, <1>2
        <5> HIDE DEF len
        <5> QED
          BY <2>7, <5>1, BroadcastTo
      <4>2. len \in Nat
        BY CountsTyped
      <4> QED
        BY <1>2, <4>1, <4>2
    <3>3. len + 1 = Preamble(c) /\ id[c] # 0 /\ id[c] \in players'
      <4>1. len = (IF playerId[c] = 0 THEN 1 ELSE 0) /\ id[c] # 0
        BY <1>1, <2>0, <2>7, <3>1 DEF CompleteInv
      <4> QED
        BY <1>1, <2>1, <2>7, <4>1 DEF Preamble
    <3>4. \A i \in 1..len : toClient[c][i] = ServerConnect(id[c])
      <4>1. DOMAIN toClient[c] = 1..len
        BY DEF TypeOK
      <4>2. \A i \in 1..len : i < Preamble(c)
        BY <3>2, <3>3
      <4> HIDE DEF len
      <4> QED
        BY <2>0, <4>1, <4>2 DEF DownInv
    <3> HIDE DEF len
    <3>5. DownInv(c)'
      <4> SUFFICES ASSUME NEW i \in 1..(len + 3)
                   PROVE  /\ i > len + 1 =>
                               /\ i - (len + 1) \in DOMAIN log'
                               /\ toClient'[c][i] = ServerTick(log'[i - (len + 1)])
                          /\ i = len + 1 => toClient'[c][i] = ServerStart
                          /\ i < len + 1 =>
                               toClient'[c][i] = ServerConnect(id[c])
        <5>1. \A i \in 1..(len + 3) : TickAt(c, i)' = i - (len + 1)
          BY <2>3, <3>2, <3>3, SMTT(30) DEF TickAt
        <5> QED
          <6>1. /\ Preamble(c)' = len + 1 /\ gameStarted'
                /\ id'[c] = id[c] /\ id'[c] # 0 /\ id'[c] \in players'
            BY <1>1, <2>3, <3>3
          <6>2. DOMAIN toClient'[c] = 1..(len + 3)
            BY <3>2
          <6> QED
            BY <5>1, <6>1, <6>2 DEF DownInv
      <4>1. CASE i \in 1..len
        <5>1. ~(i > len + 1) /\ i # len + 1
          BY <3>2, <4>1
        <5> QED
          BY <3>2, <3>4, <4>1, <5>1
      <4>2. CASE i = len + 1
        BY <3>2, <4>2
      <4>3. CASE i = len + 2
        <5>1. i - (len + 1) = 1 /\ ~(i <= len + 1)
          BY <3>2, <4>3
        <5>2. toClient'[c][i] = ServerTick(nextOrders)
          BY <3>2, <4>3
        <5>3. i - (len + 1) \in DOMAIN log' /\ log'[i - (len + 1)] = nextOrders
          BY <1>4, <5>1
        <5>4. ~(i < len + 1) /\ i # len + 1
          BY <3>2, <4>3
        <5> QED
          BY <5>2, <5>3, <5>4
      <4>4. CASE i = len + 3
        <5>1. i - (len + 1) = 2 /\ ~(i <= len + 1)
          BY <3>2, <4>4
        <5>2. toClient'[c][i] = ServerTick(<<>>)
          BY <3>2, <4>4
        <5>3. i - (len + 1) \in DOMAIN log' /\ log'[i - (len + 1)] = <<>>
          BY <1>4, <5>1
        <5>4. ~(i < len + 1) /\ i # len + 1
          BY <3>2, <4>4
        <5> QED
          BY <5>2, <5>3, <5>4
      <4> QED
        BY <3>2, <4>1, <4>2, <4>3, <4>4
    <3>6. CompleteInv(c)'
      <4>1. 0 + (len + 3) = 2 + Preamble(c)
        BY <3>2, <3>3
      <4> QED
        BY <1>1, <1>4, <2>3, <3>1, <3>2, <3>3, <4>1 DEF CompleteInv, clientVars
    <3>7. CreditInv(c)'
      <4>1. 0 + 0 + (len + 3) <= Preamble(c) + 2
        BY <3>2, <3>3
      <4> QED
        BY <2>3, <3>2, <4>1 DEF CreditInv
    <3>8. UpInv(c)'
      BY <1>1, <2>0, <2>7, <3>1 DEF UpInv, clientVars
    <3>9. InWindow(c)'
      <4>1. ticksDone[c] + Dones(toServer[c]) + 0 = 0
        BY <2>0, <2>1, <2>2, <2>7, <3>1 DEF AckInv
      <4>2. Dones(toServer[c]) \in Nat /\ ticksDone[c] \in Nat
        BY DonesType DEF TypeOK
      <4>3. ticksDone[c] = 0
        BY <4>1, <4>2
      <4> QED
        BY <1>1, <1>4, <4>3 DEF InWindow
    <3> QED
      BY <2>4, <2>5, <3>5, <3>6, <3>7, <3>8, <3>9 DEF PeerInv
  <2> QED
    BY <2>6, <2>7
<1> QED
  BY <1>5, <1>6 DEF IndInv

\* A step that changes nothing.
LEMMA StutterInv == IndInv /\ UNCHANGED vars => IndInv'
<1> SUFFICES ASSUME IndInv, UNCHANGED vars PROVE IndInv'
  OBVIOUS
<1>1. LogInv'
  BY DEF IndInv, LogInv, vars, serverVars, history
<1>2. ASSUME NEW c \in Clients PROVE PeerInv(c)'
  BY PeerUntouched DEF IndInv, vars, serverVars, enetVars, clientVars, history
<1> QED
  BY <1>1, <1>2 DEF IndInv

\* Every step preserves the invariant.
LEMMA InvStep == TypeOK /\ TypeOK' /\ IndInv /\ [Next]_vars => IndInv'
<1> SUFFICES ASSUME TypeOK, TypeOK', IndInv, [Next]_vars PROVE IndInv'
  OBVIOUS
<1>1. CASE ServerStep
  BY <1>1, ServerStartGameInv, ServerAbortInv, ServerStartTickInv, ServerExitInv
  DEF ServerStep
<1>2. ASSUME NEW c \in Clients, ServerHandleEvent(c) PROVE IndInv'
  BY <1>2, ServerAcceptInv, ServerRejectInv, ServerHandleConnectInv,
     ServerHandleOrderInv, ServerHandleTickDoneInv
  DEF ServerHandleEvent
<1>3. ASSUME NEW c \in Clients, ClientHandleMessage(c) PROVE IndInv'
  BY <1>3, ClientHandleConnectInv, ClientHandleStartInv, ClientHandleTickInv
  DEF ClientHandleMessage
<1>4. ASSUME NEW c \in Clients,
             ServerHandleDisconnect(c) \/ ClientFinishTick(c)
               \/ ClientConnects(c) \/ ClientIssuesOrder(c) \/ ClientExits(c)
               \/ HandshakeFails(c) \/ ConnectionLost(c)
      PROVE  IndInv'
  BY <1>4, ServerHandleDisconnectInv, ClientFinishTickInv, ClientConnectsInv,
     ClientIssuesOrderInv, ClientExitsInv, HandshakeFailsInv, ConnectionLostInv
<1>5. CASE UNCHANGED vars
  BY <1>5, StutterInv
<1> QED
  BY <1>1, <1>2, <1>3, <1>4, <1>5 DEF Next
-----------------------------------------------------------------------------
(* The safety properties of the protocol. *)

\* The inductive invariant: what is running, waiting, in the channels and
\* counted as done always adds up to the log of ticks broadcast.
THEOREM Invariant == Spec => []IndInv
<1>1. Init => TypeOK /\ IndInv
  <2>1. Init => TypeOK
    BY InitType
  <2> QED
    BY <2>1, InitInv
<1>2. TypeOK /\ IndInv /\ [Next]_vars => TypeOK' /\ IndInv'
  BY TypeStep, InvStep
<1> QED
  BY <1>1, <1>2, PTL DEF Spec

\* startTick's asserts and the handler's of CLIENT_TICK_DONE hold: no client
\* is ahead of the server, and none is more than two ticks behind.
THEOREM WindowIsKept == Spec => []TickWindow
BY TypeCorrect, Invariant, InvImplies, PTL

\* The assert of the client's SERVER_TICK handler holds: its room for one
\* waiting tick is enough.
THEOREM NoOverrun == Spec => []QueueNeverOverrun
BY TypeCorrect, Invariant, InvImplies, PTL

\* No tick reaches a client before its simulation exists, and no order the
\* server before the game has started, so the handlers drop neither.
THEOREM NoneIgnored == Spec => []NothingIgnored
BY TypeCorrect, Invariant, InvImplies, PTL

\* A client that holds the next tick back reports, runs a tick or has one to
\* run: the server's wait for all clients (Server.cc:164) is no deadlock.
THEOREM NobodyWaitsInVain == Spec => []NoneWaitsInVain
BY TypeCorrect, Invariant, InvMovesOn, PTL

\* The assert of Client::getPlayerId holds when the game starts, and the id
\* is the one the server runs the client's orders under.
THEOREM IdIsKnown == Spec => []StartedClientKnowsItsId
BY TypeCorrect, Invariant, InvImplies, PTL

\* All simulations run the batches that the server broadcast, in that order.
THEOREM SimulationsAgree == Spec => []InLockstep
BY TypeCorrect, Invariant, InvImplies, PTL
=============================================================================
