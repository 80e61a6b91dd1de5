-------------------------- MODULE RefinementProofs --------------------------
(***************************************************************************)
(* Server, clients and channels together implement the abstract log of     *)
(* ticks, for every set of clients and all bounds.                         *)
(*                                                                         *)
(* The server starts the game and the ticks, clients run them and leave;   *)
(* everything else is a stutter of the log.  That a step of the program is *)
(* allowed by the log follows from the invariant of LockstepProofs.        *)
(***************************************************************************)
EXTENDS LockstepProperties, LockstepProofs

\* What the log does not see of a step is a stutter.
LEMMA Unseen ==
  ASSUME UNCHANGED <<gameStarted, log, ran>>,
         gameStarted => UNCHANGED clients
  PROVE  UNCHANGED Abstract!vars
<1>1. CASE gameStarted
  BY <1>1 DEF Abstract!vars
<1>2. CASE ~ gameStarted
  BY <1>2 DEF Abstract!vars
<1> QED BY <1>1, <1>2

\* At first nobody has run anything.
LEMMA InitImplements == Init => Abstract!Init
BY DEF Init, Abstract!Init

\* The start of the game publishes the first two ticks.
LEMMA StartImplements ==
  ASSUME TypeOK, IndInv, ServerStartGame
  PROVE  Abstract!Start
<1>1. /\ ~ gameStarted /\ gameStarted' = TRUE
      /\ log' = log \o OpeningBatches
      /\ UNCHANGED <<clients, ran>>
  BY DEF ServerStartGame, clientVars
<1>2. log = << >>
  BY <1>1 DEF IndInv, LogInv
<1>3. OpeningBatches \in Seq(Batch) /\ Len(OpeningBatches) = 2
  <2>1. << >> \in Batch /\ nextOrders \in Batch
    BY DEF Batch, TypeOK
  <2> QED BY <2>1 DEF OpeningBatches
<1>4. log' = OpeningBatches
  BY <1>1, <1>2, <1>3
<1>5. Abstract!ExtendedBy(log, log', 2)
  <2>1. SubSeq(log', 1, Len(log)) = log
    BY <1>2, <1>3, <1>4
  <2> QED BY <1>2, <1>3, <1>4, <2>1 DEF Abstract!ExtendedBy
<1>6. clients \subseteq Clients
  BY DEF TypeOK
<1> QED BY <1>1, <1>5, <1>6 DEF Abstract!Start

\* The server starts a tick only when all clients have reported all but the
\* last one: then none is two ticks behind.
LEMMA TickImplements ==
  ASSUME TypeOK, IndInv, ServerStartTick
  PROVE  Abstract!Publish
<1>1. /\ server = "running" /\ gameStarted /\ PrevTickDone
      /\ log' = Append(log, nextOrders)
      /\ UNCHANGED <<gameStarted, clients, ran>>
  BY DEF ServerStartTick, clientVars
<1>2. ASSUME NEW c \in clients
      PROVE  Len(log) < Len(ran[c]) + 2
  <2>1. c \in Clients
    BY <1>2 DEF TypeOK
  <2>2. link[c] = "open"
    BY <1>1, <2>1 DEF IndInv, PeerInv, UpInv
  <2>3. ticksDone[c] + Dones(toServer[c]) + Running(c) = Len(ran[c])
    BY <2>1, <2>2 DEF IndInv, PeerInv, AckInv
  <2>4. Dones(toServer[c]) \in Nat
    BY <2>1, DonesType DEF TypeOK
  <2>5. ticksDone[c] >= ticksStarted - 1 /\ Len(log) = ticksStarted
    BY <1>1 DEF PrevTickDone, IndInv, LogInv
  <2> QED BY <2>1, <2>3, <2>4, <2>5, CountsTyped
<1>3. Abstract!ExtendedBy(log, log', 1)
  <2>1. log \in Seq(Batch) /\ nextOrders \in Batch
    BY DEF TypeOK
  <2>2. /\ log' \in Seq(Batch) /\ Len(log') = Len(log) + 1
        /\ \A t \in 1 .. Len(log) : log'[t] = log[t]
    BY <1>1, <2>1, Appended
  <2>3. SubSeq(log', 1, Len(log)) = log
    <3>1. SubSeq(log', 1, Len(log)) = [t \in 1 .. Len(log) |-> log'[t]]
      BY <2>1, <2>2
    <3>2. log = [t \in 1 .. Len(log) |-> log[t]]
      BY <2>1
    <3> QED BY <2>2, <3>1, <3>2
  <2> QED BY <2>2, <2>3 DEF Abstract!ExtendedBy
<1> QED BY <1>1, <1>2, <1>3 DEF Abstract!Publish

\* A client that runs a tick runs the next one of the log.
LEMMA RunImplements ==
  ASSUME TypeOK, NEW c \in Clients, NEW b,
         Len(ran[c]) + 1 \in DOMAIN log, b = log[Len(ran[c]) + 1],
         ran' = [ran EXCEPT ![c] = Append(@, b)],
         UNCHANGED <<gameStarted, clients, log>>
  PROVE  Abstract!Run(c)
<1>1. Len(ran[c]) < Len(log)
  <2>1. log \in Seq(Batch) /\ Len(ran[c]) \in Nat
    BY DEF TypeOK
  <2> QED BY <2>1
<1> QED BY <1>1 DEF Abstract!Run

\* A tick that was waiting is the next one, by InStep.
LEMMA FinishImplements ==
  ASSUME TypeOK, IndInv, NEW c \in Clients, ClientFinishTick(c)
  PROVE  Abstract!Run(c) \/ UNCHANGED Abstract!vars
<1>1. UNCHANGED <<gameStarted, clients, log>>
  BY DEF ClientFinishTick, serverVars, history
<1>2. CASE haveQueuedTick[c]
  <2>1. ran' = [ran EXCEPT ![c] = Append(@, queuedOrders[c])]
    BY <1>2 DEF ClientFinishTick
  <2>2. /\ Len(ran[c]) < Len(log)
        /\ queuedOrders[c] = log[Len(ran[c]) + 1]
    BY <1>2 DEF IndInv, PeerInv, InStep
  <2>3. Len(ran[c]) + 1 \in DOMAIN log
    <3>1. log \in Seq(Batch) /\ Len(ran[c]) \in Nat
      BY DEF TypeOK
    <3> QED BY <2>2, <3>1
  <2> QED BY <1>1, <2>1, <2>2, <2>3, RunImplements
<1>3. CASE ~ haveQueuedTick[c]
  <2>1. UNCHANGED ran
    BY <1>3 DEF ClientFinishTick
  <2> QED BY <1>1, <2>1, Unseen
<1> QED BY <1>2, <1>3

\* A tick that arrives is the next one when none is running, since none is
\* waiting then.
LEMMA HandleTickImplements ==
  ASSUME TypeOK, IndInv, NEW c \in Clients, ClientHandleTick(c)
  PROVE  Abstract!Run(c) \/ UNCHANGED Abstract!vars
<1>1. /\ UNCHANGED <<gameStarted, clients, log>>
      /\ toClient[c] # << >> /\ Head(toClient[c]).type = "SERVER_TICK"
      /\ ~ haveQueuedTick[c]
  BY DEF ClientHandleTick, Receives, serverVars, history
<1>2. CASE ~ tickRunning[c]
  <2>1. ran' = [ran EXCEPT ![c] = Append(@, Head(toClient[c]).orders)]
    BY <1>2 DEF ClientHandleTick
  <2>2. /\ Received(c) + 1 \in DOMAIN log
        /\ Head(toClient[c]) = ServerTick(log[Received(c) + 1])
    BY <1>1, FirstMessage
  <2>3. Received(c) = Len(ran[c])
    <3>1. Len(ran[c]) \in Nat
      BY CountsTyped
    <3> QED BY <1>1, <3>1 DEF Received, Waiting
  <2>4. Head(toClient[c]).orders = log[Len(ran[c]) + 1]
    BY <2>2, <2>3 DEF ServerTick
  <2> QED BY <1>1, <2>1, <2>2, <2>3, <2>4, RunImplements
<1>3. CASE tickRunning[c]
  <2>1. UNCHANGED ran
    BY <1>3 DEF ClientHandleTick
  <2> QED BY <1>1, <2>1, Unseen
<1> QED BY <1>2, <1>3

\* Who disappears is not waited for any more.
LEMMA DisconnectImplements ==
  ASSUME TypeOK, NEW c \in Clients, ServerHandleDisconnect(c)
  PROVE  Abstract!Leave(c) \/ UNCHANGED Abstract!vars
<1>1. /\ c \in clients /\ clients' = clients \ {c}
      /\ UNCHANGED <<gameStarted, log, ran>>
  BY DEF ServerHandleDisconnect, clientVars, history
<1>2. CASE gameStarted
  BY <1>1, <1>2 DEF Abstract!Leave
<1>3. CASE ~ gameStarted
  BY <1>1, <1>3, Unseen
<1> QED BY <1>2, <1>3

\* All other steps are hidden.
LEMMA OthersImplement ==
  ASSUME NEW c \in Clients,
         \/ ServerHandleEvent(c) \/ ClientHandleConnect(c)
         \/ ClientHandleStart(c) \/ ClientConnects(c) \/ ClientIssuesOrder(c)
         \/ ClientExits(c) \/ HandshakeFails(c) \/ ConnectionLost(c)
  PROVE  UNCHANGED Abstract!vars
<1>1. CASE ServerHandleEvent(c)
  <2>1. CASE ServerAccept(c)
    BY <2>1, Unseen DEF ServerAccept, clientVars, history
  <2>2. CASE ServerReject(c)
    BY <2>2, Unseen DEF ServerReject, serverVars, clientVars, history
  <2>3. CASE ServerHandleConnect(c)
    BY <2>3, Unseen DEF ServerHandleConnect, clientVars, history
  <2>4. CASE ServerHandleOrder(c)
    BY <2>4, Unseen DEF ServerHandleOrder, clientVars, history
  <2>5. CASE ServerHandleTickDone(c)
    BY <2>5, Unseen DEF ServerHandleTickDone, clientVars, history
  <2> QED BY <1>1, <2>1, <2>2, <2>3, <2>4, <2>5 DEF ServerHandleEvent
<1>2. CASE ClientHandleConnect(c) \/ ClientHandleStart(c)
  BY <1>2, Unseen DEF ClientHandleConnect, ClientHandleStart, serverVars, history
<1>3. CASE ClientConnects(c) \/ ClientExits(c)
  BY <1>3, Unseen DEF ClientConnects, ClientExits, serverVars, history
<1>4. CASE ClientIssuesOrder(c)
  BY <1>4, Unseen DEF ClientIssuesOrder, serverVars, clientVars
<1>5. CASE HandshakeFails(c) \/ ConnectionLost(c)
  BY <1>5, Unseen
  DEF HandshakeFails, ConnectionLost, serverVars, clientVars, history
<1> QED BY <1>1, <1>2, <1>3, <1>4, <1>5

\* Every step is one of the log, or hidden from it.
LEMMA StepImplements ==
  TypeOK /\ IndInv /\ [Next]_vars => [Abstract!Next]_(Abstract!vars)
<1> SUFFICES ASSUME TypeOK, IndInv, [Next]_vars
             PROVE  Abstract!Next \/ UNCHANGED Abstract!vars
  OBVIOUS
<1>1. CASE ServerStartGame
  BY <1>1, StartImplements DEF Abstract!Next
<1>2. CASE ServerStartTick
  BY <1>2, TickImplements DEF Abstract!Next
<1>3. CASE ServerAbort \/ ServerExit
  BY <1>3, Unseen DEF ServerAbort, ServerExit, clientVars, history
<1>4. ASSUME NEW c \in Clients, ClientFinishTick(c)
      PROVE  Abstract!Next \/ UNCHANGED Abstract!vars
  BY <1>4, FinishImplements DEF Abstract!Next
<1>5. ASSUME NEW c \in Clients, ClientHandleTick(c)
      PROVE  Abstract!Next \/ UNCHANGED Abstract!vars
  BY <1>5, HandleTickImplements DEF Abstract!Next
<1>6. ASSUME NEW c \in Clients, ServerHandleDisconnect(c)
      PROVE  Abstract!Next \/ UNCHANGED Abstract!vars
  BY <1>6, DisconnectImplements DEF Abstract!Next
<1>7. CASE UNCHANGED vars
  BY <1>7, Unseen DEF vars, serverVars, clientVars, history
<1> QED
  BY <1>1, <1>2, <1>3, <1>4, <1>5, <1>6, <1>7, OthersImplement
  DEF Next, ServerStep, ClientHandleMessage

\* The protocol implements the abstract log: one log for all, views that are
\* prefixes of it and never more than two ticks behind it (Server.cc:156,
\* Client.cc:63 and :140).
THEOREM ProtocolIsTickLog == Spec => ImplementsTickLog
<1>1. Init => Abstract!Init
  BY InitImplements
<1>2. TypeOK /\ IndInv /\ [Next]_vars => [Abstract!Next]_(Abstract!vars)
  BY StepImplements
<1> QED
  BY <1>1, <1>2, TypeCorrect, Invariant, PTL
  DEF Spec, ImplementsTickLog, Abstract!Spec
=============================================================================
