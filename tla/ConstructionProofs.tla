------------------------- MODULE ConstructionProofs -------------------------
(***************************************************************************)
(* Proofs about Construction, for any number of buildings, types, blocks   *)
(* and orders.                                                             *)
(***************************************************************************)
EXTENDS Construction, Loops, FiniteSetTheorems

\* MainBuildingSystem in the course of its loop
Sends ==
  [queue  : [Objects -> Seq(Objects)],
   flying : [Objects -> [Block -> Nat]],
   since  : [Objects -> 0 .. BuildSpeed]]

\* What is not an object yet has left no trace.
Fresh ==
  \A o \in Objects : o > created =>
    /\ o \notin standing
    /\ \A b \in Block : placed[o][b] = 0 /\ flying[o][b] = 0
    /\ \A m \in Objects : o \notin Range(buildQueue[m])

\* Blocks are sent only to sites that have a place for them, and what is
\* finished lacks none.
Whole ==
  /\ \A o \in Objects, b \in Block : flying[o][b] > 0 => b \in BlocksOf(o)
  /\ \A o \in finished : \A b \in BlocksOf(o) : placed[o][b] > 0

ConInv ==
  /\ TypeOK /\ Fresh /\ Whole
  /\ NoBlockTwice /\ NoneBuildsItself /\ NotForgotten

\* The invariant of the loop.  The flights at its start are in f.
Sound(s, f) ==
  /\ s \in Sends
  /\ \A o \in Objects, b \in Block : placed'[o][b] + s.flying[o][b] <= 1
  /\ \A m \in Objects : m \notin Range(s.queue[m])
  /\ \A o \in standing' \ (finished' \cup dropped') :
       \/ \E m \in standing' : o \in Range(s.queue[m])
       \/ \A b \in BlocksOf(o) : placed'[o][b] + s.flying[o][b] > 0
  /\ \A o \in Objects, b \in Block : s.flying[o][b] >= f[o][b]
  /\ \A o \in Objects : o > created =>
       /\ \A b \in Block : s.flying[o][b] = 0
       /\ \A m \in Objects : o \notin Range(s.queue[m])
  /\ \A o \in Objects, b \in Block : s.flying[o][b] > 0 => b \in BlocksOf(o)

\* The types of the state that the loop reads.
TickTypes ==
  /\ standing' \subseteq Objects /\ finished' \subseteq standing'
  /\ dropped' \subseteq Objects
  /\ placed' \in [Objects -> [Block -> Nat]]
  /\ type' = type /\ type \in [Objects -> Types]
  /\ \A o \in standing' : o <= created
  /\ created \in Nat
-----------------------------------------------------------------------------
\* The elements of a queue are its head and those of its tail.
LEMMA HeadTail ==
  ASSUME NEW S, NEW q \in Seq(S), q # << >>
  PROVE  /\ Head(q) \in S /\ Tail(q) \in Seq(S)
         /\ \A x : x \in Range(q) <=> x = Head(q) \/ x \in Range(Tail(q))
<1>1. /\ Head(q) = q[1] /\ Tail(q) \in Seq(S) /\ Len(q) \in Nat /\ Len(q) > 0
      /\ Len(Tail(q)) = Len(q) - 1
      /\ \A i \in 1 .. Len(q) - 1 : Tail(q)[i] = q[i + 1]
      /\ DOMAIN q = 1 .. Len(q) /\ DOMAIN Tail(q) = 1 .. (Len(q) - 1)
  OBVIOUS
<1>2. Range(q) = {q[i] : i \in 1 .. Len(q)}
  BY <1>1 DEF Range
<1>3. Range(Tail(q)) = {Tail(q)[i] : i \in 1 .. (Len(q) - 1)}
  BY <1>1 DEF Range
<1>4. ASSUME NEW x \in Range(Tail(q))
      PROVE  x \in Range(q)
  <2>1. PICK i \in 1 .. (Len(q) - 1) : x = q[i + 1]
    BY <1>1, <1>3
  <2>2. i + 1 \in 1 .. Len(q)
    BY <1>1
  <2> QED BY <1>2, <2>1, <2>2
<1>5. ASSUME NEW x \in Range(q), x # Head(q)
      PROVE  x \in Range(Tail(q))
  <2>1. PICK i \in 1 .. Len(q) : x = q[i]
    BY <1>2
  <2>2. i - 1 \in 1 .. (Len(q) - 1) /\ (i - 1) + 1 = i
    BY <1>1, <1>5, <2>1
  <2>3. Tail(q)[i - 1] = q[i]
    BY <1>1, <2>2
  <2> QED BY <1>3, <2>1, <2>2, <2>3
<1>6. Head(q) \in Range(q) /\ Head(q) \in S
  BY <1>1, <1>2
<1> QED BY <1>1, <1>4, <1>5, <1>6

\* The elements of a queue that has been appended to.
LEMMA AppendRange ==
  ASSUME NEW S, NEW q \in Seq(S), NEW e \in S
  PROVE  /\ Append(q, e) \in Seq(S)
         /\ \A x : x \in Range(Append(q, e)) <=> x = e \/ x \in Range(q)
<1>1. /\ Append(q, e) \in Seq(S) /\ Len(q) \in Nat
      /\ DOMAIN Append(q, e) = 1 .. Len(q) + 1 /\ DOMAIN q = 1 .. Len(q)
      /\ \A i \in 1 .. Len(q) : Append(q, e)[i] = q[i]
      /\ Append(q, e)[Len(q) + 1] = e
  OBVIOUS
<1>2. \A i : i \in 1 .. Len(q) + 1 <=> i \in 1 .. Len(q) \/ i = Len(q) + 1
  BY <1>1
<1> QED BY <1>1, <1>2 DEF Range

\* The elements of a queue of one.
LEMMA OneRange ==
  ASSUME NEW S, NEW e \in S
  PROVE  /\ <<e>> \in Seq(S)
         /\ \A x : x \in Range(<<e>>) <=> x = e
BY DEF Range

\* The next block that is needed is one that is.
LEMMA NextNeeded ==
  ASSUME NEW T \in SUBSET Nat, T # {}
  PROVE  Min(T) \in T /\ \A y \in T : Min(T) <= y
<1>1. \E x \in T : \A y \in T : x <= y
  BY LeastNumber
<1> QED BY <1>1 DEF Min
-----------------------------------------------------------------------------
(* One turn of a main building *)

\* What the turn of a main building may do: nothing, drop a site that is
\* done, or launch a block.
LEMMA TurnCases ==
  ASSUME NEW s, NEW m
  PROVE  \/ Turn(s, m) = s
         \/ /\ s.queue[m] # << >>
            /\ Done(s, Head(s.queue[m]))
            /\ Turn(s, m) = [s EXCEPT !.queue[m] = Tail(s.queue[m])]
         \/ /\ s.queue[m] # << >>
            /\ ~ Done(s, Head(s.queue[m]))
            /\ Turn(s, m) = Launch(s, m, Head(s.queue[m]))
BY DEF Turn

\* A site that is taken from a queue is finished, or all it lacks is under way.
LEMMA PopSound ==
  ASSUME TickTypes, NEW f, NEW s, Sound(s, f), NEW m \in Objects,
         s.queue[m] # << >>, Done(s, Head(s.queue[m]))
  PROVE  Sound([s EXCEPT !.queue[m] = Tail(s.queue[m])], f)
<1> DEFINE q  == s.queue[m]
           o  == Head(q)
           Q  == [s.queue EXCEPT ![m] = Tail(q)]
           s2 == [s EXCEPT !.queue[m] = Tail(s.queue[m])]
<1>1. /\ s \in Sends /\ s.queue \in [Objects -> Seq(Objects)]
      /\ q \in Seq(Objects) /\ q # << >>
  BY DEF Sound, Sends
<1> HIDE DEF q
<1>2. /\ o \in Objects /\ Tail(q) \in Seq(Objects)
      /\ \A x : x \in Range(q) <=> x = o \/ x \in Range(Tail(q))
  BY <1>1, HeadTail
<1>3. /\ Q \in [Objects -> Seq(Objects)]
      /\ Q[m] = Tail(q)
      /\ \A n \in Objects \ {m} : Q[n] = s.queue[n]
  BY <1>1, <1>2
<1>4. s2 \in Sends /\ s2.queue = Q /\ s2.flying = s.flying
  <2>1. s2 = [s EXCEPT !.queue = Q]
    BY <1>1 DEF q, Sends
  <2> HIDE DEF s2, Q
  <2> QED BY <1>1, <1>3, <2>1 DEF Sends
<1>5. ASSUME NEW n \in Objects, NEW x \in Range(Q[n])
      PROVE  x \in Range(s.queue[n])
  <2>1. CASE n = m
    BY <1>2, <1>3, <1>5, <2>1 DEF q
  <2>2. CASE n # m
    BY <1>3, <1>5, <2>2
  <2> QED BY <2>1, <2>2
<1> HIDE DEF Q, s2
<1>6. ASSUME NEW x \in standing' \ (finished' \cup dropped')
      PROVE  \/ \E n \in standing' : x \in Range(Q[n])
             \/ \A b \in BlocksOf(x) : placed'[x][b] + s.flying[x][b] > 0
  <2>1. CASE x = o
    <3>1. Needed(s, x) = {}
      BY <1>6, <2>1 DEF Done, q
    <3>2. x \in Objects /\ BlocksOf(x) \subseteq Block
      BY <1>6, TypesAssumption DEF TickTypes, BlocksOf, Block
    <3>3. \A b \in Block : placed'[x][b] \in Nat /\ s.flying[x][b] \in Nat
      BY <1>1, <3>2 DEF TickTypes, Sends
    <3> QED BY <3>1, <3>2, <3>3 DEF Needed
  <2>2. ASSUME x # o, NEW n \in standing', x \in Range(s.queue[n])
        PROVE  x \in Range(Q[n])
    <3>1. n \in Objects
      BY DEF TickTypes
    <3> QED BY <1>2, <1>3, <2>2, <3>1 DEF q
  <2>3. \/ \E n \in standing' : x \in Range(s.queue[n])
        \/ \A b \in BlocksOf(x) : placed'[x][b] + s.flying[x][b] > 0
    BY <1>6 DEF Sound
  <2> QED BY <2>1, <2>2, <2>3
<1>7. Sound(s2, f)
  BY <1>4, <1>5, <1>6 DEF Sound
<1> QED BY <1>7 DEF s2

\* One more flight of a block that is not under way.
LEMMA OneMore ==
  ASSUME NEW X, NEW Y, NEW g \in [X -> [Y -> Nat]],
         NEW o \in X, NEW c \in Y, g[o][c] = 0,
         NEW F, F = [g EXCEPT ![o][c] = g[o][c] + 1]
  PROVE  /\ F \in [X -> [Y -> Nat]]
         /\ F[o][c] = 1
         /\ \A x \in X, b \in Y : x # o \/ b # c => F[x][b] = g[x][b]
<1> DEFINE r == [y \in Y |-> IF y = c THEN 1 ELSE g[o][y]]
<1>1. g[o] \in [Y -> Nat] /\ g[o][c] + 1 = 1 /\ r \in [Y -> Nat]
  OBVIOUS
<1>2. F = [x \in X |-> IF x = o THEN r ELSE g[x]]
  <2>1. [g[o] EXCEPT ![c] = g[o][c] + 1] = r
    BY <1>1
  <2>2. F = [g EXCEPT ![o] = [g[o] EXCEPT ![c] = g[o][c] + 1]]
    OBVIOUS
  <2> HIDE DEF r
  <2> QED BY <2>1, <2>2
<1>3. F \in [X -> [Y -> Nat]]
  <2> HIDE DEF r
  <2> QED BY <1>1, <1>2
<1>4. F[o][c] = 1
  BY <1>2
<1>5. \A x \in X, b \in Y : x # o \/ b # c => F[x][b] = g[x][b]
  BY <1>2
<1> QED BY <1>3, <1>4, <1>5

\* A block that is sent is neither in place nor under way.
LEMMA LaunchSound ==
  ASSUME TickTypes, NEW f, NEW s, Sound(s, f), NEW m \in Objects,
         s.queue[m] # << >>, ~ Done(s, Head(s.queue[m])),
         f \in [Objects -> [Block -> Nat]]
  PROVE  Sound(Launch(s, m, Head(s.queue[m])), f)
<1> DEFINE o  == Head(s.queue[m])
           T  == Needed(s, o)
           c  == Min(T)
           F  == [s.flying EXCEPT ![o][c] = s.flying[o][c] + 1]
           S  == [s.since EXCEPT ![m] = 0]
           s2 == Launch(s, m, o)
<1>1. /\ s \in Sends /\ s.flying \in [Objects -> [Block -> Nat]]
      /\ s.since \in [Objects -> 0 .. BuildSpeed]
  BY DEF Sound, Sends
<1>0. o \in standing' /\ T # {}
  BY DEF Done
<1>2. o \in standing' /\ o \in Objects /\ o <= created
  <2> HIDE DEF o
  <2> QED BY <1>0 DEF TickTypes
<1>3. T \in SUBSET Nat /\ T # {} /\ T \subseteq Block
  <2> HIDE DEF o
  <2>1. BlockCount[type[o]] \in Block
    BY <1>2, TypesAssumption DEF TickTypes
  <2>2. T \subseteq Block
    BY <2>1, TypesAssumption DEF Needed, BlocksOf, Block
  <2> QED BY <1>0, <2>2, TypesAssumption DEF Block
<1>4. c \in T
  <2> HIDE DEF T
  <2> QED BY <1>3, NextNeeded
<1>5. c \in Block /\ placed'[o][c] = 0 /\ s.flying[o][c] = 0
  BY <1>3, <1>4 DEF Needed
<1>6. s2 = [s EXCEPT !.since = S, !.flying = F]
  BY <1>1 DEF Launch, Sends
<1> HIDE DEF o, T, c
<1>7. /\ F \in [Objects -> [Block -> Nat]]
      /\ F[o][c] = 1
      /\ \A x \in Objects, b \in Block :
           x # o \/ b # c => F[x][b] = s.flying[x][b]
  <2>1. F = [s.flying EXCEPT ![o][c] = s.flying[o][c] + 1]
    OBVIOUS
  <2> HIDE DEF F, S, s2
  <2> QED BY <1>1, <1>2, <1>5, <2>1, OneMore
<1>8. S \in [Objects -> 0 .. BuildSpeed]
  <2>1. 0 \in 0 .. BuildSpeed
    BY BuildSpeedAssumption
  <2> HIDE DEF F, s2
  <2> QED BY <1>1, <2>1, Zenon
<1> HIDE DEF F, S, s2
<1>9. s2 \in Sends /\ s2.queue = s.queue /\ s2.flying = F
  BY <1>1, <1>6, <1>7, <1>8 DEF Sends
<1>10. \A x \in Objects, b \in Block : /\ F[x][b] \in Nat
                                      /\ s.flying[x][b] \in Nat
                                      /\ placed'[x][b] \in Nat
                                      /\ f[x][b] \in Nat
  <2>1. \A x \in Objects, b \in Block : F[x][b] \in Nat
    BY <1>7
  <2>2. \A x \in Objects, b \in Block : s.flying[x][b] \in Nat
    BY <1>1
  <2>3. \A x \in Objects, b \in Block : placed'[x][b] \in Nat
    BY DEF TickTypes
  <2> QED BY <2>1, <2>2, <2>3
<1>11. ASSUME NEW x \in Objects, NEW b \in Block
       PROVE  /\ placed'[x][b] + F[x][b] <= 1
              /\ F[x][b] >= s.flying[x][b] /\ F[x][b] >= f[x][b]
  <2>1. placed'[x][b] + s.flying[x][b] <= 1 /\ s.flying[x][b] >= f[x][b]
    BY DEF Sound
  <2>2. CASE x = o /\ b = c
    BY <1>5, <1>7, <1>10, <2>1, <2>2
  <2>3. CASE x # o \/ b # c
    BY <1>7, <1>10, <2>1, <2>3
  <2> QED BY <2>2, <2>3
<1>12. ASSUME NEW x \in standing' \ (finished' \cup dropped')
       PROVE  \/ \E n \in standing' : x \in Range(s.queue[n])
              \/ \A b \in BlocksOf(x) : placed'[x][b] + F[x][b] > 0
  <2>1. x \in Objects /\ BlocksOf(x) \subseteq Block
    BY TypesAssumption DEF TickTypes, BlocksOf, Block
  <2>2. \/ \E n \in standing' : x \in Range(s.queue[n])
        \/ \A b \in BlocksOf(x) : placed'[x][b] + s.flying[x][b] > 0
    BY <1>12 DEF Sound
  <2>3. ASSUME NEW b \in BlocksOf(x), placed'[x][b] + s.flying[x][b] > 0
        PROVE  placed'[x][b] + F[x][b] > 0
    BY <1>10, <1>11, <2>1, <2>3
  <2>4. CASE \E n \in standing' : x \in Range(s.queue[n])
    BY <2>4
  <2>5. CASE \A b \in BlocksOf(x) : placed'[x][b] + s.flying[x][b] > 0
    BY <2>3, <2>5
  <2> QED BY <2>2, <2>4, <2>5
<1>13. ASSUME NEW x \in Objects, x > created, NEW b \in Block
       PROVE  F[x][b] = 0
  <2>1. x # o
    BY <1>2, <1>13, PlayersAssumption DEF TickTypes, Objects
  <2>2. s.flying[x][b] = 0
    BY <1>13 DEF Sound
  <2> QED BY <1>7, <2>1, <2>2
<1>14. ASSUME NEW x \in Objects, NEW b \in Block, F[x][b] > 0
       PROVE  b \in BlocksOf(x)
  <2>1. CASE x = o /\ b = c
    BY <1>4, <2>1 DEF T, Needed
  <2>2. CASE x # o \/ b # c
    BY <1>7, <1>14, <2>2 DEF Sound
  <2> QED BY <2>1, <2>2
<1>15. Sound(s2, f)
  BY <1>9, <1>11, <1>12, <1>13, <1>14 DEF Sound
<1> QED BY <1>15 DEF s2, o

\* A turn preserves the invariant of the loop.
LEMMA TurnSound ==
  ASSUME TickTypes, NEW f \in [Objects -> [Block -> Nat]], NEW s, Sound(s, f),
         NEW m \in Objects
  PROVE  Sound(Turn(s, m), f)
<1> DEFINE t == Turn(s, m)
<1>1. CASE t = s
  BY <1>1
<1>2. CASE /\ s.queue[m] # << >> /\ Done(s, Head(s.queue[m]))
           /\ t = [s EXCEPT !.queue[m] = Tail(s.queue[m])]
  <2>1. Sound([s EXCEPT !.queue[m] = Tail(s.queue[m])], f)
    BY <1>2, PopSound
  <2> QED BY <1>2, <2>1
<1>3. CASE /\ s.queue[m] # << >> /\ ~ Done(s, Head(s.queue[m]))
           /\ t = Launch(s, m, Head(s.queue[m]))
  <2>1. Sound(Launch(s, m, Head(s.queue[m])), f)
    BY <1>3, LaunchSound
  <2> QED BY <1>3, <2>1
<1> QED BY <1>1, <1>2, <1>3, TurnCases

\* So do the turns of all main buildings.
LEMMA TurnsSound ==
  ASSUME TickTypes, NEW f \in [Objects -> [Block -> Nat]],
         NEW start, Sound(start, f), NEW order, Len(order) \in Nat,
         \A i \in 1 .. Len(order) : order[i] \in Objects
  PROVE  Sound(Turns(order, start), f)
<1> DEFINE n     == Len(order)
           F     == {s \in Sends : Sound(s, f)}
           pass  == [i \in 1 .. n |-> [s \in F |-> Turn(s, order[i])]]
           after == CHOOSE g : g = [i \in 0 .. n |->
                      IF i = 0 THEN start ELSE Turn(g[i - 1], order[i])]
<1>1. Turns(order, start) = after[n]
  BY DEF Turns
<1>2. \A s : s \in F <=> Sound(s, f)
  BY DEF Sound
<1> HIDE DEF F
<1>3. ASSUME NEW i \in 1 .. n, NEW s \in F
      PROVE  Turn(s, order[i]) \in F
  <2>1. order[i] \in Objects /\ Sound(s, f)
    BY <1>2
  <2> QED BY <1>2, <2>1, TurnSound
<1> HIDE DEF n
<1>4. n \in Nat /\ start \in F /\ pass \in [1 .. n -> [F -> F]]
  BY <1>2, <1>3 DEF n
<1>5. PICK h : Computes(n, F, start, pass, h)
  <2>1. IsLoop(n, F, start, pass)
    BY <1>4 DEF IsLoop
  <2> HIDE DEF pass
  <2> QED BY <2>1, LoopRuns
<1>6. h = [i \in 0 .. n |-> IF i = 0 THEN start ELSE Turn(h[i - 1], order[i])]
  <2>1. ASSUME NEW i \in 1 .. n
        PROVE  h[i] = Turn(h[i - 1], order[i])
    <3>1. i - 1 \in 0 .. n
      BY <1>4
    <3>2. h[i - 1] \in F /\ h[i] = pass[i][h[i - 1]]
      BY <1>5, <3>1 DEF Computes
    <3> QED BY <3>2
  <2>2. \A i \in 0 .. n : i = 0 \/ i \in 1 .. n
    BY <1>4
  <2> HIDE DEF pass
  <2> QED BY <1>5, <2>1, <2>2 DEF Computes
<1>7. after = [i \in 0 .. n |->
                 IF i = 0 THEN start ELSE Turn(after[i - 1], order[i])]
  BY <1>6
<1> HIDE DEF after, pass
<1>8. /\ after[0] = start
      /\ \A i \in 1 .. n : after[i] = Turn(after[i - 1], order[i])
  <2>1. 0 \in 0 .. n /\ \A i \in 1 .. n : i \in 0 .. n /\ i # 0
    BY <1>4
  <2> QED BY <1>7, <2>1
<1> DEFINE S == {i \in 0 .. n : after[i] \in F}
<1>9. 0 \in S
  BY <1>4, <1>8
<1>10. ASSUME NEW i \in 1 .. n, i - 1 \in S
       PROVE  i \in S
  <2>1. after[i - 1] \in F /\ i \in 0 .. n
    BY <1>4, <1>10
  <2> QED BY <2>1, <1>3, <1>8
<1>11. n \in S
  <2>1. n \in 0 .. n
    BY <1>4
  <2> HIDE DEF S
  <2> QED BY <1>4, <1>9, <1>10, <2>1, LoopInduction
<1> QED BY <1>1, <1>2, <1>11

\* The members of a finite set in some order: each of them, and once.
LEMMA InSomeOrder ==
  ASSUME NEW T, IsFiniteSet(T), NEW order \in SetToSeqs(T)
  PROVE  /\ Len(order) \in Nat
         /\ \A i \in 1 .. Len(order) : order[i] \in T
         /\ \A i, j \in 1 .. Len(order) : order[i] = order[j] => i = j
         /\ \A x \in T : \E i \in 1 .. Len(order) : order[i] = x
<1> DEFINE n == Cardinality(T)
           D == 1 .. n
<1>1. n \in Nat
  BY FS_CardinalityType
<1>2. order \in [D -> T] /\ \A i, j \in D : i # j => order[i] # order[j]
  BY DEF SetToSeqs
<1> HIDE DEF n
<1>3. Len(order) = n
  BY <1>1, <1>2
<1>4. IsFiniteSet(D) /\ Cardinality(D) = n
  BY <1>1, FS_Interval
<1>5. order \in Injection(D, T)
  BY <1>2 DEF Injection, IsInjective
<1> HIDE DEF D
<1>6. order \in Surjection(D, T)
  BY <1>4, <1>5, FS_Injection DEF n
<1>7. \A x \in T : \E i \in D : order[i] = x
  BY <1>6 DEF Surjection
<1> QED BY <1>1, <1>2, <1>3, <1>7 DEF D

\* Sets of objects are finite.
LEMMA FiniteObjects == \A T \in SUBSET Objects : IsFiniteSet(T)
<1>1. IsFiniteSet(Objects)
  BY PlayersAssumption, FS_Interval DEF Objects
<1> QED BY <1>1, FS_Subset

\* The main buildings take their turns in some order.
LEMMA OrderType ==
  ASSUME NEW T \in SUBSET Objects, NEW order \in SetToSeqs(T)
  PROVE  /\ Len(order) \in Nat
         /\ \A i \in 1 .. Len(order) : order[i] \in Objects
BY FiniteObjects, InSomeOrder
-----------------------------------------------------------------------------
(* A tick *)

\* What the loop starts from is sound.
Start(landed) ==
  [queue  |-> [m \in Objects |-> IF m \in standing'
                                   THEN buildQueue[m] ELSE << >>],
   flying |-> StillFlying(landed),
   since  |-> [m \in Objects |-> Min({sinceLaunch[m] + 1, BuildSpeed})]]

\* The blocks in flight are those that land and those that fly on.
LEMMA Flown ==
  ASSUME TypeOK, NEW landed \in SUBSET Flights
  PROVE  /\ StillFlying(landed) \in [Objects -> [Block -> Nat]]
         /\ \A o \in Objects, b \in Block :
              /\ <<o, b>> \in landed =>
                   flying[o][b] = StillFlying(landed)[o][b] + 1
              /\ <<o, b>> \notin landed =>
                   flying[o][b] = StillFlying(landed)[o][b]
<1>1. ASSUME NEW o \in Objects, NEW b \in Block
      PROVE  /\ flying[o][b] \in Nat
             /\ <<o, b>> \in landed => flying[o][b] > 0
  BY DEF TypeOK, Flights
<1>2. ASSUME NEW o \in Objects, NEW b \in Block
      PROVE  /\ StillFlying(landed)[o][b] \in Nat
             /\ <<o, b>> \in landed =>
                  flying[o][b] = StillFlying(landed)[o][b] + 1
             /\ <<o, b>> \notin landed =>
                  flying[o][b] = StillFlying(landed)[o][b]
  BY <1>1 DEF StillFlying
<1>3. StillFlying(landed) \in [Objects -> [Block -> Nat]]
  BY <1>1 DEF StillFlying
<1> QED BY <1>2, <1>3

\* What flights land on.
Sites ==
  [placed : [Objects -> [Block -> Nat]], finished : SUBSET Objects]

\* What is in place when the flights in done have landed: each has left its
\* block, unless the building is gone or had been finished before the tick.
LeftBy(blocks, done) ==
  \A o \in Objects, b \in Block :
    /\ o \notin standing' => blocks[o][b] = 0
    /\ o \in standing' /\ <<o, b>> \in done /\ o \notin finished
         => blocks[o][b] = placed[o][b] + 1
    /\ o \in standing' /\ ~ (<<o, b>> \in done /\ o \notin finished)
         => blocks[o][b] = placed[o][b]

\* The sites then.
LandsOf(s, done) ==
  /\ s \in Sites /\ LeftBy(s.placed, done)
  /\ s.finished \subseteq standing' /\ finished \cap standing' \subseteq s.finished
  /\ \A o \in s.finished \ finished :
       \A b \in BlocksOf(o) : s.placed[o][b] > 0

LEMMA AddBlockType ==
  ASSUME NEW s \in Sites, NEW o \in Objects, NEW b \in Block
  PROVE  AddBlock(s, o, b) \in Sites
<1> DEFINE blocks == [s.placed[o] EXCEPT ![b] = s.placed[o][b] + 1]
           more   == IF Complete(blocks, o) THEN {o} ELSE {}
<1>1. /\ s.placed \in [Objects -> [Block -> Nat]]
      /\ s.finished \in SUBSET Objects
  BY DEF Sites
<1>2. blocks \in [Block -> Nat]
  BY <1>1
<1>3. AddBlock(s, o, b) =
        IF o \notin standing' \ s.finished
          THEN s
          ELSE [placed   |-> [s.placed EXCEPT ![o] = blocks],
                finished |-> s.finished \cup more]
  BY DEF AddBlock
<1>4. more \subseteq Objects
  OBVIOUS
<1> HIDE DEF blocks, more
<1>5. [s.placed EXCEPT ![o] = blocks] \in [Objects -> [Block -> Nat]]
  BY <1>1, <1>2
<1> QED BY <1>1, <1>3, <1>4, <1>5 DEF Sites

\* One more flight: a building that is finished by others of this tick does
\* not lack its block, so none that was sent is turned away.
LEMMA AddBlockLands ==
  ASSUME ConInv, NEW done, NEW s, LandsOf(s, done), standing' \subseteq Objects,
         NEW o \in Objects, NEW b \in Block,
         <<o, b>> \in Flights, <<o, b>> \notin done
  PROVE  LandsOf(AddBlock(s, o, b), done \cup {<<o, b>>})
<1> DEFINE t      == AddBlock(s, o, b)
           blocks == [s.placed[o] EXCEPT ![b] = s.placed[o][b] + 1]
<1>1. /\ s.placed \in [Objects -> [Block -> Nat]]
      /\ s.finished \in SUBSET Objects /\ s \in Sites
      /\ s.finished \subseteq standing'
      /\ finished \cap standing' \subseteq s.finished
  BY DEF LandsOf, Sites
<1>2. t \in Sites
  BY <1>1, AddBlockType
<1>3. /\ placed[o][b] = 0 /\ b \in BlocksOf(o)
      /\ \A x \in Objects, y \in Block : placed[x][y] \in Nat
  <2>1. /\ flying[o][b] > 0 /\ flying[o][b] \in Nat
        /\ \A x \in Objects, y \in Block : placed[x][y] \in Nat
    BY DEF ConInv, TypeOK, Flights
  <2>2. placed[o][b] + flying[o][b] <= 1 /\ b \in BlocksOf(o)
    BY <2>1 DEF ConInv, NoBlockTwice, Whole
  <2> QED BY <2>1, <2>2
<1>4. CASE o \notin standing' \ s.finished
  <2>1. t = s
    BY <1>4 DEF AddBlock
  <2>2. o \in standing' => o \in finished
    <3> SUFFICES ASSUME o \in standing', o \notin finished PROVE FALSE
      OBVIOUS
    <3>1. s.placed[o][b] > 0
      BY <1>3, <1>4 DEF LandsOf
    <3>2. s.placed[o][b] = placed[o][b]
      BY DEF LandsOf, LeftBy
    <3> QED BY <1>3, <3>1, <3>2
  <2>3. ASSUME NEW x \in Objects, NEW y \in Block,
               x \in standing', x \notin finished
        PROVE  <<x, y>> \in done \cup {<<o, b>>} <=> <<x, y>> \in done
    BY <2>2, <2>3
  <2>4. LandsOf(s, done \cup {<<o, b>>})
    <3> DEFINE more == done \cup {<<o, b>>}
    <3> HIDE DEF more
    <3>1. LeftBy(s.placed, more)
      BY <2>3 DEF LandsOf, LeftBy, more
    <3>2. LandsOf(s, more)
      BY <3>1 DEF LandsOf
    <3> QED BY <3>2 DEF more
  <2> QED BY <2>1, <2>4
<1>5. CASE o \in standing' \ s.finished
  <2>1. /\ t.placed = [s.placed EXCEPT ![o] = blocks]
        /\ t.finished = s.finished \cup (IF Complete(blocks, o) THEN {o} ELSE {})
    BY <1>5 DEF AddBlock
  <2> HIDE DEF t
  <2>2. blocks \in [Block -> Nat] /\ blocks[b] = s.placed[o][b] + 1
        /\ \A y \in Block : y # b => blocks[y] = s.placed[o][y]
    BY <1>1
  <2> HIDE DEF blocks
  <2>3. /\ t.placed[o] = blocks
        /\ \A x \in Objects : x # o => t.placed[x] = s.placed[x]
    BY <1>1, <2>1
  <2>4. o \notin finished
    BY <1>1, <1>5
  <2>5. /\ t.finished \subseteq standing'
        /\ finished \cap standing' \subseteq t.finished
    BY <1>1, <1>5, <2>1
  <2>6. ASSUME NEW x \in Objects, NEW y \in Block
        PROVE  /\ x \notin standing' => t.placed[x][y] = 0
               /\ x \in standing' /\ <<x, y>> \in done \cup {<<o, b>>}
                    /\ x \notin finished
                    => t.placed[x][y] = placed[x][y] + 1
               /\ x \in standing'
                    /\ ~ (<<x, y>> \in done \cup {<<o, b>>} /\ x \notin finished)
                    => t.placed[x][y] = placed[x][y]
    <3>1. /\ x \notin standing' => s.placed[x][y] = 0
          /\ x \in standing' /\ <<x, y>> \in done /\ x \notin finished
               => s.placed[x][y] = placed[x][y] + 1
          /\ x \in standing' /\ ~ (<<x, y>> \in done /\ x \notin finished)
               => s.placed[x][y] = placed[x][y]
      BY DEF LandsOf, LeftBy
    <3>2. CASE x = o /\ y = b
      BY <1>5, <2>2, <2>3, <2>4, <3>1, <3>2
    <3>3. CASE ~ (x = o /\ y = b)
      <4>1. t.placed[x][y] = s.placed[x][y]
        BY <2>2, <2>3, <3>3
      <4>2. <<x, y>> \in done \cup {<<o, b>>} <=> <<x, y>> \in done
        BY <3>3
      <4> QED BY <3>1, <4>1, <4>2
    <3> QED BY <3>2, <3>3
  <2>7. ASSUME NEW x \in t.finished \ finished, NEW y \in BlocksOf(x)
        PROVE  t.placed[x][y] > 0
    <3>1. CASE x = o
      <4>1. Complete(blocks, o)
        BY <1>5, <2>1, <3>1
      <4> QED BY <2>3, <3>1, <4>1 DEF Complete
    <3>2. CASE x # o
      <4>1. x \in s.finished \ finished /\ x \in Objects
        BY <1>1, <2>1, <3>2
      <4> QED BY <2>3, <3>2, <4>1 DEF LandsOf
    <3> QED BY <3>1, <3>2
  <2>8. LeftBy(t.placed, done \cup {<<o, b>>})
    BY <2>6 DEF LeftBy
  <2> QED BY <1>2, <2>5, <2>7, <2>8 DEF LandsOf, t
<1> QED BY <1>4, <1>5
\* What the flights land on at first.
Unlanded ==
  [placed   |-> [o \in Objects |-> IF o \in standing'
                                    THEN placed[o] ELSE [b \in Block |-> 0]],
   finished |-> finished \cap standing']

LEMMA UnlandedLands ==
  ASSUME TypeOK, standing' \subseteq Objects
  PROVE  LandsOf(Unlanded, {})
<1>1. Unlanded \in Sites
  BY DEF Unlanded, Sites, TypeOK
<1> QED BY <1>1 DEF LandsOf, LeftBy, Unlanded

\* All flights that end in a tick land, in whatever order.
LEMMA LandingsLand ==
  ASSUME ConInv, standing' \subseteq Objects,
         NEW landed \in SUBSET Flights, NEW order \in SetToSeqs(landed)
  PROVE  LandsOf(Landings(order), landed)
<1> DEFINE n     == Len(order)
           Done1(i) == {order[j] : j \in 1 .. i}
           pass  == [i \in 1 .. n |-> [s \in Sites |->
                       AddBlock(s, order[i][1], order[i][2])]]
           after == CHOOSE g : g = [i \in 0 .. n |->
                      IF i = 0 THEN Unlanded
                               ELSE AddBlock(g[i - 1], order[i][1], order[i][2])]
<1>1. Landings(order) = after[n]
  BY DEF Landings, Unlanded
<1>2. /\ n \in Nat
      /\ \A i \in 1 .. n : order[i] \in landed
      /\ \A i, j \in 1 .. n : order[i] = order[j] => i = j
      /\ \A x \in landed : \E i \in 1 .. n : order[i] = x
  <2>1. IsFiniteSet(landed)
    <3>1. IsFiniteSet(Objects) /\ IsFiniteSet(Block)
      BY PlayersAssumption, TypesAssumption, FS_Interval DEF Objects, Block
    <3>2. IsFiniteSet(Objects \X Block)
      BY <3>1, FS_Product
    <3>3. landed \in SUBSET (Objects \X Block)
      BY DEF Flights
    <3> QED BY <3>2, <3>3, FS_Subset
  <2> QED BY <2>1, InSomeOrder
<1>3. ASSUME NEW i \in 1 .. n
      PROVE  /\ order[i] = <<order[i][1], order[i][2]>> /\ order[i] \in Flights
             /\ order[i][1] \in Objects /\ order[i][2] \in Block
  BY <1>2 DEF Flights
<1> HIDE DEF n
<1>4. Unlanded \in Sites /\ LandsOf(Unlanded, {})
  BY UnlandedLands DEF LandsOf, ConInv
<1>5. PICK h : Computes(n, Sites, Unlanded, pass, h)
  <2>1. pass \in [1 .. n -> [Sites -> Sites]]
    BY <1>3, AddBlockType
  <2>2. IsLoop(n, Sites, Unlanded, pass)
    BY <1>2, <1>4, <2>1 DEF IsLoop
  <2> HIDE DEF pass
  <2> QED BY <2>2, LoopRuns
<1>6. \A i \in 1 .. n : h[i] = AddBlock(h[i - 1], order[i][1], order[i][2])
  <2> SUFFICES ASSUME NEW i \in 1 .. n
               PROVE  h[i] = AddBlock(h[i - 1], order[i][1], order[i][2])
    OBVIOUS
  <2>1. i - 1 \in 0 .. n
    BY <1>2
  <2>2. h[i - 1] \in Sites /\ h[i] = pass[i][h[i - 1]]
    BY <1>5, <2>1 DEF Computes
  <2> QED BY <2>2
<1>7. h = [i \in 0 .. n |->
             IF i = 0 THEN Unlanded
                      ELSE AddBlock(h[i - 1], order[i][1], order[i][2])]
  <2>1. \A i \in 0 .. n : i = 0 \/ i \in 1 .. n
    BY <1>2
  <2> HIDE DEF pass
  <2> QED BY <1>5, <1>6, <2>1 DEF Computes
<1>8. after = [i \in 0 .. n |->
                 IF i = 0 THEN Unlanded
                          ELSE AddBlock(after[i - 1], order[i][1], order[i][2])]
  BY <1>7
<1> HIDE DEF after, pass
<1>9. /\ after[0] = Unlanded
      /\ \A i \in 1 .. n :
           after[i] = AddBlock(after[i - 1], order[i][1], order[i][2])
  <2>1. 0 \in 0 .. n /\ \A i \in 1 .. n : i \in 0 .. n /\ i # 0
    BY <1>2
  <2> QED BY <1>8, <2>1
<1> DEFINE S == {i \in 0 .. n : LandsOf(after[i], Done1(i))}
<1>10. 0 \in S
  <2>1. Done1(0) = {} /\ 0 \in 0 .. n
    BY <1>2
  <2> QED BY <1>4, <1>9, <2>1
<1>11. ASSUME NEW i \in 1 .. n, i - 1 \in S
       PROVE  i \in S
  <2>1. LandsOf(after[i - 1], Done1(i - 1)) /\ i \in 0 .. n
    BY <1>2, <1>11
  <2>2. order[i] \notin Done1(i - 1)
    <3>1. \A j \in 1 .. (i - 1) : j \in 1 .. n /\ j # i
      BY <1>2
    <3> QED BY <1>2, <3>1
  <2>3. Done1(i) = Done1(i - 1) \cup {order[i]}
    <3>1. \A j : j \in 1 .. i <=> j = i \/ j \in 1 .. (i - 1)
      BY <1>2
    <3> QED BY <3>1
  <2> HIDE DEF Done1
  <2>4. LandsOf(AddBlock(after[i - 1], order[i][1], order[i][2]),
                Done1(i - 1) \cup {<<order[i][1], order[i][2]>>})
    BY <1>3, <2>1, <2>2, AddBlockLands
  <2> QED BY <1>3, <1>9, <2>1, <2>3, <2>4
<1>12. n \in S
  <2>1. n \in 0 .. n
    BY <1>2
  <2> HIDE DEF S
  <2> QED BY <1>2, <1>10, <1>11, <2>1, LoopInduction
<1>13. Done1(n) = landed
  BY <1>2
<1> QED BY <1>1, <1>12, <1>13

\* The blocks placed after a tick are those of before and those that landed on
\* a building that stands and had not been finished, and a building is finished
\* when it lacks none.
LEMMA Landed ==
  ASSUME ConInv, NEW landed \in SUBSET Flights, Land(landed),
         standing' \subseteq Objects
  PROVE  /\ placed' \in [Objects -> [Block -> Nat]]
         /\ \A o \in Objects, b \in Block :
              /\ o \notin standing' => placed'[o][b] = 0
              /\ o \in standing' /\ <<o, b>> \in landed /\ o \notin finished
                   => placed'[o][b] = placed[o][b] + 1
              /\ o \in standing' /\ ~ (<<o, b>> \in landed /\ o \notin finished)
                   => placed'[o][b] = placed[o][b]
         /\ finished' \subseteq standing' /\ finished \cap standing' \subseteq finished'
         /\ \A o \in finished' \ finished :
              \A b \in BlocksOf(o) : placed'[o][b] > 0
<1>1. PICK order \in SetToSeqs(landed) :
        placed' = Landings(order).placed /\ finished' = Landings(order).finished
  BY DEF Land
<1>2. LandsOf(Landings(order), landed)
  BY LandingsLand
<1> QED BY <1>1, <1>2 DEF LandsOf, LeftBy, Sites

\* The state in which the loop of the main buildings starts has its types.
LEMMA StartTypes ==
  ASSUME ConInv, UNCHANGED <<created, type>>,
         NEW gone \in SUBSET standing, Destroy(gone),
         NEW landed \in SUBSET Flights, Land(landed)
  PROVE  TickTypes
<1>1. TypeOK
  BY DEF ConInv
<1>2. standing' \subseteq Objects /\ standing' \subseteq standing
  BY <1>1 DEF TypeOK, Destroy
<1>3. finished' \subseteq standing'
  BY <1>2, Landed
<1>4. dropped' \subseteq Objects
  <2>1. ASSUME NEW m \in gone
        PROVE  Range(buildQueue[m]) \subseteq Objects
    <3>1. buildQueue[m] \in Seq(Objects)
      BY <1>1 DEF TypeOK
    <3> QED BY <3>1 DEF Range
  <2> QED BY <1>1, <2>1 DEF TypeOK, Destroy
<1>5. placed' \in [Objects -> [Block -> Nat]]
  BY <1>1, <1>2, Landed
<1>6. \A o \in standing' : o <= created
  BY <1>1, <1>2, PlayersAssumption DEF ConInv, Fresh, TypeOK, Objects
<1> QED BY <1>1, <1>2, <1>3, <1>4, <1>5, <1>6 DEF TickTypes, TypeOK

\* The loop invariant holds at the start of the loop.
LEMMA StartSound ==
  ASSUME ConInv, UNCHANGED <<created, type>>,
         NEW gone \in SUBSET standing, Destroy(gone),
         NEW landed \in SUBSET Flights, Land(landed)
  PROVE  Sound(Start(landed), StillFlying(landed))
<1> DEFINE s == Start(landed)
           f == StillFlying(landed)
<1>1. TypeOK /\ TickTypes
  BY StartTypes DEF ConInv
<1>2. /\ s.flying = f /\ s.since = [m \in Objects |->
                                     Min({sinceLaunch[m] + 1, BuildSpeed})]
      /\ s.queue = [m \in Objects |->
                      IF m \in standing' THEN buildQueue[m] ELSE << >>]
      /\ s = [queue |-> s.queue, flying |-> s.flying, since |-> s.since]
  BY DEF Start
<1> HIDE DEF s
<1>3. ASSUME NEW m \in Objects
      PROVE  /\ s.queue[m] \in Seq(Objects)
             /\ m \in standing' => s.queue[m] = buildQueue[m]
             /\ Range(s.queue[m]) \subseteq Range(buildQueue[m])
  <2>1. CASE m \in standing'
    BY <1>1, <1>2, <2>1 DEF TypeOK
  <2>2. CASE m \notin standing'
    <3>1. s.queue[m] = << >> /\ Range(<< >>) = {}
      BY <1>2, <2>2 DEF Range
    <3> QED BY <2>2, <3>1
  <2> QED BY <2>1, <2>2
<1>4. ASSUME NEW m \in Objects
      PROVE  s.since[m] \in 0 .. BuildSpeed
  <2> DEFINE a == sinceLaunch[m] + 1
             T == {a, BuildSpeed}
  <2>1. a \in Nat /\ BuildSpeed \in Nat
    BY <1>1, BuildSpeedAssumption DEF TypeOK
  <2>2. s.since[m] = Min(T)
    BY <1>2
  <2>3. T \in SUBSET Nat /\ T # {} /\ BuildSpeed \in T
    BY <2>1
  <2> HIDE DEF T
  <2>4. Min(T) \in Nat /\ Min(T) <= BuildSpeed
    BY <2>3, NextNeeded
  <2> QED BY <2>1, <2>2, <2>4
<1>5. s \in Sends
  <2>1. s.queue \in [Objects -> Seq(Objects)]
    BY <1>2, <1>3
  <2>2. s.since \in [Objects -> 0 .. BuildSpeed]
    BY <1>2, <1>4
  <2>3. s.flying \in [Objects -> [Block -> Nat]]
    BY <1>1, <1>2, Flown
  <2> QED BY <1>2, <2>1, <2>2, <2>3 DEF Sends
<1> HIDE DEF f
<1>6. ASSUME NEW o \in Objects, NEW b \in Block
      PROVE  /\ placed[o][b] \in Nat /\ flying[o][b] \in Nat
             /\ f[o][b] \in Nat /\ f[o][b] <= flying[o][b]
             /\ placed'[o][b] \in Nat
             /\ placed'[o][b] + f[o][b] <= placed[o][b] + flying[o][b]
             /\ o \in standing' \ finished =>
                  placed'[o][b] + f[o][b] = placed[o][b] + flying[o][b]
  <2>1. /\ placed[o][b] \in Nat /\ flying[o][b] \in Nat
        /\ f[o][b] \in Nat
        /\ <<o, b>> \in landed => flying[o][b] = f[o][b] + 1
        /\ <<o, b>> \notin landed => flying[o][b] = f[o][b]
    <3>1. placed[o][b] \in Nat /\ flying[o][b] \in Nat
      BY <1>1 DEF TypeOK
    <3>2. /\ f \in [Objects -> [Block -> Nat]]
          /\ <<o, b>> \in landed => flying[o][b] = f[o][b] + 1
          /\ <<o, b>> \notin landed => flying[o][b] = f[o][b]
      BY <1>1, Flown DEF f
    <3> QED BY <3>1, <3>2
  <2>2. /\ placed'[o][b] \in Nat
        /\ o \notin standing' => placed'[o][b] = 0
        /\ o \in standing' /\ <<o, b>> \in landed /\ o \notin finished
             => placed'[o][b] = placed[o][b] + 1
        /\ o \in standing' /\ ~ (<<o, b>> \in landed /\ o \notin finished)
             => placed'[o][b] = placed[o][b]
    BY <1>1, Landed DEF TickTypes
  <2> QED BY <2>1, <2>2
<1>7. ASSUME NEW o \in standing' \ (finished' \cup dropped')
      PROVE  \/ \E m \in standing' : o \in Range(s.queue[m])
             \/ \A b \in BlocksOf(o) : placed'[o][b] + f[o][b] > 0
  <2>1. o \in standing /\ o \notin finished /\ o \notin dropped /\ o \in Objects
    <3>1. finished \cap standing' \subseteq finished'
      BY <1>1, Landed DEF TickTypes
    <3> QED BY <1>1, <1>7, <3>1 DEF Destroy, TypeOK
  <2>2. CASE Queued(o)
    <3>1. PICK m \in standing : o \in Range(buildQueue[m])
      BY <2>2 DEF Queued
    <3>2. m \in standing'
      BY <1>7, <3>1 DEF Destroy
    <3>3. m \in Objects
      BY <1>1 DEF TypeOK
    <3> QED BY <1>3, <3>1, <3>2, <3>3
  <2>3. CASE \A b \in BlocksOf(o) : placed[o][b] + flying[o][b] > 0
    <3>1. BlocksOf(o) \subseteq Block
      BY <1>1, <2>1, TypesAssumption DEF TypeOK, BlocksOf, Block
    <3>2. ASSUME NEW b \in BlocksOf(o)
          PROVE  placed'[o][b] + f[o][b] > 0
      BY <1>6, <1>7, <2>1, <2>3, <3>1
    <3> QED BY <3>2
  <2>4. Queued(o) \/ \A b \in BlocksOf(o) : placed[o][b] + flying[o][b] > 0
    BY <2>1 DEF ConInv, NotForgotten
  <2> QED BY <2>2, <2>3, <2>4
<1>8. ASSUME NEW o \in Objects, o > created
      PROVE  /\ \A b \in Block : f[o][b] = 0
             /\ \A m \in Objects : o \notin Range(s.queue[m])
  <2>1. /\ \A b \in Block : flying[o][b] = 0
        /\ \A m \in Objects : o \notin Range(buildQueue[m])
    BY <1>8 DEF ConInv, Fresh
  <2>2. ASSUME NEW b \in Block
        PROVE  f[o][b] = 0
    <3>1. f[o][b] \in Nat /\ f[o][b] <= flying[o][b] /\ flying[o][b] = 0
      BY <1>6, <2>1
    <3> QED BY <3>1
  <2>3. ASSUME NEW m \in Objects
        PROVE  o \notin Range(s.queue[m])
    BY <1>3, <2>1
  <2> QED BY <2>2, <2>3
<1>9. ASSUME NEW o \in Objects, NEW b \in Block
      PROVE  /\ placed'[o][b] + f[o][b] <= 1
             /\ f[o][b] > 0 => b \in BlocksOf(o)
  <2>1. /\ placed[o][b] + flying[o][b] <= 1
        /\ flying[o][b] > 0 => b \in BlocksOf(o)
    BY DEF ConInv, NoBlockTwice, Whole
  <2> QED BY <1>6, <2>1
<1>10. \A m \in Objects : m \notin Range(s.queue[m])
  BY <1>3 DEF ConInv, NoneBuildsItself
<1>11. \A o \in Objects, b \in Block : f[o][b] >= f[o][b]
  BY <1>6
<1>12. Sound(s, f)
  BY <1>2, <1>5, <1>7, <1>8, <1>9, <1>10, <1>11 DEF Sound, f
<1> QED BY <1>12 DEF s, f

\* What was sent arrives.
Arrived ==
  \A o \in standing \cap standing', b \in Block :
    placed'[o][b] + flying'[o][b] >= placed[o][b] + flying[o][b]

\* A tick preserves the invariant, and every block that lands arrives.
LEMMA TickStep ==
  ASSUME ConInv, Tick(SUBSET Flights)
  PROVE  ConInv' /\ Arrived
<1>1. PICK gone \in SUBSET standing : Destroy(gone)
  BY DEF Tick
<1>2. PICK landed \in SUBSET Flights :
        Land(landed) /\ \E order \in SetToSeqs(MainBuildings') :
                          SendBlocks(order, landed)
  BY DEF Tick
<1>3. PICK order \in SetToSeqs(MainBuildings') : SendBlocks(order, landed)
  BY <1>2
<1>4. UNCHANGED <<created, type>>
  BY DEF Tick
<1> DEFINE f == StillFlying(landed)
           s == Turns(order, Start(landed))
<1>5. TypeOK /\ TickTypes
  BY <1>1, <1>2, <1>4, StartTypes DEF ConInv
<1>6. f \in [Objects -> [Block -> Nat]]
  BY <1>5, Flown
<1>7. MainBuildings' \in SUBSET Objects
  BY <1>5 DEF MainBuildings, TickTypes
<1>8. Sound(s, f)
  <2>1. Len(order) \in Nat /\ \A i \in 1 .. Len(order) : order[i] \in Objects
    <3> DEFINE T == MainBuildings'
    <3>1. T \in SUBSET Objects /\ order \in SetToSeqs(T)
      BY <1>3, <1>7
    <3> HIDE DEF T
    <3> QED BY <3>1, OrderType
  <2>2. Sound(Start(landed), f)
    BY <1>1, <1>2, <1>4, StartSound
  <2> HIDE DEF f
  <2> QED BY <1>5, <1>6, <2>1, <2>2, TurnsSound
<1>9. buildQueue' = s.queue /\ flying' = s.flying /\ sinceLaunch' = s.since
  BY <1>3 DEF SendBlocks, Start
<1> HIDE DEF s
<1>10. TypeOK'
  <2>1. /\ buildQueue' \in [Objects -> Seq(Objects)]
        /\ flying' \in [Objects -> [Block -> Nat]]
        /\ sinceLaunch' \in [Objects -> 0 .. BuildSpeed]
    BY <1>8, <1>9 DEF Sound, Sends
  <2>2. flooded' \subseteq Objects /\ floods' \in Nat
    <3>1. PICK wet \in SUBSET MainBuildings' : Soak(wet)
      BY DEF Tick
    <3> QED BY <1>5, <1>7, <3>1 DEF Soak, TypeOK
  <2> QED BY <1>4, <1>5, <2>1, <2>2 DEF TypeOK, TickTypes
<1>11. Fresh'
  <2> SUFFICES ASSUME NEW o \in Objects, o > created
               PROVE  /\ o \notin standing'
                      /\ \A b \in Block : placed'[o][b] = 0 /\ flying'[o][b] = 0
                      /\ \A m \in Objects : o \notin Range(buildQueue'[m])
    BY <1>4 DEF Fresh
  <2>1. o \notin standing'
    BY <1>1, <1>5 DEF Destroy, ConInv, Fresh
  <2>2. \A b \in Block : placed'[o][b] = 0
    BY <1>2, <1>5, <2>1, Landed DEF TickTypes
  <2> QED BY <1>8, <1>9, <2>1, <2>2 DEF Sound
<1>12. Whole'
  <2>1. \A o : BlocksOf(o)' = BlocksOf(o)
    BY <1>4 DEF BlocksOf
  <2>2. ASSUME NEW o \in finished', NEW b \in BlocksOf(o)
        PROVE  placed'[o][b] > 0
    <3>1. o \in Objects /\ o \in standing'
      BY <1>5 DEF TickTypes
    <3>2. b \in Block
      BY <1>5, <3>1, TypesAssumption DEF TickTypes, BlocksOf, Block
    <3>3. CASE o \in finished
      <4>1. placed[o][b] > 0
        BY <3>3 DEF ConInv, Whole
      <4> QED BY <1>2, <1>5, <3>1, <3>2, <3>3, <4>1, Landed DEF TickTypes
    <3>4. CASE o \notin finished
      <4>1. b \in BlocksOf(o)'
        BY <2>1
      <4> QED BY <1>2, <1>5, <2>2, <3>4, Landed DEF TickTypes
    <3> QED BY <3>3, <3>4
  <2>3. \A o \in Objects, b \in Block : flying'[o][b] > 0 => b \in BlocksOf(o)
    BY <1>8, <1>9 DEF Sound
  <2> QED BY <2>1, <2>2, <2>3 DEF Whole
<1>13. NoBlockTwice' /\ NoneBuildsItself'
  BY <1>8, <1>9 DEF Sound, NoBlockTwice, NoneBuildsItself
<1>14. NotForgotten'
  <2>1. \A o : BlocksOf(o)' = BlocksOf(o)
    BY <1>4 DEF BlocksOf
  <2>2. ASSUME NEW o \in standing' \ (finished' \cup dropped')
        PROVE  \/ \E m \in standing' : o \in Range(buildQueue'[m])
               \/ \A b \in BlocksOf(o) : placed'[o][b] + flying'[o][b] > 0
    BY <1>8, <1>9, <2>2 DEF Sound
  <2> QED BY <2>1, <2>2 DEF NotForgotten, Queued
<1>15. ASSUME NEW o \in standing \cap standing', NEW b \in Block
       PROVE  placed'[o][b] + flying'[o][b] >= placed[o][b] + flying[o][b]
  <2>1. o \in Objects
    BY <1>5 DEF TypeOK
  <2>2. /\ flying'[o][b] \in Nat /\ f[o][b] \in Nat /\ flying'[o][b] >= f[o][b]
    BY <1>6, <1>8, <1>9, <2>1 DEF Sound, Sends
  <2>3. /\ placed[o][b] \in Nat /\ flying[o][b] \in Nat
        /\ placed[o][b] + flying[o][b] <= 1
        /\ flying[o][b] > 0 => b \in BlocksOf(o)
    BY <1>5, <2>1 DEF TypeOK, ConInv, NoBlockTwice, Whole
  <2>4. /\ <<o, b>> \in landed => flying[o][b] = f[o][b] + 1
        /\ <<o, b>> \notin landed => flying[o][b] = f[o][b]
    BY <1>5, <2>1, Flown
  <2>5. /\ <<o, b>> \in landed /\ o \notin finished
             => placed'[o][b] = placed[o][b] + 1
        /\ ~ (<<o, b>> \in landed /\ o \notin finished)
             => placed'[o][b] = placed[o][b]
    BY <1>2, <1>5, <2>1, Landed DEF TickTypes
  <2>6. o \in finished => flying[o][b] = 0
    <3>1. o \in finished /\ b \in BlocksOf(o) => placed[o][b] > 0
      BY DEF ConInv, Whole
    <3> QED BY <2>3, <3>1
  <2> HIDE DEF f
  <2> QED BY <2>2, <2>3, <2>4, <2>5, <2>6
<1>16. Arrived
  BY <1>15 DEF Arrived
<1>17. ConInv'
  BY <1>10, <1>11, <1>12, <1>13, <1>14 DEF ConInv
<1> QED BY <1>16, <1>17
-----------------------------------------------------------------------------
(* Orders *)

\* Orders to build preserve the invariant.
LEMMA BuildStep ==
  ASSUME ConInv, NEW m \in standing, NEW t \in Types, Build(m, t)
  PROVE  ConInv'
<1> DEFINE site == created + 1
<1>1. /\ TypeOK /\ created \in Nat /\ m \in Objects
      /\ buildQueue \in [Objects -> Seq(Objects)]
  BY DEF ConInv, TypeOK
<1>2. site \in Objects /\ site > created
  BY <1>1, PlayersAssumption DEF Build, Objects
<1>3. /\ created' = site
      /\ type' = [type EXCEPT ![site] = t]
      /\ standing' = standing \cup {site}
      /\ buildQueue' = [buildQueue EXCEPT ![m] = Append(buildQueue[m], site)]
      /\ UNCHANGED <<finished, placed, flying, sinceLaunch, flooded, floods,
                     dropped>>
  BY DEF Build
<1>4. /\ site \notin standing
      /\ \A b \in Block : flying[site][b] = 0
      /\ \A n \in Objects : site \notin Range(buildQueue[n])
  BY <1>2 DEF ConInv, Fresh
<1>5. m # site
  BY <1>4
<1> HIDE DEF site
<1>6. /\ buildQueue' \in [Objects -> Seq(Objects)]
      /\ \A x : x \in Range(buildQueue'[m]) <=>
                  x = site \/ x \in Range(buildQueue[m])
      /\ \A n \in Objects \ {m} : buildQueue'[n] = buildQueue[n]
  <2> DEFINE q == buildQueue[m]
             r == Append(q, site)
  <2>1. q \in Seq(Objects)
    BY <1>1
  <2> HIDE DEF q
  <2>2. r \in Seq(Objects) /\ \A x : x \in Range(r) <=> x = site \/ x \in Range(q)
    BY <1>2, <2>1, AppendRange
  <2>3. buildQueue' = [buildQueue EXCEPT ![m] = r]
    BY <1>3 DEF q
  <2> HIDE DEF r
  <2> QED BY <1>1, <2>2, <2>3 DEF q
<1>7. \A x \in Objects \ {site} : BlocksOf(x)' = BlocksOf(x)
  BY <1>1, <1>3 DEF TypeOK, BlocksOf
<1>8. TypeOK'
  <2>1. type' \in [Objects -> Types] /\ created' \in Nat
    <3>1. type' \in [Objects -> Types]
      BY <1>1, <1>3 DEF TypeOK
    <3>2. created' \in Nat
      BY <1>1, <1>3 DEF site
    <3> QED BY <3>1, <3>2
  <2>2. standing' \subseteq Objects /\ finished' \subseteq standing'
    BY <1>1, <1>2, <1>3 DEF TypeOK
  <2>3. /\ floods' \in Nat /\ flooded' \subseteq Objects
        /\ dropped' \subseteq Objects
        /\ placed' \in [Objects -> [Block -> Nat]]
        /\ flying' \in [Objects -> [Block -> Nat]]
        /\ sinceLaunch' \in [Objects -> 0 .. BuildSpeed]
    BY <1>1, <1>3 DEF TypeOK
  <2> QED BY <1>6, <2>1, <2>2, <2>3 DEF TypeOK
<1>9. Fresh'
  <2>1. ASSUME NEW o \in Objects, o > site
        PROVE  /\ o \notin standing' /\ o # site
               /\ \A b \in Block : placed'[o][b] = 0 /\ flying'[o][b] = 0
               /\ \A n \in Objects : o \notin Range(buildQueue'[n])
    <3>1. o > created /\ o # site
      BY <1>1, <2>1, PlayersAssumption DEF site, Objects
    <3>2. /\ o \notin standing
          /\ \A b \in Block : placed[o][b] = 0 /\ flying[o][b] = 0
          /\ \A n \in Objects : o \notin Range(buildQueue[n])
      BY <3>1 DEF ConInv, Fresh
    <3>3. \A n \in Objects : o \notin Range(buildQueue'[n])
      BY <1>6, <3>1, <3>2
    <3> QED BY <1>3, <3>1, <3>2, <3>3
  <2> QED BY <1>3, <2>1 DEF Fresh
<1>10. Whole'
  <2>1. ASSUME NEW o \in Objects, NEW b \in Block, flying'[o][b] > 0
        PROVE  b \in BlocksOf(o)'
    <3>1. o # site /\ flying[o][b] > 0
      BY <1>3, <1>4, <2>1
    <3>2. b \in BlocksOf(o)
      BY <3>1 DEF ConInv, Whole
    <3> QED BY <1>7, <3>1, <3>2
  <2>2. ASSUME NEW o \in finished'
        PROVE  \A b \in BlocksOf(o)' : placed'[o][b] > 0
    <3>1. o \in finished /\ o \in Objects /\ o # site
      BY <1>1, <1>3, <1>4 DEF TypeOK
    <3>2. \A b \in BlocksOf(o) : placed[o][b] > 0
      BY <3>1 DEF ConInv, Whole
    <3> QED BY <1>3, <1>7, <3>1, <3>2
  <2> QED BY <2>1, <2>2 DEF Whole
<1>11. NoBlockTwice'
  BY <1>3 DEF ConInv, NoBlockTwice
<1>12. NoneBuildsItself'
  BY <1>5, <1>6 DEF ConInv, NoneBuildsItself
<1>13. NotForgotten'
  <2> SUFFICES ASSUME NEW o \in standing' \ (finished' \cup dropped')
               PROVE  \/ \E n \in standing' : o \in Range(buildQueue'[n])
                      \/ \A b \in BlocksOf(o)' : placed'[o][b] + flying'[o][b] > 0
    BY DEF NotForgotten, Queued
  <2>1. CASE o = site
    BY <1>3, <1>6, <2>1
  <2>2. CASE o # site
    <3>1. o \in standing \ (finished \cup dropped) /\ o \in Objects
      BY <1>1, <1>3, <2>2 DEF TypeOK
    <3>2. \/ \E n \in standing : o \in Range(buildQueue[n])
          \/ \A b \in BlocksOf(o) : placed[o][b] + flying[o][b] > 0
      BY <3>1 DEF ConInv, NotForgotten, Queued
    <3>3. ASSUME NEW n \in standing, o \in Range(buildQueue[n])
          PROVE  n \in standing' /\ o \in Range(buildQueue'[n])
      BY <1>1, <1>3, <1>6, <3>3 DEF TypeOK
    <3>4. BlocksOf(o)' = BlocksOf(o)
      BY <1>7, <2>2, <3>1
    <3> QED BY <1>3, <3>2, <3>3, <3>4
  <2> QED BY <2>1, <2>2
<1> QED BY <1>8, <1>9, <1>10, <1>11, <1>12, <1>13 DEF ConInv

\* A site o comes into the queue of a main building m; the sites that leave it
\* are dropped.
LEMMA QueueStep ==
  ASSUME ConInv, NEW m \in finished, NEW o \in standing \ finished,
         NEW q \in Seq(Objects),
         buildQueue' = [buildQueue EXCEPT ![m] = q],
         o \in Range(q),
         \A x \in Range(q) : x = o \/ x \in Range(buildQueue[m]),
         \A x \in Range(buildQueue[m]) : x \in Range(q) \/ x \in dropped',
         \A x \in dropped : x = o \/ x \in dropped',
         dropped' \subseteq Objects,
         UNCHANGED <<created, type, standing, finished, placed, flying,
                     sinceLaunch, flooded, floods>>
  PROVE  ConInv'
<1>1. /\ TypeOK /\ m \in Objects /\ o \in Objects /\ m # o /\ m \in standing
      /\ standing \subseteq Objects /\ created \in Nat
  BY DEF ConInv, TypeOK
<1>2. /\ buildQueue' \in [Objects -> Seq(Objects)]
      /\ buildQueue'[m] = q
      /\ \A n \in Objects \ {m} : buildQueue'[n] = buildQueue[n]
  BY <1>1 DEF TypeOK
<1>3. \A x : BlocksOf(x)' = BlocksOf(x)
  BY DEF BlocksOf
<1>4. TypeOK'
  <2>1. /\ created' \in Nat /\ floods' \in Nat /\ type' \in [Objects -> Types]
        /\ standing' \subseteq Objects /\ finished' \subseteq standing'
        /\ flooded' \subseteq Objects
    BY <1>1 DEF TypeOK
  <2>2. /\ placed' \in [Objects -> [Block -> Nat]]
        /\ flying' \in [Objects -> [Block -> Nat]]
        /\ sinceLaunch' \in [Objects -> 0 .. BuildSpeed]
    BY <1>1 DEF TypeOK
  <2> QED BY <1>2, <2>1, <2>2 DEF TypeOK
<1>5. Fresh'
  <2>1. ASSUME NEW x \in Objects, x > created
        PROVE  /\ x \notin standing
               /\ \A b \in Block : placed[x][b] = 0 /\ flying[x][b] = 0
               /\ \A n \in Objects : x \notin Range(buildQueue'[n])
    <3>1. /\ x \notin standing
          /\ \A b \in Block : placed[x][b] = 0 /\ flying[x][b] = 0
          /\ \A n \in Objects : x \notin Range(buildQueue[n])
      BY <2>1 DEF ConInv, Fresh
    <3>2. \A n \in Objects : x \notin Range(buildQueue'[n])
      BY <1>1, <1>2, <3>1
    <3> QED BY <3>1, <3>2
  <2> QED BY <2>1 DEF Fresh
<1>6. Whole'
  BY <1>3 DEF ConInv, Whole
<1>7. NoBlockTwice'
  BY DEF ConInv, NoBlockTwice
<1>8. NoneBuildsItself'
  BY <1>1, <1>2 DEF ConInv, NoneBuildsItself
<1>9. NotForgotten'
  <2> SUFFICES ASSUME NEW x \in standing' \ (finished' \cup dropped')
               PROVE  \/ \E n \in standing' : x \in Range(buildQueue'[n])
                      \/ \A b \in BlocksOf(x)' : placed'[x][b] + flying'[x][b] > 0
    BY DEF NotForgotten, Queued
  <2>1. CASE x = o
    BY <1>1, <1>2, <2>1
  <2>2. CASE x # o
    <3>1. x \in standing \ (finished \cup dropped)
      BY <2>2
    <3>2. \/ \E n \in standing : x \in Range(buildQueue[n])
          \/ \A b \in BlocksOf(x) : placed[x][b] + flying[x][b] > 0
      BY <3>1 DEF ConInv, NotForgotten, Queued
    <3>3. ASSUME NEW n \in standing, x \in Range(buildQueue[n])
          PROVE  n \in standing' /\ x \in Range(buildQueue'[n])
      BY <1>1, <1>2, <3>3
    <3> QED BY <1>3, <3>2, <3>3
  <2> QED BY <2>1, <2>2
<1> QED BY <1>4, <1>5, <1>6, <1>7, <1>8, <1>9 DEF ConInv

\* Orders that queue a site preserve the invariant.
LEMMA ConstructLaterStep ==
  ASSUME ConInv, NEW m, NEW o, ConstructLater(m, o)
  PROVE  ConInv'
<1> DEFINE p == buildQueue[m]
           q == Append(p, o)
<1>1. /\ m \in finished /\ o \in standing \ finished
      /\ finished \subseteq Objects /\ o \in Objects /\ dropped \subseteq Objects
      /\ p \in Seq(Objects)
  BY DEF ConstructLater, ConstructValid, Usable, ConInv, TypeOK
<1>2. /\ buildQueue' = [buildQueue EXCEPT ![m] = q]
      /\ dropped' = dropped \ {o}
      /\ UNCHANGED <<created, type, standing, finished, placed, flying,
                     sinceLaunch, flooded, floods>>
  BY DEF ConstructLater
<1>3. q \in Seq(Objects) /\ \A x : x \in Range(q) <=> x = o \/ x \in Range(p)
  <2> HIDE DEF p
  <2> QED BY <1>1, AppendRange
<1> HIDE DEF q
<1> QED BY <1>1, <1>2, <1>3, QueueStep

\* Orders that launch a block at once preserve the invariant.
LEMMA ConstructNowStep ==
  ASSUME ConInv, NEW m, NEW o, ConstructNow(m, o)
  PROVE  ConInv'
<1> DEFINE p == buildQueue[m]
           q == <<o>>
<1>1. /\ m \in finished /\ o \in standing \ finished
      /\ finished \subseteq Objects /\ o \in Objects /\ dropped \subseteq Objects
      /\ p \in Seq(Objects)
  BY DEF ConstructNow, ConstructValid, Usable, ConInv, TypeOK
<1>2. /\ buildQueue' = [buildQueue EXCEPT ![m] = q]
      /\ dropped' = (dropped \cup Range(p)) \ {o}
      /\ UNCHANGED <<created, type, standing, finished, placed, flying,
                     sinceLaunch, flooded, floods>>
  BY DEF ConstructNow
<1>3. q \in Seq(Objects) /\ \A x : x \in Range(q) <=> x = o
  BY <1>1, OneRange
<1>4. Range(p) \subseteq Objects
  <2>1. p \in Seq(Objects)
    BY <1>1
  <2> HIDE DEF p
  <2> QED BY <2>1 DEF Range
<1> HIDE DEF q
<1>5. /\ dropped' \subseteq Objects
      /\ \A x \in Range(p) : x \in Range(q) \/ x \in dropped'
      /\ \A x \in dropped : x = o \/ x \in dropped'
      /\ \A x \in Range(q) : x = o \/ x \in Range(p)
      /\ o \in Range(q)
  <2> HIDE DEF p
  <2> QED BY <1>1, <1>2, <1>3, <1>4
<1> QED BY <1>1, <1>2, <1>3, <1>5, QueueStep
-----------------------------------------------------------------------------
\* The invariant holds at first.
LEMMA ConstructionInit == Init => ConInv
<1> SUFFICES ASSUME Init PROVE ConInv
  OBVIOUS
<1>1. /\ Players \in Nat /\ Players <= MaxObjects /\ MaxObjects \in Nat
      /\ standing = 1 .. Players /\ finished = standing /\ created = Players
      /\ standing \subseteq Objects
  BY PlayersAssumption DEF Init, Objects
<1>2. ASSUME NEW o \in Objects, NEW b \in Block
      PROVE  /\ placed[o][b] = IF o \in finished /\ b \in BlocksOf(o)
                                 THEN 1 ELSE 0
             /\ placed[o][b] \in 0 .. 1 /\ flying[o][b] = 0
  BY DEF Init
<1>3. ASSUME NEW o \in Objects
      PROVE  buildQueue[o] = << >> /\ Range(buildQueue[o]) = {}
  BY DEF Init, Range
<1>4. TypeOK
  <2>1. placed \in [Objects -> [Block -> Nat]]
    BY DEF Init
  <2>2. flying \in [Objects -> [Block -> Nat]]
    BY DEF Init
  <2>3. buildQueue \in [Objects -> Seq(Objects)]
    BY DEF Init
  <2>4. sinceLaunch \in [Objects -> 0 .. BuildSpeed]
    BY BuildSpeedAssumption DEF Init
  <2>5. type \in [Objects -> Types]
    BY TypesAssumption DEF Init
  <2> QED BY <1>1, <2>1, <2>2, <2>3, <2>4, <2>5 DEF Init, TypeOK
<1>5. Fresh
  <2>1. ASSUME NEW o \in Objects, o > created
        PROVE  o \notin standing
    BY <1>1, <2>1
  <2> QED BY <1>1, <1>2, <1>3, <2>1 DEF Fresh
<1>6. Whole
  <2>1. ASSUME NEW o \in finished, NEW b \in BlocksOf(o)
        PROVE  placed[o][b] > 0
    <3>1. o \in Objects /\ b \in Block
      BY <1>1, <1>4, TypesAssumption DEF TypeOK, BlocksOf, Block
    <3> QED BY <1>2, <3>1
  <2> QED BY <1>2, <2>1 DEF Whole
<1>7. NoBlockTwice
  BY <1>2 DEF NoBlockTwice
<1>8. NoneBuildsItself
  BY <1>3 DEF NoneBuildsItself
<1>9. NotForgotten
  BY <1>1 DEF NotForgotten
<1> QED BY <1>4, <1>5, <1>6, <1>7, <1>8, <1>9 DEF ConInv

\* Every step preserves the invariant; ticks deliver the blocks that land.
LEMMA ConstructionStep ==
  ASSUME ConInv, [Next]_vars
  PROVE  ConInv' /\ (Arrived \/ UNCHANGED vars)
<1>1. ASSUME UNCHANGED <<placed, flying>>
      PROVE  Arrived
  <2>1. ASSUME NEW o \in standing, NEW b \in Block
        PROVE  placed[o][b] \in Nat /\ flying[o][b] \in Nat
    BY DEF ConInv, TypeOK
  <2> QED BY <1>1, <2>1 DEF Arrived
<1>2. CASE \E m \in standing, t \in Types : Build(m, t)
  <2>1. PICK m \in standing, t \in Types : Build(m, t)
    BY <1>2
  <2> QED BY <1>1, <2>1, BuildStep DEF Build
<1>3. CASE \E m \in standing, o \in standing : ConstructLater(m, o)
  BY <1>1, <1>3, ConstructLaterStep DEF ConstructLater
<1>4. CASE \E m \in standing, o \in standing : ConstructNow(m, o)
  BY <1>1, <1>4, ConstructNowStep DEF ConstructNow
<1>5. CASE Tick(SUBSET Flights)
  BY <1>5, TickStep
<1>6. CASE UNCHANGED vars
  BY <1>6 DEF vars, ConInv, TypeOK, Fresh, Whole, NoBlockTwice,
              NoneBuildsItself, NotForgotten, Queued, BlocksOf
<1> QED BY <1>2, <1>3, <1>4, <1>5, <1>6 DEF Next

\* The invariant holds in every reachable state.
LEMMA ConstructionHolds == Spec => []ConInv
<1>1. Init => ConInv
  BY ConstructionInit
<1>2. ConInv /\ [Next]_vars => ConInv'
  BY ConstructionStep
<1> QED BY <1>1, <1>2, PTL DEF Spec

\* The variables of the buildings keep their types.
THEOREM BuildingTypes == Spec => []TypeOK
<1>1. ConInv => TypeOK
  BY DEF ConInv
<1> QED BY <1>1, ConstructionHolds, PTL

\* However many main buildings build the same site, in whatever order they take
\* their turns, and whatever lands or is destroyed: no block is sent while it
\* is in place or under way.
THEOREM NoBlockIsSentTwice == Spec => []NoBlockTwice
<1>1. ConInv => NoBlockTwice
  BY DEF ConInv
<1> QED BY <1>1, ConstructionHolds, PTL

\* The assert in SimState::addFlyingBlock holds.
THEOREM NoBuildingSendsToItself == Spec => []NoneBuildsItself
<1>1. ConInv => NoneBuildsItself
  BY DEF ConInv
<1> QED BY <1>1, ConstructionHolds, PTL

\* A site that was not taken out of a queue is in one, or all it lacks is
\* under way.
THEOREM NoSiteIsForgotten == Spec => []NotForgotten
<1>1. ConInv => NotForgotten
  BY DEF ConInv
<1> QED BY <1>1, ConstructionHolds, PTL

\* A block that was sent to a site that stands is not lost: it lands.
THEOREM NoBlockIsLost == Spec => NothingLost
<1>1. ConInv /\ [Next]_vars =>
        [\A o \in standing \cap standing', b \in Block :
           placed'[o][b] + flying'[o][b] >= placed[o][b] + flying[o][b]]_vars
  BY ConstructionStep DEF Arrived
<1> QED BY <1>1, ConstructionHolds, PTL DEF Spec, NothingLost
=============================================================================
