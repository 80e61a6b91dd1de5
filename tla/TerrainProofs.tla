---------------------------- MODULE TerrainProofs ----------------------------
(***************************************************************************)
(* Proofs of Terrain's invariants, for maps, buildings and speeds of every *)
(* size, and any number of raisings, rockets and buildings.                *)
(*                                                                         *)
(* The order: what the second loop of Map::tick does to the growth, by     *)
(* induction over its passes; then the invariants of the ground, how high  *)
(* it gets, what holds while only raising happens, and the buildings.      *)
(***************************************************************************)
EXTENDS Terrain, Loops

(* The points in order *)

\* There are points.
LEMMA PointCountNat == PointCount \in Nat \ {0}
<1>1. ASSUME NEW a \in Nat \ {0}, NEW b \in Nat \ {0}
      PROVE  a * b \in Nat \ {0}
  OBVIOUS
<1> QED BY <1>1, SizeAssumption DEF PointCount

\* What the provers need of division and remainder.
LEMMA Division ==
  ASSUME NEW a \in Nat, NEW b \in Nat, b > 0
  PROVE  /\ a \div b \in Nat /\ a % b \in 0 .. b - 1
         /\ a = b * (a \div b) + (a % b)
OBVIOUS

\* The sequence the loops go through consists of points of the map.
LEMMA PointSeqType == PointSeq \in [1 .. PointCount -> Points]
<1>1. ASSUME NEW i \in 1 .. PointCount
      PROVE  <<(i - 1) \div SizeY, (i - 1) % SizeY>> \in Points
  <2> DEFINE x == (i - 1) \div SizeY
             y == (i - 1) % SizeY
  <2>1. SizeX \in Nat /\ SizeY \in Nat /\ SizeY > 0 /\ i - 1 \in Nat
    BY <1>1, PointCountNat, SizeAssumption
  <2>2. x \in Nat /\ y \in 0 .. SizeY - 1 /\ i - 1 = SizeY * x + y
    BY <2>1, Division
  <2>3. i - 1 < SizeX * SizeY
    BY <1>1, PointCountNat DEF PointCount
  <2> HIDE DEF x, y
  <2>4. SizeY * x < SizeX * SizeY
    BY <2>1, <2>2, <2>3
  <2>5. x < SizeX
    <3>1. ASSUME x >= SizeX PROVE FALSE
      <4>1. SizeY * x >= SizeY * SizeX
        BY <3>1, <2>1, <2>2
      <4> QED BY <4>1, <2>1, <2>2, <2>4
    <3> QED BY <3>1, <2>1, <2>2
  <2>6. x \in 0 .. SizeX - 1
    BY <2>1, <2>2, <2>5
  <2> QED BY <2>2, <2>6 DEF Points, x, y
<1> QED BY <1>1 DEF PointSeq

\* The loop visits every point.
LEMMA PointSeqOnto ==
  ASSUME NEW p \in Points
  PROVE  \E i \in 1 .. PointCount : PointSeq[i] = p
<1> DEFINE i == SizeY * p[1] + p[2] + 1
           x == (i - 1) \div SizeY
           y == (i - 1) % SizeY
<1>1. /\ SizeX \in Nat /\ SizeY \in Nat /\ SizeY > 0
      /\ p[1] \in 0 .. SizeX - 1 /\ p[2] \in 0 .. SizeY - 1
      /\ p = <<p[1], p[2]>>
  BY SizeAssumption DEF Points
<1>2. SizeY * p[1] \in Nat /\ SizeY * p[1] <= SizeY * (SizeX - 1)
  BY <1>1
<1>3. SizeY * (SizeX - 1) = SizeX * SizeY - SizeY
  BY <1>1
<1>4. i \in 1 .. PointCount
  BY <1>1, <1>2, <1>3, PointCountNat DEF PointCount
<1>5. i - 1 \in Nat /\ i - 1 = SizeY * p[1] + p[2]
  BY <1>1, <1>2
<1>6. x \in Nat /\ y \in 0 .. SizeY - 1 /\ i - 1 = SizeY * x + y
  <2> HIDE DEF i
  <2> QED BY <1>1, <1>5, Division
<1> HIDE DEF i, x, y
<1>7. SizeY * x + y = SizeY * p[1] + p[2]
  BY <1>5, <1>6
<1>8. x = p[1]
  <2>1. ASSUME x < p[1] PROVE FALSE
    <3>1. SizeY * (x + 1) <= SizeY * p[1]
      BY <2>1, <1>1, <1>6
    <3>2. SizeY * (x + 1) = SizeY * x + SizeY
      BY <1>1, <1>6
    <3> QED BY <3>1, <3>2, <1>1, <1>2, <1>6, <1>7
  <2>2. ASSUME p[1] < x PROVE FALSE
    <3>1. SizeY * (p[1] + 1) <= SizeY * x
      BY <2>2, <1>1, <1>6
    <3>2. SizeY * (p[1] + 1) = SizeY * p[1] + SizeY
      BY <1>1
    <3> QED BY <3>1, <3>2, <1>1, <1>2, <1>6, <1>7
  <2> QED BY <2>1, <2>2, <1>1, <1>6
<1>9. y = p[2]
  <2>1. SizeY * p[1] + y = SizeY * p[1] + p[2]
    BY <1>7, <1>8
  <2> QED BY <2>1, <1>1, <1>2, <1>6
<1> QED BY <1>1, <1>4, <1>8, <1>9 DEF PointSeq, x, y
-----------------------------------------------------------------------------
(* The loops of Map::tick *)

Growths ==
  [height  : [Points -> Nat],
   target  : [Points -> Int],
   speed   : [Points -> {0, RaiseSpeed, CraterSpeed}],
   growing : SUBSET Points,
   up      : SUBSET Points,
   down    : SUBSET Points]

\* Neighbours are on the map.
LEMMA NeighborsType ==
  ASSUME NEW p \in Points
  PROVE  Neighbors[p] \subseteq Points
BY DEF Neighbors

\* Replanning gives a growth again, and changes targets, speeds and the set of
\* growing points only.
LEMMA ReplanType ==
  ASSUME NEW g \in Growths, NEW p \in Points, NEW ns \in SUBSET Points,
         NEW h \in Int
  PROVE  /\ Replan(g, p, ns, h) \in Growths
         /\ Replan(g, p, ns, h).height = g.height
         /\ Replan(g, p, ns, h).up = g.up
         /\ Replan(g, p, ns, h).down = g.down
<1> DEFINE target == [n \in Points |-> IF n \in ns THEN h - g.height[n]
                                                  ELSE g.target[n]]
           speed  == [n \in Points |-> IF n \in ns THEN g.speed[p]
                                                  ELSE g.speed[n]]
<1>1. target \in [Points -> Int]
  BY DEF Growths
<1>2. speed \in [Points -> {0, RaiseSpeed, CraterSpeed}]
  BY DEF Growths
<1>3. g.growing \cup ns \in SUBSET Points
  BY DEF Growths
<1>4. Replan(g, p, ns, h) = [g EXCEPT !.target = target, !.speed = speed,
                                      !.growing = g.growing \cup ns]
  BY DEF Replan
<1> HIDE DEF target, speed
<1> QED BY <1>1, <1>2, <1>3, <1>4 DEF Growths

\* What a pass of the second loop may do: it makes some points n grow to a
\* height h, which is one of a neighbour, less or plus one.
LEMMA CascadePass ==
  ASSUME NEW g \in Growths, NEW p \in Points
  PROVE  \/ Cascade(g, p) = g
         \/ /\ p \in g.up
            /\ Cascade(g, p) = CascadeUp(g, p)
         \/ /\ p \in g.down
            /\ Cascade(g, p) = CascadeDown(g, p)
BY DEF Cascade

\* It changes no height and none of the flags.
LEMMA CascadeType ==
  ASSUME NEW g \in Growths, NEW p \in Points
  PROVE  /\ Cascade(g, p) \in Growths
         /\ Cascade(g, p).height = g.height
         /\ Cascade(g, p).up = g.up
         /\ Cascade(g, p).down = g.down
<1>1. g.height[p] \in Nat
  BY DEF Growths
<1>2. CASE Cascade(g, p) = CascadeUp(g, p)
  <2> DEFINE ns == {n \in Neighbors[p] : Planned(g, n) + 1 < g.height[p]}
             h  == g.height[p] - 1
  <2>1. Cascade(g, p) = Replan(g, p, ns, h)
    BY <1>2 DEF CascadeUp
  <2>2. ns \in SUBSET Points /\ h \in Int
    BY <1>1, NeighborsType
  <2> HIDE DEF ns, h
  <2> QED BY <2>1, <2>2, ReplanType
<1>3. CASE Cascade(g, p) = CascadeDown(g, p)
  <2> DEFINE ns == {n \in Neighbors[p] : Planned(g, n) > g.height[p] + 1}
             h  == g.height[p] + 1
  <2>1. Cascade(g, p) = Replan(g, p, ns, h)
    BY <1>3 DEF CascadeDown
  <2>2. ns \in SUBSET Points /\ h \in Int
    BY <1>1, NeighborsType
  <2> HIDE DEF ns, h
  <2> QED BY <2>1, <2>2, ReplanType
<1> QED BY <1>2, <1>3, CascadePass

\* The first loop leaves a growth behind.
LEMMA FirstLoopType ==
  ASSUME MapTypeOK
  PROVE  FirstLoop \in Growths
<1>1. ASSUME NEW p \in Points
      PROVE  HeightAfter(p) \in Nat /\ TargetAfter(p) \in Int
  <2>1. height[p] \in Nat /\ growthTarget[p] \in Int
    BY DEF MapTypeOK
  <2> QED BY <2>1 DEF HeightAfter, TargetAfter, Falls
<1>2. growthPerTick \in [Points -> {0, RaiseSpeed, CraterSpeed}]
  BY DEF MapTypeOK
<1> QED BY <1>1, <1>2 DEF FirstLoop, Growths, Growing

\* The second loop starts where the first ended and takes one point after the
\* other: what the recursive definition says, with its types.
LEMMA SecondLoopRuns ==
  ASSUME MapTypeOK
  PROVE  /\ SecondLoop \in [0 .. PointCount -> Growths]
         /\ SecondLoop[0] = FirstLoop
         /\ \A i \in 1 .. PointCount :
              SecondLoop[i] = Cascade(SecondLoop[i - 1], PointSeq[i])
<1> DEFINE pass == [i \in 1 .. PointCount |->
                      [g \in Growths |-> Cascade(g, PointSeq[i])]]
<1>1. pass \in [1 .. PointCount -> [Growths -> Growths]]
  BY PointSeqType, CascadeType
<1>2. FirstLoop \in Growths
  BY FirstLoopType
<1>3. PointCount \in Nat
  BY PointCountNat
<1>4. PICK h : Computes(PointCount, Growths, FirstLoop, pass, h)
  <2>1. IsLoop(PointCount, Growths, FirstLoop, pass)
    BY <1>1, <1>2, <1>3 DEF IsLoop
  <2> HIDE DEF pass
  <2> QED BY <2>1, LoopRuns
<1>5. ASSUME NEW i \in 1 .. PointCount
      PROVE  i - 1 \in 0 .. PointCount /\ i # 0 /\ i \in 0 .. PointCount
  BY <1>3, <1>5
<1>6. h = [i \in 0 .. PointCount |->
             IF i = 0 THEN FirstLoop ELSE Cascade(h[i - 1], PointSeq[i])]
  <2>1. ASSUME NEW i \in 1 .. PointCount
        PROVE  h[i] = Cascade(h[i - 1], PointSeq[i])
    <3>1. h[i - 1] \in Growths /\ h[i] = pass[i][h[i - 1]]
      BY <1>4, <1>5 DEF Computes
    <3> QED BY <3>1
  <2>2. \A i \in 0 .. PointCount : i = 0 \/ i \in 1 .. PointCount
    BY <1>3
  <2> HIDE DEF pass
  <2> QED BY <1>4, <2>1, <2>2 DEF Computes
<1>7. SecondLoop = [i \in 0 .. PointCount |->
             IF i = 0 THEN FirstLoop
                      ELSE Cascade(SecondLoop[i - 1], PointSeq[i])]
  BY <1>6 DEF SecondLoop
<1>8. \A i \in 0 .. PointCount : SecondLoop[i] \in Growths
  <2> DEFINE S == {i \in 0 .. PointCount : SecondLoop[i] \in Growths}
  <2>1. 0 \in S
    BY <1>2, <1>3, <1>7
  <2>2. ASSUME NEW i \in 1 .. PointCount, i - 1 \in S
        PROVE  i \in S
    BY <2>2, <1>5, <1>7, PointSeqType, CascadeType
  <2> HIDE DEF S
  <2>3. \A i \in 0 .. PointCount : i \in S
    BY <2>1, <2>2, <1>3, LoopInduction
  <2> QED BY <2>3 DEF S
<1>9. 0 \in 0 .. PointCount
  BY <1>3
<1> QED BY <1>5, <1>7, <1>8, <1>9

\* The invariant of the second loop: heights and flags are those the first
\* loop left, nothing is to sink below zero, and what has a target grows.
SoundGrowth(g) ==
  /\ g.height = FirstLoop.height
  /\ g.up = FirstLoop.up /\ g.down = FirstLoop.down
  /\ \A n \in Points : Planned(g, n) >= 0
  /\ \A n \in Points : g.target[n] # 0 => n \in g.growing

\* Points that are to end at a height that is none below zero keep the growth
\* sound.
LEMMA ReplanSound ==
  ASSUME NEW g \in Growths, NEW p \in Points, NEW ns \in SUBSET Points,
         NEW h \in Int, \A n \in ns : h >= 0, SoundGrowth(g)
  PROVE  SoundGrowth(Replan(g, p, ns, h))
<1>1. /\ Replan(g, p, ns, h) \in Growths
      /\ Replan(g, p, ns, h).height = g.height
      /\ Replan(g, p, ns, h).up = g.up /\ Replan(g, p, ns, h).down = g.down
  BY ReplanType
<1>2. ASSUME NEW n \in Points
      PROVE  /\ n \in ns => Replan(g, p, ns, h).target[n] = h - g.height[n]
             /\ n \notin ns => Replan(g, p, ns, h).target[n] = g.target[n]
             /\ Replan(g, p, ns, h).growing = g.growing \cup ns
  BY DEF Replan, Growths
<1> DEFINE r == Replan(g, p, ns, h)
<1> HIDE DEF r
<1>3. ASSUME NEW n \in Points
      PROVE  /\ r.height[n] + r.target[n] >= 0
             /\ r.target[n] # 0 => n \in r.growing
  <2>1. /\ g.height[n] \in Nat /\ g.target[n] \in Int
        /\ g.height[n] + g.target[n] >= 0
        /\ g.target[n] # 0 => n \in g.growing
    BY DEF SoundGrowth, Planned, Growths
  <2>2. /\ n \in ns => r.target[n] = h - g.height[n]
        /\ n \notin ns => r.target[n] = g.target[n]
        /\ r.growing = g.growing \cup ns
        /\ r.height = g.height
    BY <1>1, <1>2 DEF r
  <2> QED BY <2>1, <2>2
<1>4. r.height = g.height /\ r.up = g.up /\ r.down = g.down
  BY <1>1 DEF r
<1>5. SoundGrowth(r)
  BY <1>3, <1>4 DEF SoundGrowth, Planned
<1> QED BY <1>5 DEF r

\* So do cascades, of either kind.
LEMMA CascadeSound ==
  ASSUME NEW g \in Growths, NEW p \in Points, SoundGrowth(g)
  PROVE  SoundGrowth(Cascade(g, p))
<1>1. g.height[p] \in Nat
  BY DEF Growths
<1>2. CASE Cascade(g, p) = CascadeUp(g, p)
  <2> DEFINE ns == {n \in Neighbors[p] : Planned(g, n) + 1 < g.height[p]}
             h  == g.height[p] - 1
  <2>1. Cascade(g, p) = Replan(g, p, ns, h)
    BY <1>2 DEF CascadeUp
  <2>2. ns \in SUBSET Points /\ h \in Int
    BY <1>1, NeighborsType
  <2>3. ASSUME NEW n \in ns
        PROVE  h >= 0
    BY <2>2, <2>3, <1>1 DEF SoundGrowth, Planned, Growths
  <2> HIDE DEF ns, h
  <2> QED BY <2>1, <2>2, <2>3, ReplanSound
<1>3. CASE Cascade(g, p) = CascadeDown(g, p)
  <2> DEFINE ns == {n \in Neighbors[p] : Planned(g, n) > g.height[p] + 1}
             h  == g.height[p] + 1
  <2>1. Cascade(g, p) = Replan(g, p, ns, h)
    BY <1>3 DEF CascadeDown
  <2>2. ns \in SUBSET Points /\ h \in Int /\ h >= 0
    BY <1>1, NeighborsType
  <2> HIDE DEF ns, h
  <2> QED BY <2>1, <2>2, ReplanSound
<1> QED BY <1>2, <1>3, CascadePass

\* The first loop leaves a sound growth.
LEMMA FirstLoopSound ==
  ASSUME MapTypeOK, NeverBelowZero, NoneForgotten
  PROVE  SoundGrowth(FirstLoop)
<1>1. ASSUME NEW p \in Points
      PROVE  /\ HeightAfter(p) + TargetAfter(p) >= 0
             /\ TargetAfter(p) # 0 => p \in Growing
  <2>1. height[p] \in Nat /\ growthTarget[p] \in Int
    BY DEF MapTypeOK
  <2>2. height[p] + growthTarget[p] >= 0
    BY DEF NeverBelowZero
  <2>3. Rises(p) => growthTarget[p] > 0
    BY DEF Rises
  <2>4. Falls(p) => growthTarget[p] < 0
    BY DEF Falls
  <2>5. TargetAfter(p) # 0 => growthTarget[p] # 0
    BY <2>1, <2>3, <2>4 DEF TargetAfter
  <2> QED BY <2>1, <2>2, <2>3, <2>4, <2>5
          DEF HeightAfter, TargetAfter, NoneForgotten, Growing
<1> QED BY <1>1 DEF SoundGrowth, FirstLoop, Planned

\* The growth is sound all through the second loop.
LEMMA SecondLoopSound ==
  ASSUME MapTypeOK, NeverBelowZero, NoneForgotten
  PROVE  \A i \in 0 .. PointCount : SoundGrowth(SecondLoop[i])
<1> DEFINE S == {i \in 0 .. PointCount : SoundGrowth(SecondLoop[i])}
<1>1. PointCount \in Nat
  BY PointCountNat
<1>2. 0 \in S
  BY <1>1, SecondLoopRuns, FirstLoopSound
<1>3. ASSUME NEW i \in 1 .. PointCount, i - 1 \in S
      PROVE  i \in S
  <2>1. i - 1 \in 0 .. PointCount /\ i \in 0 .. PointCount
    BY <1>1
  <2>2. SecondLoop[i - 1] \in Growths /\ PointSeq[i] \in Points
    BY <2>1, SecondLoopRuns, PointSeqType
  <2>3. SoundGrowth(Cascade(SecondLoop[i - 1], PointSeq[i]))
    BY <1>3, <2>2, CascadeSound
  <2> QED BY <2>1, <2>3, SecondLoopRuns
<1>4. \A i \in 0 .. PointCount : i \in S
  <2> HIDE DEF S
  <2> QED BY <1>1, <1>2, <1>3, LoopInduction
<1> QED BY <1>4

\* What the second loop leaves behind.
LEMMA LastPass ==
  ASSUME MapTypeOK, NeverBelowZero, NoneForgotten
  PROVE  /\ SecondLoop[PointCount] \in Growths
         /\ SoundGrowth(SecondLoop[PointCount])
<1>1. PointCount \in 0 .. PointCount
  BY PointCountNat
<1> QED BY <1>1, SecondLoopRuns, SecondLoopSound
-----------------------------------------------------------------------------
(* The ground: MapTypeOK, NeverBelowZero and NoneForgotten are inductive       *)
(* together.                                                                *)

GroundInv == MapTypeOK /\ NeverBelowZero /\ NoneForgotten

\* Among some points, there is a highest.
LEMMA HighestPoint ==
  ASSUME NEW f \in [Points -> Int], NEW R \in SUBSET Points, R # {}
  PROVE  \E p \in R : \A q \in R : f[q] <= f[p]
<1> DEFINE seen(i) == {q \in R : \E j \in 1 .. i : PointSeq[j] = q}
           S == {i \in 0 .. PointCount :
                   \/ seen(i) = {}
                   \/ \E p \in seen(i) : \A q \in seen(i) : f[q] <= f[p]}
<1>1. PointCount \in Nat
  BY PointCountNat
<1>2. 0 \in S
  BY <1>1
<1>3. ASSUME NEW i \in 1 .. PointCount, i - 1 \in S
      PROVE  i \in S
  <2>1. /\ i - 1 \in Nat /\ i \in 0 .. PointCount
        /\ \A j : j \in 1 .. i <=> j = i \/ j \in 1 .. (i - 1)
    BY <1>1
  <2>2. \A q \in R : q \in seen(i) <=> q = PointSeq[i] \/ q \in seen(i - 1)
    BY <2>1
  <2>3. seen(i) \subseteq R /\ seen(i - 1) \subseteq R
    OBVIOUS
  <2>4. CASE PointSeq[i] \notin R
    <3>1. seen(i) = seen(i - 1)
      BY <2>2, <2>3, <2>4
    <3> HIDE DEF seen
    <3> QED BY <1>3, <2>1, <3>1
  <2>5. CASE PointSeq[i] \in R
    <3> DEFINE new == PointSeq[i]
    <3>1. f[new] \in Int /\ \A q \in R : f[q] \in Int
      BY <2>5
    <3>2. \/ seen(i - 1) = {}
          \/ \E p \in seen(i - 1) : \A q \in seen(i - 1) : f[q] <= f[p]
      BY <1>3
    <3>3. new \in seen(i)
      BY <2>2, <2>5
    <3> HIDE DEF seen, new
    <3>4. \A q \in seen(i) : q = new \/ q \in seen(i - 1)
      BY <2>2, <2>3 DEF new
    <3>5. \E p \in seen(i) : \A q \in seen(i) : f[q] <= f[p]
      <4>1. CASE seen(i - 1) = {}
        BY <3>1, <3>3, <3>4, <4>1
      <4>2. ASSUME NEW p \in seen(i - 1),
                   \A q \in seen(i - 1) : f[q] <= f[p]
            PROVE  \E r \in seen(i) : \A q \in seen(i) : f[q] <= f[r]
        <5>1. p \in seen(i) /\ p \in R
          BY <2>2, <2>3
        <5>2. CASE f[new] <= f[p]
          BY <3>1, <3>4, <4>2, <5>1, <5>2
        <5>3. CASE f[p] < f[new]
          <6>1. \A q \in seen(i) : f[q] <= f[new]
            BY <2>3, <3>1, <3>4, <4>2, <5>1, <5>3
          <6> QED BY <3>3, <6>1
        <5> QED BY <3>1, <5>1, <5>2, <5>3
      <4> QED BY <3>2, <4>1, <4>2
    <3> QED BY <2>1, <3>5
  <2> QED BY <2>4, <2>5
<1>4. PointCount \in S
  <2>1. PointCount \in 0 .. PointCount
    BY <1>1
  <2> HIDE DEF S
  <2> QED BY <1>1, <1>2, <1>3, <2>1, LoopInduction
<1>5. \A q : q \in seen(PointCount) <=> q \in R
  BY PointSeqOnto
<1>6. seen(PointCount) = R
  <2> HIDE DEF seen
  <2> QED BY <1>5
<1> HIDE DEF seen
<1> QED BY <1>4, <1>6

\* A rectangle is raised at least to its highest point, and at most one level
\* above that.
LEMMA RaisedToIsHigh ==
  ASSUME MapTypeOK, NEW R \in SUBSET Points, R # {}
  PROVE  /\ RaisedTo(R) \in Nat
         /\ \A q \in R : height[q] <= RaisedTo(R)
         /\ \E q \in R : RaisedTo(R) <= height[q] + 1
<1>1. height \in [Points -> Nat] /\ height \in [Points -> Int]
  BY DEF MapTypeOK
<1> DEFINE H == {height[p] : p \in R}
<1>2. \E m \in H : \A n \in H : m >= n
  <2>1. PICK p \in R : \A q \in R : height[q] <= height[p]
    BY <1>1, HighestPoint
  <2> QED BY <1>1, <2>1
<1>3. Max(H) \in H /\ \A n \in H : Max(H) >= n
  BY <1>2 DEF Max
<1>4. Max(H) \in Nat /\ \A q \in R : height[q] <= Max(H)
  BY <1>1, <1>3
<1>5. RaisedTo(R) = Max(H) \/ RaisedTo(R) = Max(H) + 1
  BY <1>4 DEF RaisedTo
<1>6. \A q \in R : height[q] \in Nat
  BY <1>1
<1>7. PICK q \in R : Max(H) = height[q]
  BY <1>3
<1> HIDE DEF H
<1>8. RaisedTo(R) <= height[q] + 1
  BY <1>5, <1>6, <1>7
<1> QED BY <1>4, <1>5, <1>6, <1>8

\* The lesser of two numbers.
LEMMA MinOfTwo ==
  ASSUME NEW a \in Int, NEW b \in Int
  PROVE  /\ Min({a, b}) \in {a, b}
         /\ Min({a, b}) <= a /\ Min({a, b}) <= b
<1>1. \E m \in {a, b} : \A n \in {a, b} : m <= n
  <2>1. CASE a <= b BY <2>1
  <2>2. CASE b <= a BY <2>2
  <2> QED BY <2>1, <2>2
<1>2. Min({a, b}) \in {a, b} /\ \A n \in {a, b} : Min({a, b}) <= n
  BY <1>1 DEF Min
<1> QED BY <1>2

\* The speeds are of the type, and below a level.
LEMMA Speeds ==
  /\ RaiseSpeed \in {0, RaiseSpeed, CraterSpeed}
  /\ CraterSpeed \in {0, RaiseSpeed, CraterSpeed}
  /\ \A v \in {0, RaiseSpeed, CraterSpeed} : v \in 0 .. Level
  /\ Level \in Nat \ {0}
BY SpeedAssumption

\* The invariant holds at first.
LEMMA GroundInit == Init => GroundInv
<1> SUFFICES ASSUME Init PROVE GroundInv
  OBVIOUS
<1>1. height \in [Points -> Nat]
  BY LandscapesAssumption DEF Init
<1>2. 0 \in 0 .. Level - 1
  BY Speeds
<1>3. MapTypeOK
  <2>1. /\ growthTarget \in [Points -> Int]
        /\ growthProgress \in [Points -> 0 .. Level - 1]
    BY <1>2 DEF Init
  <2>2. growthPerTick \in [Points -> {0, RaiseSpeed, CraterSpeed}]
    BY DEF Init
  <2>3. /\ entity \in [Points -> Points \cup {NoEntity}]
        /\ positionZ \in [Points -> Nat]
    BY DEF Init
  <2>4. /\ growingPoints \subseteq Points /\ risen \subseteq Points
        /\ landing \in BOOLEAN
        /\ raises \in Nat /\ rockets \in Nat /\ buildings \in Nat
    BY DEF Init
  <2> QED BY <1>1, <2>1, <2>2, <2>3, <2>4 DEF MapTypeOK
<1>4. \A p \in Points : growthTarget[p] = 0
  BY DEF Init
<1> QED BY <1>1, <1>3, <1>4 DEF GroundInv, NeverBelowZero, NoneForgotten

\* Orders to raise preserve the invariant.
LEMMA GroundRaise ==
  ASSUME GroundInv, NEW p \in Points, NEW s \in Points, Raise(p, s)
  PROVE  GroundInv'
<1> DEFINE R   == Rectangle(p, s)
           top == RaisedTo(R)
<1>1. /\ \A q \in R : growthTarget[q] = 0
      /\ growthTarget' = [q \in Points |-> IF q \in R THEN top - height[q]
                                                     ELSE growthTarget[q]]
      /\ growthPerTick' = [q \in Points |-> IF q \in R THEN RaiseSpeed
                                                      ELSE growthPerTick[q]]
      /\ growingPoints' = growingPoints \cup R
      /\ landing' = FALSE
      /\ raises' = raises + 1
      /\ UNCHANGED <<height, growthProgress, entity, positionZ, risen, rockets,
                     buildings>>
  BY DEF Raise, Usable
<1>2. R \subseteq Points
  BY DEF Rectangle
<1>3. R # {} => top \in Nat /\ \A q \in R : height[q] <= top
  BY <1>2, RaisedToIsHigh DEF GroundInv
<1> HIDE DEF R, top
<1>4. ASSUME NEW q \in R
      PROVE  top \in Nat
  BY <1>3
<1>5. MapTypeOK'
  <2>1. growthTarget' \in [Points -> Int]
    BY <1>1, <1>4 DEF GroundInv, MapTypeOK
  <2>2. growthPerTick' \in [Points -> {0, RaiseSpeed, CraterSpeed}]
    BY <1>1, Speeds DEF GroundInv, MapTypeOK
  <2>3. growingPoints' \subseteq Points /\ raises' \in Nat
    BY <1>1, <1>2 DEF GroundInv, MapTypeOK
  <2>5. landing' \in BOOLEAN
    BY <1>1
  <2>4. /\ height' \in [Points -> Nat]
        /\ growthProgress' \in [Points -> 0 .. Level - 1]
        /\ entity' \in [Points -> Points \cup {NoEntity}]
        /\ positionZ' \in [Points -> Nat]
        /\ risen' \subseteq Points
        /\ rockets' \in Nat /\ buildings' \in Nat
    BY <1>1 DEF GroundInv, MapTypeOK
  <2> QED BY <2>1, <2>2, <2>3, <2>4, <2>5 DEF MapTypeOK
<1>6. ASSUME NEW q \in Points
      PROVE  /\ height'[q] + growthTarget'[q] >= 0
             /\ growthTarget'[q] # 0 => Grows(q)'
  <2>1. /\ height[q] \in Nat /\ growthTarget[q] \in Int
        /\ growthProgress[q] \in 0 .. Level - 1
        /\ height[q] + growthTarget[q] >= 0
        /\ growthTarget[q] # 0 => q \in growingPoints
    BY DEF GroundInv, MapTypeOK, NeverBelowZero, NoneForgotten, Grows
  <2>2. growthProgress'[q] < Level
    BY <1>1, <2>1, Speeds
  <2>3. CASE q \in R
    BY <1>1, <1>4, <2>1, <2>2, <2>3 DEF Grows
  <2>4. CASE q \notin R
    BY <1>1, <2>1, <2>2, <2>4 DEF Grows
  <2> QED BY <2>3, <2>4
<1> QED BY <1>5, <1>6 DEF GroundInv, NeverBelowZero, NoneForgotten

\* Orders to build preserve the invariant.
LEMMA GroundBuild ==
  ASSUME GroundInv, NEW p \in Points, Build(p)
  PROVE  GroundInv'
<1>1. /\ entity' = [q \in Points |-> IF q \in Rectangle(p, BuildingSize)
                                       THEN p ELSE entity[q]]
      /\ positionZ' = [positionZ EXCEPT ![p] = height[p]]
      /\ landing' = FALSE
      /\ buildings' = buildings + 1
      /\ UNCHANGED <<ground, raises, rockets>>
  BY DEF Build
<1>2. MapTypeOK'
  <2>1. /\ entity' \in [Points -> Points \cup {NoEntity}]
        /\ positionZ' \in [Points -> Nat]
    BY <1>1 DEF GroundInv, MapTypeOK
  <2>2. /\ height' \in [Points -> Nat]
        /\ growthTarget' \in [Points -> Int]
        /\ growthProgress' \in [Points -> 0 .. Level - 1]
        /\ growthPerTick' \in [Points -> {0, RaiseSpeed, CraterSpeed}]
        /\ growingPoints' \subseteq Points /\ risen' \subseteq Points
    BY <1>1 DEF GroundInv, MapTypeOK, ground
  <2>3. raises' \in Nat /\ rockets' \in Nat /\ buildings' \in Nat
    BY <1>1 DEF GroundInv, MapTypeOK
  <2>4. landing' \in BOOLEAN
    BY <1>1
  <2> QED BY <2>1, <2>2, <2>3, <2>4 DEF MapTypeOK
<1> QED BY <1>1, <1>2
        DEF GroundInv, NeverBelowZero, NoneForgotten, Grows, ground

\* Rockets preserve the invariant.
LEMMA GroundRocket ==
  ASSUME GroundInv, NEW p \in Points, RocketLands(p)
  PROVE  GroundInv'
<1> DEFINE hit      == {p} \cup Neighbors[p]
           depth(q) == IF q = p THEN 2 ELSE 1
<1>1. /\ growthTarget' = [q \in Points |-> IF q \in hit
                                             THEN CraterTarget(q, depth(q))
                                             ELSE growthTarget[q]]
      /\ growthPerTick' = [q \in Points |-> IF q \in hit THEN CraterSpeed
                                                         ELSE growthPerTick[q]]
      /\ growingPoints' = growingPoints \cup hit
      /\ rockets' = rockets + 1
      /\ UNCHANGED <<height, growthProgress, entity, positionZ, landing, risen,
                     raises, buildings>>
  BY DEF RocketLands
<1>2. hit \subseteq Points
  BY NeighborsType
<1> HIDE DEF hit
<1>3. ASSUME NEW q \in Points
      PROVE  /\ CraterTarget(q, depth(q)) \in Int
             /\ height[q] + CraterTarget(q, depth(q)) >= 0
  <2> DEFINE a == height[q]
             b == depth(q)
  <2>1. a \in Int /\ b \in Int
    BY DEF GroundInv, MapTypeOK
  <2>2. CraterTarget(q, b) = -Min({a, b})
    BY DEF CraterTarget
  <2> HIDE DEF a, b
  <2>3. Min({a, b}) \in Int /\ Min({a, b}) <= a
    BY <2>1, MinOfTwo
  <2> QED BY <2>1, <2>2, <2>3 DEF a, b
<1>4. MapTypeOK'
  <2>1. growthTarget' \in [Points -> Int]
    BY <1>1, <1>3 DEF GroundInv, MapTypeOK
  <2>2. growthPerTick' \in [Points -> {0, RaiseSpeed, CraterSpeed}]
    BY <1>1, Speeds DEF GroundInv, MapTypeOK
  <2> QED BY <1>1, <1>2, <2>1, <2>2 DEF GroundInv, MapTypeOK
<1>5. ASSUME NEW q \in Points
      PROVE  /\ height'[q] + growthTarget'[q] >= 0
             /\ growthTarget'[q] # 0 => Grows(q)'
  <2>1. /\ height[q] \in Nat /\ growthTarget[q] \in Int
        /\ growthProgress[q] \in 0 .. Level - 1
        /\ height[q] + growthTarget[q] >= 0
        /\ growthTarget[q] # 0 => q \in growingPoints
    BY DEF GroundInv, MapTypeOK, NeverBelowZero, NoneForgotten, Grows
  <2>2. growthProgress'[q] < Level
    BY <1>1, <2>1, Speeds
  <2>3. CASE q \in hit
    BY <1>1, <1>3, <2>1, <2>2, <2>3 DEF Grows
  <2>4. CASE q \notin hit
    BY <1>1, <2>1, <2>2, <2>4 DEF Grows
  <2> QED BY <2>3, <2>4
<1> QED BY <1>4, <1>5 DEF GroundInv, NeverBelowZero, NoneForgotten

\* Progress stays below a level: no point gains more than one in a tick.
LEMMA ProgressType ==
  ASSUME MapTypeOK, NEW p \in Points, Grows(p)
  PROVE  ProgressAfter(p) \in 0 .. Level - 1
<1>1. /\ growthProgress[p] \in 0 .. Level - 1
      /\ growthPerTick[p] \in {0, RaiseSpeed, CraterSpeed}
  BY DEF MapTypeOK
<1>2. growthPerTick[p] \in 0 .. Level /\ Level \in Nat
  BY <1>1, Speeds
<1>3. Passes(p) <=> growthProgress[p] + growthPerTick[p] >= Level
  BY DEF Passes
<1> QED BY <1>1, <1>2, <1>3 DEF ProgressAfter

\* Map::tick preserves the invariant.
LEMMA GroundTick ==
  ASSUME GroundInv, MapTick
  PROVE  GroundInv'
<1> DEFINE g == SecondLoop[PointCount]
<1>1. /\ height' = g.height
      /\ growthTarget' = g.target
      /\ growthPerTick' = g.speed
      /\ growingPoints' = g.growing
      /\ risen' = risen \cup g.up
      /\ growthProgress' = [p \in Points |-> IF Grows(p) THEN ProgressAfter(p)
                                                    ELSE growthProgress[p]]
      /\ entity' = [p \in Points |-> IF entity[p] \in Destroyed THEN NoEntity
                                                           ELSE entity[p]]
      /\ landing' = TRUE
      /\ UNCHANGED <<positionZ, raises, rockets, buildings>>
  BY DEF MapTick
<1>2. g \in Growths /\ SoundGrowth(g)
  BY LastPass DEF GroundInv
<1> HIDE DEF g
<1>3. growthProgress' \in [Points -> 0 .. Level - 1]
  BY <1>1, ProgressType DEF GroundInv, MapTypeOK
<1>4. MapTypeOK'
  <2>1. /\ height' \in [Points -> Nat]
        /\ growthTarget' \in [Points -> Int]
        /\ growthPerTick' \in [Points -> {0, RaiseSpeed, CraterSpeed}]
        /\ growingPoints' \subseteq Points
        /\ g.up \subseteq Points
    BY <1>1, <1>2 DEF Growths
  <2> QED BY <1>1, <1>3, <2>1 DEF GroundInv, MapTypeOK
<1>5. NeverBelowZero'
  BY <1>1, <1>2 DEF SoundGrowth, Planned, NeverBelowZero
<1>6. NoneForgotten'
  <2>1. \A p \in Points : growthProgress'[p] < Level
    BY <1>3, Speeds
  <2> QED BY <1>1, <1>2, <2>1 DEF SoundGrowth, NoneForgotten, Grows
<1> QED BY <1>4, <1>5, <1>6 DEF GroundInv

\* So does every step.
LEMMA GroundStep ==
  ASSUME GroundInv, [Next]_vars
  PROVE  GroundInv'
<1>1. ASSUME NEW p \in Points, NEW s \in Points, Raise(p, s)
      PROVE  GroundInv'
  BY <1>1, GroundRaise
<1>2. ASSUME NEW p \in Points, Build(p)
      PROVE  GroundInv'
  BY <1>2, GroundBuild
<1>3. ASSUME NEW p \in Points, RocketLands(p)
      PROVE  GroundInv'
  BY <1>3, GroundRocket
<1>4. CASE MapTick
  BY <1>4, GroundTick
<1>5. CASE UNCHANGED vars
  BY <1>5 DEF vars, ground, GroundInv, MapTypeOK, NeverBelowZero, NoneForgotten,
              Grows
<1> QED BY <1>1, <1>2, <1>3, <1>4, <1>5 DEF Next

\* The invariant holds in every reachable state.
LEMMA GroundHolds == Spec => []GroundInv
<1>1. Init => GroundInv
  BY GroundInit
<1>2. GroundInv /\ [Next]_vars => GroundInv'
  BY GroundStep
<1> QED BY <1>1, <1>2, PTL DEF Spec

\* The state of the map is always of its type: among other things, no height
\* is negative, and no point has progress of a level or more.
THEOREM MapTypes == Spec => []MapTypeOK
<1>1. GroundInv => MapTypeOK
  BY DEF GroundInv
<1> QED BY <1>1, GroundHolds, PTL

\* The assert of Map::tick holds: whatever is raised and dug, and however the
\* cascades meet, nothing is to sink below zero.
THEOREM NothingSinksBelowZero == Spec => []NeverBelowZero
<1>1. GroundInv => NeverBelowZero
  BY DEF GroundInv
<1> QED BY <1>1, GroundHolds, PTL

\* A point that is to grow is grown by the next tick: the tick drops none
\* from growingPoints that is.
THEOREM NoPointForgotten == Spec => []NoneForgotten
<1>1. GroundInv => NoneForgotten
  BY DEF GroundInv
<1> QED BY <1>1, GroundHolds, PTL
-----------------------------------------------------------------------------
(* How high the ground gets.  A cascade plans a point at a level below one  *)
(* that has just risen, which had been planned, or lower than it was        *)
(* planned itself.                                                          *)

\* What is not above something reached is reached.
LEMMA LowerIsReached ==
  ASSUME MapTypeOK, NEW h \in Int, NEW k \in Int, k <= h, Reached(h)
  PROVE  Reached(k)
<1>1. \A q \in Points : height[q] \in Int /\ height[q] + growthTarget[q] \in Int
  BY DEF MapTypeOK
<1> QED BY <1>1 DEF Reached

\* So are a point's height and what it is planned to be.
LEMMA PointIsReached ==
  ASSUME MapTypeOK, NEW p \in Points
  PROVE  /\ height[p] \in Int /\ growthTarget[p] \in Int
         /\ Reached(height[p]) /\ Reached(height[p] + growthTarget[p])
<1>1. height[p] \in Int /\ growthTarget[p] \in Int
  BY DEF MapTypeOK
<1> QED BY <1>1 DEF Reached

\* The invariant of the second loop.
LowGrowth(g) ==
  \A n \in Points : Reached(g.height[n]) /\ Reached(Planned(g, n))

\* Points that are to end at a height that is reached keep the growth low.
LEMMA ReplanLow ==
  ASSUME NEW g \in Growths, NEW p \in Points, NEW ns \in SUBSET Points,
         NEW h \in Int, \A n \in ns : Reached(h), LowGrowth(g)
  PROVE  LowGrowth(Replan(g, p, ns, h))
<1> DEFINE r == Replan(g, p, ns, h)
<1>1. r.height = g.height
  BY ReplanType
<1>2. ASSUME NEW n \in Points
      PROVE  /\ g.height[n] \in Int
             /\ n \in ns => r.target[n] = h - g.height[n]
             /\ n \notin ns => r.target[n] = g.target[n]
  BY DEF Replan, Growths
<1> HIDE DEF r
<1>3. ASSUME NEW n \in Points
      PROVE  Reached(r.height[n]) /\ Reached(Planned(r, n))
  <2>1. Reached(g.height[n]) /\ Reached(Planned(g, n))
    BY DEF LowGrowth
  <2>2. CASE n \in ns
    <3>1. Planned(r, n) = h
      BY <1>1, <1>2, <2>2 DEF Planned
    <3> QED BY <1>1, <2>1, <2>2, <3>1
  <2>3. CASE n \notin ns
    <3>1. Planned(r, n) = Planned(g, n)
      BY <1>1, <1>2, <2>3 DEF Planned
    <3> QED BY <1>1, <2>1, <3>1
  <2> QED BY <2>2, <2>3
<1> QED BY <1>3 DEF LowGrowth, r

\* So do cascades.
LEMMA CascadeLow ==
  ASSUME MapTypeOK, NEW g \in Growths, NEW p \in Points, LowGrowth(g)
  PROVE  LowGrowth(Cascade(g, p))
<1>1. g.height[p] \in Nat /\ Reached(g.height[p])
  BY DEF Growths, LowGrowth
<1>2. CASE Cascade(g, p) = CascadeUp(g, p)
  <2> DEFINE ns == {n \in Neighbors[p] : Planned(g, n) + 1 < g.height[p]}
             h  == g.height[p] - 1
  <2>1. Cascade(g, p) = Replan(g, p, ns, h)
    BY <1>2 DEF CascadeUp
  <2>2. ns \in SUBSET Points /\ h \in Int /\ h <= g.height[p]
    BY <1>1, NeighborsType
  <2> HIDE DEF ns, h
  <2>3. Reached(h)
    BY <1>1, <2>2, LowerIsReached
  <2> QED BY <2>1, <2>2, <2>3, ReplanLow
<1>3. CASE Cascade(g, p) = CascadeDown(g, p)
  <2> DEFINE ns == {n \in Neighbors[p] : Planned(g, n) > g.height[p] + 1}
             h  == g.height[p] + 1
  <2>1. Cascade(g, p) = Replan(g, p, ns, h)
    BY <1>3 DEF CascadeDown
  <2>2. ns \in SUBSET Points /\ h \in Int
    BY <1>1, NeighborsType
  <2>3. ASSUME NEW n \in ns
        PROVE  Reached(h)
    <3>1. Planned(g, n) \in Int /\ Reached(Planned(g, n))
      BY <2>2 DEF Planned, Growths, LowGrowth
    <3>2. h <= Planned(g, n)
      BY <1>1, <3>1
    <3> HIDE DEF ns, h
    <3> QED BY <2>2, <3>1, <3>2, LowerIsReached
  <2> HIDE DEF ns, h
  <2> QED BY <2>1, <2>2, <2>3, ReplanLow
<1> QED BY <1>2, <1>3, CascadePass

\* The first loop: a point rises toward what is planned, or sinks.
LEMMA FirstLoopLow ==
  ASSUME MapTypeOK
  PROVE  LowGrowth(FirstLoop)
<1>1. ASSUME NEW p \in Points
      PROVE  Reached(HeightAfter(p)) /\ Reached(HeightAfter(p) + TargetAfter(p))
  <2>1. height[p] \in Nat /\ growthTarget[p] \in Int
    BY DEF MapTypeOK
  <2>2. (Rises(p) => growthTarget[p] > 0) /\ (Falls(p) => growthTarget[p] < 0)
    BY DEF Rises, Falls
  <2>3. /\ HeightAfter(p) \in Int
        /\ \/ HeightAfter(p) <= height[p]
           \/ HeightAfter(p) <= height[p] + growthTarget[p]
        /\ HeightAfter(p) + TargetAfter(p) = height[p] + growthTarget[p]
    BY <2>1, <2>2 DEF HeightAfter, TargetAfter
  <2>4. /\ height[p] + growthTarget[p] \in Int
        /\ Reached(height[p]) /\ Reached(height[p] + growthTarget[p])
    BY <2>1, PointIsReached
  <2>5. Reached(HeightAfter(p))
    BY <2>1, <2>3, <2>4, LowerIsReached
  <2> QED BY <2>3, <2>4, <2>5
<1> QED BY <1>1 DEF LowGrowth, FirstLoop, Planned

\* The growth is low all through the second loop, and so at its end.
LEMMA SecondLoopLow ==
  ASSUME MapTypeOK
  PROVE  LowGrowth(SecondLoop[PointCount])
<1> DEFINE S == {i \in 0 .. PointCount : LowGrowth(SecondLoop[i])}
<1>1. PointCount \in Nat
  BY PointCountNat
<1>2. 0 \in S
  BY <1>1, SecondLoopRuns, FirstLoopLow
<1>3. ASSUME NEW i \in 1 .. PointCount, i - 1 \in S
      PROVE  i \in S
  <2>1. i - 1 \in 0 .. PointCount /\ i \in 0 .. PointCount
    BY <1>1
  <2>2. SecondLoop[i - 1] \in Growths /\ PointSeq[i] \in Points
    BY <2>1, SecondLoopRuns, PointSeqType
  <2>3. LowGrowth(Cascade(SecondLoop[i - 1], PointSeq[i]))
    BY <1>3, <2>2, CascadeLow
  <2> QED BY <2>1, <2>3, SecondLoopRuns
<1>4. \A i \in 0 .. PointCount : i \in S
  <2> HIDE DEF S
  <2> QED BY <1>1, <1>2, <1>3, LoopInduction
<1>5. PointCount \in 0 .. PointCount
  BY <1>1
<1> QED BY <1>4, <1>5

\* An order to raise reaches one level more.
LEMMA RaiseRises ==
  ASSUME MapTypeOK, NEW p \in Points, NEW s \in Points, Raise(p, s),
         NEW q \in Points
  PROVE  /\ raises' - raises = 1
         /\ Reached(height'[q] - 1)
         /\ Reached(height'[q] + growthTarget'[q] - 1)
<1> DEFINE R   == Rectangle(p, s)
           top == RaisedTo(R)
<1>1. /\ growthTarget' = [n \in Points |-> IF n \in R THEN top - height[n]
                                                     ELSE growthTarget[n]]
      /\ raises' = raises + 1 /\ height' = height
  BY DEF Raise
<1>2. R \in SUBSET Points
  BY DEF Rectangle
<1>3. R # {} => top \in Nat /\ \E n \in R : top <= height[n] + 1
  BY <1>2, RaisedToIsHigh
<1> HIDE DEF R, top
<1>4. raises \in Nat
  BY DEF MapTypeOK
<1>5. /\ height[q] \in Int /\ growthTarget[q] \in Int
      /\ Reached(height[q]) /\ Reached(height[q] + growthTarget[q])
  BY PointIsReached
<1>6. Reached(height[q] - 1)
  <2>1. height[q] - 1 \in Int /\ height[q] - 1 <= height[q]
    BY <1>5
  <2> QED BY <1>5, <2>1, LowerIsReached
<1>7. CASE q \in R
  <2>1. PICK n \in R : top <= height[n] + 1
    BY <1>3, <1>7
  <2>2. top \in Nat /\ n \in Points /\ height[n] \in Int /\ Reached(height[n])
    BY <1>2, <1>3, <1>7, PointIsReached
  <2>3. top - 1 \in Int /\ top - 1 <= height[n]
    BY <2>1, <2>2
  <2>4. Reached(top - 1)
    BY <2>2, <2>3, LowerIsReached
  <2>5. height'[q] + growthTarget'[q] - 1 = top - 1
    BY <1>1, <1>5, <1>7, <2>2
  <2> QED BY <1>1, <1>4, <1>6, <2>4, <2>5
<1>8. CASE q \notin R
  <2> DEFINE h == height[q] + growthTarget[q]
  <2>1. h \in Int /\ h - 1 \in Int /\ h - 1 <= h
    BY <1>5
  <2>2. Reached(h - 1)
    BY <1>5, <2>1, LowerIsReached
  <2>3. height'[q] = height[q] /\ growthTarget'[q] = growthTarget[q]
    BY <1>1, <1>8
  <2>4. height'[q] + growthTarget'[q] - 1 = h - 1
    BY <1>5, <2>3
  <2> QED BY <1>1, <1>4, <1>6, <2>2, <2>4
<1> QED BY <1>7, <1>8

\* A crater is planned no higher than the ground.
LEMMA RocketRises ==
  ASSUME MapTypeOK, NEW p \in Points, RocketLands(p), NEW q \in Points
  PROVE  Reached(height'[q]) /\ Reached(height'[q] + growthTarget'[q])
<1> DEFINE hit      == {p} \cup Neighbors[p]
           depth(n) == IF n = p THEN 2 ELSE 1
<1>1. /\ growthTarget' = [n \in Points |-> IF n \in hit
                                             THEN CraterTarget(n, depth(n))
                                             ELSE growthTarget[n]]
      /\ height' = height
  BY DEF RocketLands
<1>2. /\ height[q] \in Nat
      /\ Reached(height[q]) /\ Reached(height[q] + growthTarget[q])
  BY PointIsReached DEF MapTypeOK
<1>3. CASE q \in hit
  <2> DEFINE a == height[q]
             b == depth(q)
             m == Min({a, b})
  <2>1. a \in Nat /\ b \in Nat
    BY <1>2
  <2>2. growthTarget'[q] = -m
    BY <1>1, <1>3 DEF CraterTarget
  <2> HIDE DEF hit, depth, a, b
  <2>3. m \in {a, b}
    BY <2>1, MinOfTwo
  <2>4. m \in Nat
    BY <2>1, <2>3
  <2> HIDE DEF m
  <2>5. /\ height'[q] + growthTarget'[q] \in Int
        /\ height'[q] + growthTarget'[q] <= height[q]
    BY <1>1, <1>2, <2>2, <2>4
  <2> QED BY <1>1, <1>2, <2>5, LowerIsReached
<1>4. CASE q \notin hit
  BY <1>1, <1>2, <1>4
<1> QED BY <1>3, <1>4

\* Every step keeps the ground low, but for the level that an order adds.
LEMMA StepRises ==
  ASSUME GroundInv, [Next]_vars, NEW q \in Points
  PROVE  /\ Reached(height'[q] - (raises' - raises))
         /\ Reached(height'[q] + growthTarget'[q] - (raises' - raises))
<1>1. MapTypeOK /\ MapTypeOK'
  BY GroundStep DEF GroundInv
<1>2. height'[q] \in Int /\ growthTarget'[q] \in Int /\ raises \in Nat
  BY <1>1 DEF MapTypeOK
<1>3. ASSUME NEW p \in Points, NEW s \in Points, Raise(p, s)
      PROVE  /\ Reached(height'[q] - (raises' - raises))
             /\ Reached(height'[q] + growthTarget'[q] - (raises' - raises))
  BY <1>1, <1>3, RaiseRises
<1>4. ASSUME Reached(height'[q]) /\ Reached(height'[q] + growthTarget'[q]),
             raises' = raises
      PROVE  /\ Reached(height'[q] - (raises' - raises))
             /\ Reached(height'[q] + growthTarget'[q] - (raises' - raises))
  <2>1. raises' - raises = 0
    BY <1>2, <1>4
  <2>2. /\ height'[q] - 0 = height'[q]
        /\ height'[q] + growthTarget'[q] - 0 = height'[q] + growthTarget'[q]
    BY <1>2
  <2> QED BY <1>4, <2>1, <2>2
<1>5. ASSUME NEW p \in Points, RocketLands(p)
      PROVE  /\ Reached(height'[q]) /\ Reached(height'[q] + growthTarget'[q])
             /\ raises' = raises
  <2>1. raises' = raises
    BY <1>5 DEF RocketLands
  <2> QED BY <1>1, <1>5, <2>1, RocketRises
<1>6. CASE MapTick
  <2>1. /\ height' = SecondLoop[PointCount].height
        /\ growthTarget' = SecondLoop[PointCount].target
        /\ raises' = raises
    BY <1>6 DEF MapTick
  <2>2. LowGrowth(SecondLoop[PointCount])
    BY <1>1, SecondLoopLow
  <2>3. Reached(height'[q]) /\ Reached(height'[q] + growthTarget'[q])
    BY <2>1, <2>2 DEF LowGrowth, Planned
  <2> QED BY <1>4, <2>1, <2>3
<1>7. CASE UNCHANGED <<height, growthTarget, raises>>
  <2>1. Reached(height[q]) /\ Reached(height[q] + growthTarget[q])
    BY <1>1, PointIsReached
  <2> QED BY <1>4, <1>7, <2>1
<1>8. ASSUME NEW p \in Points, Build(p)
      PROVE  UNCHANGED <<height, growthTarget, raises>>
  BY <1>8 DEF Build, ground
<1>9. UNCHANGED vars => UNCHANGED <<height, growthTarget, raises>>
  BY DEF vars, ground
<1> QED BY <1>3, <1>4, <1>5, <1>6, <1>7, <1>8, <1>9 DEF Next

\* Nothing rises above what is the highest or is planned to be, but by an order
\* and by one level: cascades and craters that meet never add up to more.
THEOREM OnlyOrdersRaise == Spec => RisesByOrdersOnly
<1>1. GroundInv /\ [Next]_vars =>
        [\A p \in Points :
           LET ordered == raises' - raises
           IN  /\ Reached(height'[p] - ordered)
               /\ Reached(height'[p] + growthTarget'[p] - ordered)]_vars
  BY StepRises
<1> QED BY <1>1, GroundHolds, PTL DEF Spec, RisesByOrdersOnly
-----------------------------------------------------------------------------
(* While no rocket has landed, points only rise: targets are not negative,  *)
(* a cascade only adds to them, and so what has risen keeps its neighbours  *)
(* close.                                                                   *)

Raising == \A p \in Points : growthTarget[p] >= 0 /\ StoppedClean(p)

RaisingInv == GroundInv /\ NoneLeftBehind /\ (rockets = 0 => Raising)

\* One pass of the second loop when nothing sinks.
LEMMA CascadeRaises ==
  ASSUME NEW g \in Growths, NEW p \in Points, g.down = {}
  PROVE  /\ \A n \in Points : Cascade(g, p).target[n] >= g.target[n]
         /\ p \in g.up => \A n \in Neighbors[p] :
                g.height[p] <= g.height[n] + Cascade(g, p).target[n] + 1
<1>1. /\ \A n \in Points : g.height[n] \in Nat /\ g.target[n] \in Int
      /\ Neighbors[p] \subseteq Points
  BY NeighborsType DEF Growths
<1>2. CASE p \notin g.up
  <2>1. Cascade(g, p) = g
    BY <1>2, CascadePass
  <2> QED BY <1>1, <1>2, <2>1
<1>3. CASE p \in g.up
  <2> DEFINE ns == {n \in Neighbors[p] : Planned(g, n) + 1 < g.height[p]}
             h  == g.height[p] - 1
             r  == Replan(g, p, ns, h)
  <2>1. Cascade(g, p) = r
    BY <1>3 DEF Cascade, CascadeUp
  <2>2. ns \in SUBSET Points /\ h \in Int /\ h = g.height[p] - 1
    BY <1>1
  <2>3. /\ \A n \in ns : g.height[n] + g.target[n] + 1 < g.height[p]
        /\ \A n \in Neighbors[p] :
             n \notin ns => ~ (g.height[n] + g.target[n] + 1 < g.height[p])
    BY DEF Planned
  <2> HIDE DEF ns, h
  <2>4. ASSUME NEW n \in Points
        PROVE  /\ n \in ns => r.target[n] = h - g.height[n]
               /\ n \notin ns => r.target[n] = g.target[n]
    BY <2>2 DEF Replan, Growths
  <2> HIDE DEF r
  <2>5. ASSUME NEW n \in Points
        PROVE  r.target[n] >= g.target[n]
    BY <1>1, <2>2, <2>3, <2>4
  <2>6. ASSUME NEW n \in Neighbors[p]
        PROVE  g.height[p] <= g.height[n] + r.target[n] + 1
    BY <1>1, <2>2, <2>3, <2>4
  <2> QED BY <2>1, <2>5, <2>6
<1> QED BY <1>2, <1>3

\* What the first loop leaves behind when nothing sinks.
LEMMA FirstLoopRaises ==
  ASSUME GroundInv, Raising, NEW p \in Points
  PROVE  /\ p \notin FirstLoop.down
         /\ FirstLoop.target[p] >= 0
         /\ FirstLoop.height[p] + FirstLoop.target[p]
              = height[p] + growthTarget[p]
         /\ p \notin FirstLoop.up => FirstLoop.height[p] = height[p]
<1>1. height[p] \in Nat /\ growthTarget[p] \in Nat
  BY DEF GroundInv, MapTypeOK, Raising
<1>2. ~ Falls(p) /\ (Rises(p) => growthTarget[p] > 0)
  BY <1>1 DEF Falls, Rises
<1>3. /\ HeightAfter(p) = height[p] + (IF Rises(p) THEN 1 ELSE 0)
      /\ TargetAfter(p) = growthTarget[p] - (IF Rises(p) THEN 1 ELSE 0)
  BY <1>1, <1>2 DEF HeightAfter, TargetAfter
<1>4. /\ FirstLoop.height[p] = HeightAfter(p)
      /\ FirstLoop.target[p] = TargetAfter(p)
      /\ p \in FirstLoop.up <=> Rises(p)
      /\ p \in FirstLoop.down <=> Falls(p)
  BY DEF FirstLoop
<1> QED BY <1>1, <1>2, <1>3, <1>4

\* What has risen earlier, or in this tick and was visited by one of the
\* first i passes.
Kept(i) ==
  (risen \ FirstLoop.up)
    \cup {q \in FirstLoop.up : \E j \in 1 .. i : PointSeq[j] = q}

\* After the i-th pass, no target has shrunk, and those leave no neighbour
\* behind.
RaisedSoFar(i) ==
  /\ \A n \in Points : SecondLoop[i].target[n] >= FirstLoop.target[n]
  /\ \A q \in Kept(i) : \A n \in Neighbors[q] :
       FirstLoop.height[q]
         <= FirstLoop.height[n] + SecondLoop[i].target[n] + 1

\* What the second loop is to achieve holds at its start.
LEMMA RaisedAtFirst ==
  ASSUME GroundInv, Raising, NoneLeftBehind, rockets = 0
  PROVE  RaisedSoFar(0)
<1>1. SecondLoop[0] = FirstLoop /\ FirstLoop \in Growths
  BY SecondLoopRuns, FirstLoopType DEF GroundInv
<1>2. \A n \in Points : FirstLoop.target[n] \in Int
  BY <1>1 DEF Growths
<1>3. ASSUME NEW q \in Kept(0), NEW n \in Neighbors[q]
      PROVE  FirstLoop.height[q]
               <= FirstLoop.height[n] + FirstLoop.target[n] + 1
  <2>1. q \in risen /\ q \notin FirstLoop.up /\ q \in Points
    BY <1>3 DEF Kept, GroundInv, MapTypeOK
  <2>2. n \in Points
    BY <2>1, NeighborsType
  <2>3. height[q] <= height[n] + growthTarget[n] + 1
    BY <2>1 DEF NoneLeftBehind
  <2> QED BY <2>1, <2>2, <2>3, FirstLoopRaises
<1> QED BY <1>1, <1>2, <1>3 DEF RaisedSoFar

\* Every pass of the second loop preserves it.
LEMMA RaisedAgain ==
  ASSUME GroundInv, Raising, NEW i \in 1 .. PointCount, RaisedSoFar(i - 1)
  PROVE  RaisedSoFar(i)
<1> DEFINE g == SecondLoop[i - 1]
           p == PointSeq[i]
           c == Cascade(g, p)
           F == FirstLoop
<1>1. PointCount \in Nat /\ i - 1 \in 0 .. PointCount
  BY PointCountNat
<1>2. g \in Growths /\ SoundGrowth(g) /\ F \in Growths
  BY <1>1, SecondLoopRuns, SecondLoopSound, FirstLoopType DEF GroundInv
<1>3. p \in Points
  BY PointSeqType
<1>4. SecondLoop[i] = c
  BY SecondLoopRuns DEF GroundInv
<1>5. F.down = {}
  BY <1>2, FirstLoopRaises DEF Growths
<1>6. g.down = {} /\ g.up = F.up /\ g.height = F.height
  BY <1>2, <1>5 DEF SoundGrowth
<1>7. c \in Growths
  BY <1>2, <1>3, CascadeType
<1>8. /\ \A n \in Points : c.target[n] >= g.target[n]
      /\ p \in g.up => \A n \in Neighbors[p] :
           g.height[p] <= g.height[n] + c.target[n] + 1
  BY <1>2, <1>3, <1>6, CascadeRaises
<1>9. /\ \A n \in Points : g.target[n] >= F.target[n]
      /\ \A q \in Kept(i - 1) : \A n \in Neighbors[q] :
           F.height[q] <= F.height[n] + g.target[n] + 1
  BY DEF RaisedSoFar
<1>10. ASSUME NEW q \in Kept(i), q \notin Kept(i - 1)
       PROVE  q = p /\ q \in F.up
  <2>1. \A j : j \in 1 .. i <=> j = i \/ j \in 1 .. (i - 1)
    BY <1>1
  <2> QED BY <2>1, <1>10 DEF Kept
<1>11. Kept(i) \subseteq Points
  BY <1>2 DEF Kept, Growths, GroundInv, MapTypeOK
<1>12. \A n \in Points : /\ F.height[n] \in Int /\ F.target[n] \in Int
                          /\ g.target[n] \in Int /\ c.target[n] \in Int
  BY <1>2, <1>7 DEF Growths
<1> HIDE DEF g, p, c, F
<1>13. \A n \in Points : c.target[n] >= F.target[n]
  BY <1>8, <1>9, <1>12
<1>14. ASSUME NEW q \in Kept(i), NEW n \in Neighbors[q]
       PROVE  F.height[q] <= F.height[n] + c.target[n] + 1
  <2>1. q \in Points /\ n \in Points
    BY <1>11, NeighborsType
  <2>2. CASE q \in Kept(i - 1)
    <3>1. F.height[q] <= F.height[n] + g.target[n] + 1
      BY <1>9, <2>2
    <3>2. c.target[n] >= g.target[n]
      BY <1>8, <2>1
    <3> QED BY <3>1, <3>2, <2>1, <1>12
  <2>3. CASE q \notin Kept(i - 1)
    BY <1>6, <1>8, <1>10, <2>3
  <2> QED BY <2>2, <2>3
<1> QED BY <1>4, <1>13, <1>14 DEF RaisedSoFar, F

\* So it holds at the end of the loop.
LEMMA RaisedInTheEnd ==
  ASSUME GroundInv, Raising, NoneLeftBehind, rockets = 0
  PROVE  RaisedSoFar(PointCount)
<1> DEFINE S == {i \in 0 .. PointCount : RaisedSoFar(i)}
<1>1. PointCount \in Nat /\ 0 \in 0 .. PointCount
      /\ PointCount \in 0 .. PointCount
  BY PointCountNat
<1>2. 0 \in S
  BY <1>1, RaisedAtFirst
<1>3. ASSUME NEW i \in 1 .. PointCount, i - 1 \in S
      PROVE  i \in S
  <2>1. RaisedSoFar(i - 1)
    BY <1>3
  <2>2. i \in 0 .. PointCount
    BY <1>1
  <2> QED BY <2>1, <2>2, RaisedAgain
<1>4. PointCount \in S
  <2> HIDE DEF S
  <2> QED BY <1>1, <1>2, <1>3, LoopInduction
<1> QED BY <1>4

\* Without rockets Map::tick leaves no neighbour behind.
LEMMA RaisingTick ==
  ASSUME RaisingInv, MapTick, rockets = 0
  PROVE  NoneLeftBehind' /\ Raising'
<1> DEFINE g == SecondLoop[PointCount]
           F == FirstLoop
<1>1. /\ height' = g.height
      /\ growthTarget' = g.target
      /\ risen' = risen \cup g.up
      /\ growthProgress' = [p \in Points |-> IF Grows(p) THEN ProgressAfter(p)
                                                    ELSE growthProgress[p]]
  BY DEF MapTick
<1>2. g \in Growths /\ SoundGrowth(g) /\ RaisedSoFar(PointCount)
  BY LastPass, RaisedInTheEnd DEF RaisingInv, GroundInv
<1>3. g.height = F.height /\ g.up = F.up
  BY <1>2 DEF SoundGrowth
<1>4. F \in Growths
  BY FirstLoopType DEF RaisingInv, GroundInv
<1>5. risen \cup F.up = Kept(PointCount)
  <2>1. \A q \in F.up : \E j \in 1 .. PointCount : PointSeq[j] = q
    BY <1>4, PointSeqOnto DEF Growths
  <2> QED BY <2>1 DEF Kept
<1>6. /\ \A n \in Points : g.target[n] >= F.target[n]
      /\ \A q \in Kept(PointCount) : \A n \in Neighbors[q] :
           F.height[q] <= F.height[n] + g.target[n] + 1
  BY <1>2 DEF RaisedSoFar
<1>7. NoneLeftBehind'
  BY <1>1, <1>3, <1>5, <1>6 DEF NoneLeftBehind
<1>8. ASSUME NEW p \in Points
      PROVE  growthTarget'[p] >= 0 /\ StoppedClean(p)'
  <2>1. /\ height[p] \in Nat /\ growthTarget[p] \in Int
        /\ growthProgress[p] \in 0 .. Level - 1
    BY DEF RaisingInv, GroundInv, MapTypeOK
  <2>2. growthTarget[p] >= 0 /\ StoppedClean(p)
    BY DEF RaisingInv, Raising
  <2>3. F.target[p] >= 0 /\ g.target[p] >= F.target[p]
    BY <1>6, FirstLoopRaises DEF RaisingInv
  <2>4. F.target[p] = TargetAfter(p)
    BY DEF FirstLoop
  <2>5. g.target[p] \in Int /\ F.target[p] \in Int
    BY <1>2, <1>4 DEF Growths
  <2> HIDE DEF g, F
  <2>6. growthTarget'[p] >= 0
    BY <1>1, <2>3, <2>5
  <2>7. CASE TargetAfter(p) # 0
    BY <1>1, <2>3, <2>4, <2>5, <2>7 DEF StoppedClean
  <2>8. CASE Grows(p) /\ TargetAfter(p) = 0
    <3>1. growthTarget[p] # 0
      BY <2>8 DEF Grows
    <3>2. Passes(p)
      BY <2>1, <2>8, <3>1 DEF TargetAfter, Rises, Falls
    <3> QED BY <1>1, <2>6, <2>8, <3>2 DEF StoppedClean, ProgressAfter
  <2>9. CASE ~ Grows(p)
    <3>1. growthTarget[p] = 0
      BY <2>9 DEF RaisingInv, GroundInv, NoneForgotten
    <3> QED BY <1>1, <2>2, <2>6, <2>9, <3>1 DEF StoppedClean
  <2> QED BY <2>6, <2>7, <2>8, <2>9
<1> QED BY <1>7, <1>8 DEF Raising

\* Without rockets a raising leaves no neighbour behind.
LEMMA RaisingRaise ==
  ASSUME RaisingInv, NEW p \in Points, NEW s \in Points, Raise(p, s),
         rockets = 0
  PROVE  NoneLeftBehind' /\ Raising'
<1> DEFINE R   == Rectangle(p, s)
           top == RaisedTo(R)
<1>1. /\ \A q \in R : growthTarget[q] = 0
      /\ growthTarget' = [q \in Points |-> IF q \in R THEN top - height[q]
                                                     ELSE growthTarget[q]]
      /\ UNCHANGED <<height, growthProgress, risen>>
  BY DEF Raise, Usable
<1>2. R \subseteq Points
  BY DEF Rectangle
<1>3. R # {} => top \in Nat /\ \A q \in R : height[q] <= top
  BY <1>2, RaisedToIsHigh DEF RaisingInv, GroundInv
<1> HIDE DEF R, top
<1>4. ASSUME NEW q \in Points
      PROVE  /\ growthTarget'[q] >= growthTarget[q]
             /\ growthTarget'[q] \in Int /\ growthTarget[q] \in Int
             /\ height[q] \in Int
  <2>1. height[q] \in Nat /\ growthTarget[q] \in Int
    BY DEF RaisingInv, GroundInv, MapTypeOK
  <2>2. CASE q \in R
    <3>1. top \in Nat /\ height[q] <= top /\ growthTarget[q] = 0
      BY <1>1, <1>3, <2>2
    <3> QED BY <1>1, <2>1, <2>2, <3>1
  <2>3. CASE q \notin R
    BY <1>1, <2>1, <2>3
  <2> QED BY <2>2, <2>3
<1>5. NoneLeftBehind'
  <2> SUFFICES ASSUME NEW q \in risen, NEW n \in Neighbors[q]
               PROVE  height[q] <= height[n] + growthTarget'[n] + 1
    BY <1>1 DEF NoneLeftBehind
  <2>1. q \in Points /\ n \in Points
    BY NeighborsType DEF RaisingInv, GroundInv, MapTypeOK
  <2>2. height[q] <= height[n] + growthTarget[n] + 1
    BY DEF RaisingInv, NoneLeftBehind
  <2> QED BY <1>4, <2>1, <2>2
<1>6. ASSUME NEW q \in Points
      PROVE  growthTarget'[q] >= 0 /\ StoppedClean(q)'
  <2>1. growthTarget[q] >= 0 /\ StoppedClean(q)
    BY DEF RaisingInv, Raising
  <2>2. growthTarget[q] = 0 => growthProgress'[q] = 0
    BY <1>1, <2>1 DEF StoppedClean
  <2> QED BY <1>4, <2>1, <2>2 DEF StoppedClean
<1> QED BY <1>5, <1>6 DEF Raising

\* The invariant of maps without rockets holds at first.
LEMMA RaisingInit == Init => RaisingInv
<1> SUFFICES ASSUME Init PROVE RaisingInv
  OBVIOUS
<1>1. /\ risen = {}
      /\ \A p \in Points : growthTarget[p] = 0 /\ growthProgress[p] = 0
  BY DEF Init
<1> QED BY <1>1, GroundInit
        DEF RaisingInv, NoneLeftBehind, Raising, StoppedClean

\* It is preserved where nothing it speaks of changes.
LEMMA RaisingUntouched ==
  ASSUME NoneLeftBehind, rockets = 0 => Raising,
         UNCHANGED <<height, growthTarget, growthProgress, risen, rockets>>
  PROVE  NoneLeftBehind' /\ (rockets' = 0 => Raising')
BY DEF NoneLeftBehind, Raising, StoppedClean

\* Every step preserves it.
LEMMA RaisingStep ==
  ASSUME RaisingInv, [Next]_vars
  PROVE  RaisingInv'
<1>1. GroundInv'
  BY GroundStep DEF RaisingInv
<1>2. ASSUME rockets # 0, rockets' = rockets
      PROVE  NoneLeftBehind' /\ (rockets' = 0 => Raising')
  BY <1>2 DEF NoneLeftBehind
<1>3. ASSUME NEW p \in Points, NEW s \in Points, Raise(p, s)
      PROVE  NoneLeftBehind' /\ (rockets' = 0 => Raising')
  <2>1. rockets' = rockets
    BY <1>3 DEF Raise
  <2> QED BY <1>2, <1>3, <2>1, RaisingRaise
<1>4. ASSUME NEW p \in Points, Build(p)
      PROVE  NoneLeftBehind' /\ (rockets' = 0 => Raising')
  BY <1>4, RaisingUntouched DEF Build, ground, RaisingInv
<1>5. ASSUME NEW p \in Points, RocketLands(p)
      PROVE  NoneLeftBehind' /\ (rockets' = 0 => Raising')
  <2>1. rockets' # 0
    <3>1. rockets' = rockets + 1 /\ rockets \in Nat
      BY <1>5 DEF RocketLands, RaisingInv, GroundInv, MapTypeOK
    <3> QED BY <3>1
  <2> QED BY <2>1 DEF NoneLeftBehind
<1>6. ASSUME MapTick
      PROVE  NoneLeftBehind' /\ (rockets' = 0 => Raising')
  <2>1. rockets' = rockets
    BY <1>6 DEF MapTick
  <2>2. ASSUME rockets = 0
        PROVE  NoneLeftBehind' /\ Raising'
    BY <1>6, <2>2, RaisingTick
  <2> QED BY <1>2, <2>1, <2>2
<1>7. ASSUME UNCHANGED vars
      PROVE  NoneLeftBehind' /\ (rockets' = 0 => Raising')
  BY <1>7, RaisingUntouched DEF vars, ground, RaisingInv
<1>8. NoneLeftBehind' /\ (rockets' = 0 => Raising')
  BY <1>3, <1>4, <1>5, <1>6, <1>7 DEF Next
<1> QED BY <1>1, <1>8 DEF RaisingInv

\* It holds in every reachable state.
LEMMA RaisingHolds == Spec => []RaisingInv
<1>1. Init => RaisingInv
  BY RaisingInit
<1>2. RaisingInv /\ [Next]_vars => RaisingInv'
  BY RaisingStep
<1> QED BY <1>1, <1>2, PTL DEF Spec

\* While no rocket has landed, the assert of GridPoint::usable holds: a point
\* that does not grow has no progress left.
THEOREM RaisingNeverFailsUsable == Spec => []RaisingStopsClean
<1>1. RaisingInv => RaisingStopsClean
  BY DEF RaisingInv, Raising, RaisingStopsClean, StopsClean
<1> QED BY <1>1, RaisingHolds, PTL

\* While no rocket has landed, what has risen leaves no neighbour more than a
\* level behind, counting what that one has still to grow.
THEOREM RaisingLeavesNoneBehind == Spec => []NoneLeftBehind
<1>1. RaisingInv => NoneLeftBehind
  BY DEF RaisingInv
<1> QED BY <1>1, RaisingHolds, PTL

-----------------------------------------------------------------------------
(* The buildings. *)

\* A building covers the point it was placed at, and is named by it: no two
\* buildings have one name.
Anchored ==
  \A p \in Points : entity[p] # NoEntity => entity[entity[p]] = entity[p]

StandInv == GroundInv /\ Anchored /\ StandsLevel

\* A point that does not grow keeps its height.
LEMMA RestingPoint ==
  ASSUME GroundInv, MapTick, NEW p \in Points, p \notin Growing
  PROVE  height'[p] = height[p]
<1>1. height' = FirstLoop.height
  BY LastPass DEF MapTick, SoundGrowth, GroundInv
<1>2. ~ Rises(p) /\ ~ Falls(p)
  BY DEF Rises, Falls, Passes, Growing
<1>3. height[p] \in Nat
  BY DEF GroundInv, MapTypeOK
<1> QED BY <1>1, <1>2, <1>3 DEF FirstLoop, HeightAfter

\* The greater of two numbers.
LEMMA MaxOfTwo ==
  ASSUME NEW a \in Int, NEW b \in Int
  PROVE  /\ Max({a, b}) \in {a, b}
         /\ Max({a, b}) >= a /\ Max({a, b}) >= b
<1>1. \E m \in {a, b} : \A n \in {a, b} : m >= n
  <2>1. CASE a >= b BY <2>1
  <2>2. CASE b >= a BY <2>2
  <2> QED BY <2>1, <2>2
<1>2. Max({a, b}) \in {a, b} /\ \A n \in {a, b} : Max({a, b}) >= n
  BY <1>1 DEF Max
<1> QED BY <1>2

\* What canPlaceBuilding looks at contains all that the building will cover,
\* in particular the point it is placed at.
LEMMA SiteCoversBuilding ==
  ASSUME NEW p \in Points
  PROVE  /\ Rectangle(p, BuildingSize) \subseteq Site(p)
         /\ p \in Rectangle(p, BuildingSize)
<1> DEFINE x == Max({p[1] - 1, 0})
           y == Max({p[2] - 1, 0})
<1>1. p[1] \in Nat /\ p[2] \in Nat
  BY SizeAssumption DEF Points
<1>2. BuildingSize[1] \in Nat /\ BuildingSize[2] \in Nat
  BY BuildingSizeAssumption
<1>3. x \in 0 .. p[1] /\ y \in 0 .. p[2]
  <2>1. /\ x \in {p[1] - 1, 0} /\ x >= p[1] - 1 /\ x >= 0
        /\ y \in {p[2] - 1, 0} /\ y >= p[2] - 1 /\ y >= 0
    <3>1. p[1] - 1 \in Int /\ p[2] - 1 \in Int /\ 0 \in Int
      BY <1>1
    <3> QED BY <3>1, MaxOfTwo
  <2> HIDE DEF x, y
  <2> QED BY <2>1, <1>1
<1>4. p \in Rectangle(p, BuildingSize)
  BY <1>1, <1>2 DEF Rectangle
<1>5. ASSUME NEW q \in Rectangle(p, BuildingSize)
      PROVE  q \in Site(p)
  <2> HIDE DEF x, y
  <2>1. /\ q \in Points
        /\ q[1] \in p[1] .. (p[1] + BuildingSize[1])
        /\ q[2] \in p[2] .. (p[2] + BuildingSize[2])
    BY <1>5 DEF Rectangle
  <2>2. /\ q[1] \in x .. (x + (p[1] + BuildingSize[1] - x))
        /\ q[2] \in y .. (y + (p[2] + BuildingSize[2] - y))
    BY <2>1, <1>1, <1>2, <1>3
  <2> QED
    BY <2>1, <2>2 DEF Site, Rectangle, x, y
<1> QED BY <1>4, <1>5
-----------------------------------------------------------------------------
(* One lemma per action that matters. *)

\* The invariant about buildings holds at first.
LEMMA StandInit == Init => StandInv
<1> SUFFICES ASSUME Init PROVE StandInv
  OBVIOUS
<1>1. \A p \in Points : entity[p] = NoEntity
  BY DEF Init
<1> QED BY <1>1, GroundInit DEF StandInv, Anchored, StandsLevel

\* Orders to raise and rockets change no height yet, and no building.
LEMMA StandUntouched ==
  ASSUME StandInv, UNCHANGED <<height, entity, positionZ>>
  PROVE  Anchored' /\ StandsLevel'
BY DEF StandInv, Anchored, StandsLevel

\* A building goes up where no other stands and the ground is even.
LEMMA StandBuild ==
  ASSUME StandInv, NEW b \in Points, Build(b)
  PROVE  Anchored' /\ StandsLevel'
<1> DEFINE base == Rectangle(b, BuildingSize)
<1>1. /\ height' = height
      /\ entity' = [q \in Points |-> IF q \in base THEN b ELSE entity[q]]
      /\ positionZ' = [positionZ EXCEPT ![b] = height[b]]
  BY DEF Build, ground
<1>2. b \in base /\ \A q \in base : q \in Points
  BY SiteCoversBuilding DEF Rectangle
<1>3. \A q \in base : height[q] = height[b] /\ entity[q] = NoEntity
  BY SiteCoversBuilding DEF Build, CanPlaceBuilding, Usable
<1> HIDE DEF base
<1>4. /\ entity \in [Points -> Points \cup {NoEntity}]
      /\ positionZ \in [Points -> Nat]
  BY DEF StandInv, GroundInv, MapTypeOK
<1>5. ASSUME NEW p \in Points, p \notin base, entity[p] # NoEntity
      PROVE  entity[p] \in Points /\ entity[p] \notin base
  BY <1>3, <1>4, <1>5 DEF StandInv, Anchored
<1>6. Anchored'
  <2> SUFFICES ASSUME NEW p \in Points, entity'[p] # NoEntity
               PROVE  entity'[entity'[p]] = entity'[p]
    BY DEF Anchored
  <2>1. CASE p \in base
    BY <2>1, <1>1, <1>2
  <2>2. CASE p \notin base
    <3>1. entity'[p] = entity[p]
      BY <2>2, <1>1
    <3>2. entity[p] \in Points /\ entity[p] \notin base
      BY <2>2, <3>1, <1>5
    <3>3. entity[entity[p]] = entity[p]
      BY <3>1 DEF StandInv, Anchored
    <3> QED BY <3>1, <3>2, <3>3, <1>1
  <2> QED BY <2>1, <2>2
<1>7. StandsLevel'
  <2> SUFFICES ASSUME NEW q \in Points, entity'[q] # NoEntity
               PROVE  height[q] = positionZ'[entity'[q]]
    BY <1>1 DEF StandsLevel
  <2>1. CASE q \in base
    BY <2>1, <1>1, <1>3, <1>4
  <2>2. CASE q \notin base
    <3>1. entity'[q] = entity[q]
      BY <2>2, <1>1
    <3>2. entity[q] \in Points /\ entity[q] # b
      BY <2>2, <3>1, <1>2, <1>5
    <3>3. height[q] = positionZ[entity[q]]
      BY <3>1 DEF StandInv, StandsLevel
    <3> QED BY <3>1, <3>2, <3>3, <1>1, <1>4
  <2> QED BY <2>1, <2>2
<1> QED BY <1>6, <1>7

\* A building is gone before any point under it has changed its height.
LEMMA StandTick ==
  ASSUME StandInv, MapTick
  PROVE  Anchored' /\ StandsLevel'
<1> DEFINE gone == Destroyed
<1>1. entity' = [p \in Points |-> IF entity[p] \in gone THEN NoEntity
                                                        ELSE entity[p]]
  BY DEF MapTick
<1>2. entity \in [Points -> Points \cup {NoEntity}]
  BY DEF StandInv, GroundInv, MapTypeOK
<1>3. ASSUME NEW p \in Points, entity'[p] # NoEntity
      PROVE  /\ entity'[p] = entity[p] /\ entity[p] \notin gone
             /\ height'[p] = height[p]
  <2>1. entity'[p] = entity[p] /\ entity[p] \notin gone
    BY <1>1, <1>3
  <2>2. p \notin Growing
    BY <2>1 DEF Destroyed
  <2> QED BY <2>1, <2>2, RestingPoint DEF StandInv
<1> HIDE DEF gone
<1>4. Anchored'
  <2> SUFFICES ASSUME NEW p \in Points, entity'[p] # NoEntity
               PROVE  entity'[entity'[p]] = entity'[p]
    BY DEF Anchored
  <2>1. entity[p] \in Points /\ entity[entity[p]] = entity[p]
    BY <1>2, <1>3 DEF StandInv, Anchored
  <2> QED BY <2>1, <1>1, <1>3
<1>5. StandsLevel'
  <2>1. positionZ' = positionZ
    BY DEF MapTick
  <2> QED BY <1>3, <2>1 DEF StandInv, StandsLevel
<1> QED BY <1>4, <1>5

\* Every step preserves it.
LEMMA StandStep ==
  ASSUME StandInv, [Next]_vars
  PROVE  StandInv'
<1>1. GroundInv'
  BY GroundStep DEF StandInv
<1>2. ASSUME NEW p \in Points, NEW s \in Points, Raise(p, s)
      PROVE  Anchored' /\ StandsLevel'
  BY <1>2, StandUntouched DEF Raise
<1>3. ASSUME NEW p \in Points, RocketLands(p)
      PROVE  Anchored' /\ StandsLevel'
  BY <1>3, StandUntouched DEF RocketLands
<1>4. ASSUME UNCHANGED vars
      PROVE  Anchored' /\ StandsLevel'
  BY <1>4, StandUntouched DEF vars, ground
<1>5. Anchored' /\ StandsLevel'
  BY <1>2, <1>3, <1>4, StandBuild, StandTick DEF Next
<1> QED BY <1>1, <1>5 DEF StandInv

\* Whatever is raised, dug and built, and in whatever order: every point under
\* a building that stands has the height that the building was placed at.
THEOREM BuildingsStandLevel == Spec => []StandsLevel
<1>1. Init => StandInv
  BY StandInit
<1>2. StandInv /\ [Next]_vars => StandInv'
  BY StandStep
<1>3. StandInv => StandsLevel
  BY DEF StandInv
<1> QED BY <1>1, <1>2, <1>3, PTL DEF Spec
=============================================================================
