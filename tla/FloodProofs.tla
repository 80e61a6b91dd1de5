----------------------------- MODULE FloodProofs -----------------------------
(***************************************************************************)
(* Proofs about the flooded terrain.  It is a terrain, so what is proved   *)
(* of the terrain holds of it; and, for maps and speeds of every size,     *)
(* water neither rises above its level nor falls short, while ground does  *)
(* not rise under it.                                                      *)
(***************************************************************************)
EXTENDS Flood, TerrainProofs, FiniteSetTheorems

\* The flooded terrain implements the terrain: water only forbids orders.
THEOREM FloodIsTerrain == FloodSpec => Spec
<1>1. FloodInit => Init
  BY DEF FloodInit
<1>2. FloodNext => Next
  BY DEF FloodNext, Next, FloodRaise, FloodBuild, FloodRocket, FloodTick
<1>3. [FloodNext]_floodVars => [Next]_vars
  BY <1>2 DEF floodVars
<1> QED BY <1>1, <1>3, PTL DEF FloodSpec, Spec
-----------------------------------------------------------------------------
(* Arithmetic *)

\* A quotient of natural numbers is one, and no more than the dividend.
LEMMA Quotient ==
  ASSUME NEW a \in Nat, NEW b \in Nat, b > 0
  PROVE  a \div b \in Nat /\ a \div b <= a
<1>1. a \div b \in Nat /\ a % b \in 0 .. b - 1 /\ a = b * (a \div b) + (a % b)
  BY Division
<1> DEFINE d == a \div b
<1> HIDE DEF d
<1>2. d \in Nat /\ b * d <= a
  <2>1. a % b \in Nat
    BY <1>1
  <2> QED BY <1>1, <2>1 DEF d
<1>3. d <= b * d
  BY <1>2
<1>4. d <= a
  <2>1. b * d \in Nat
    BY <1>2
  <2> QED BY <1>2, <1>3, <2>1
<1> QED BY <1>2, <1>4 DEF d

\* A division by more than one brings a number closer to zero, or rounds it
\* down below it.
LEMMA DividedLess ==
  ASSUME NEW x \in Int, NEW a \in {14, 13, 17}
  PROVE  /\ Divided(x, a, 12) \in Int
         /\ x >= 0 => Divided(x, a, 12) >= 0 /\ Divided(x, a, 12) <= x
         /\ x < 0 => Divided(x, a, 12) <= 0
BY DEF Divided
-----------------------------------------------------------------------------
(* Rockets *)

\* The number of neighbours is a number.
LEMMA NeighborCount ==
  ASSUME NEW p \in Points
  PROVE  Cardinality(Neighbors[p]) \in Nat
<1>1. IsFiniteSet(0 .. SizeX - 1) /\ IsFiniteSet(0 .. SizeY - 1)
  BY SizeAssumption, FS_Interval
<1>2. IsFiniteSet(Points)
  BY <1>1, FS_Product DEF Points
<1>3. IsFiniteSet(Neighbors[p])
  BY <1>2, NeighborsType, FS_Subset
<1> QED BY <1>3, FS_CardinalityType

\* A splash takes away from water there is, and adds nothing to debts.
LEMMA SplashedLess ==
  ASSUME NEW x \in Int, NEW n \in Nat
  PROVE  /\ Splashed(x, n) \in Int
         /\ x >= 0 => Splashed(x, n) >= 0 /\ Splashed(x, n) <= x
         /\ x < 0 => Splashed(x, n) <= 0
<1> DEFINE start == Divided(x, 14, 12)
           pass == [i \in 1 .. n |-> [y \in Int |-> Divided(y, 13, 12)]]
           divided == CHOOSE f : f = [i \in 0 .. n |->
                        IF i = 0 THEN start ELSE Divided(f[i - 1], 13, 12)]
<1>1. Splashed(x, n) = divided[n]
  BY DEF Splashed
<1>2. start \in Int /\ pass \in [1 .. n -> [Int -> Int]]
  BY DividedLess
<1>3. PICK h : Computes(n, Int, start, pass, h)
  <2>1. IsLoop(n, Int, start, pass)
    BY <1>2 DEF IsLoop
  <2> HIDE DEF start, pass
  <2> QED BY <2>1, LoopRuns
<1>4. h = [i \in 0 .. n |-> IF i = 0 THEN start ELSE Divided(h[i - 1], 13, 12)]
  <2>1. ASSUME NEW i \in 1 .. n
        PROVE  h[i] = Divided(h[i - 1], 13, 12)
    <3>1. h[i - 1] \in Int /\ h[i] = pass[i][h[i - 1]]
      BY <1>3 DEF Computes
    <3> QED BY <3>1
  <2>2. \A i \in 0 .. n : i = 0 \/ i \in 1 .. n
    OBVIOUS
  <2> HIDE DEF pass, start
  <2> QED BY <1>3, <2>1, <2>2 DEF Computes
<1>5. divided = [i \in 0 .. n |->
                   IF i = 0 THEN start ELSE Divided(divided[i - 1], 13, 12)]
  <2> HIDE DEF start
  <2> QED BY <1>4
<1> HIDE DEF divided, start, pass
<1>6. /\ divided[0] = start
      /\ \A i \in 1 .. n : divided[i] = Divided(divided[i - 1], 13, 12)
  <2>1. 0 \in 0 .. n /\ \A i \in 1 .. n : i \in 0 .. n /\ i # 0
    OBVIOUS
  <2> QED BY <1>5, <2>1
<1> DEFINE S == {i \in 0 .. n :
                   /\ divided[i] \in Int
                   /\ x >= 0 => divided[i] >= 0 /\ divided[i] <= x
                   /\ x < 0 => divided[i] <= 0}
<1>7. 0 \in S
  BY <1>6, DividedLess DEF start
<1>8. ASSUME NEW i \in 1 .. n, i - 1 \in S
      PROVE  i \in S
  <2>1. divided[i] = Divided(divided[i - 1], 13, 12)
    BY <1>6
  <2> DEFINE y == divided[i - 1]
             z == divided[i]
  <2>2. y \in Int /\ (x >= 0 => y >= 0 /\ y <= x) /\ (x < 0 => y <= 0)
    BY <1>8
  <2>3. /\ z \in Int /\ (y >= 0 => z >= 0 /\ z <= y) /\ (y < 0 => z <= 0)
    BY <2>1, <2>2, DividedLess
  <2> HIDE DEF y, z
  <2>4. z \in Int /\ (x >= 0 => z >= 0 /\ z <= x) /\ (x < 0 => z <= 0)
    BY <2>2, <2>3
  <2> QED BY <2>4 DEF z
<1>9. n \in S
  <2> HIDE DEF S
  <2> QED BY <1>7, <1>8, LoopInduction
<1> QED BY <1>1, <1>9
-----------------------------------------------------------------------------
(* Water in the course of waterTick *)

\* No point that has not been lifted holds water above the level; and none
\* lacks water while none has been lifted at all.  Heights are those that the
\* tick has left behind.
Held(w) ==
  /\ w \in [Points -> Int]
  /\ \A p \in Points : p \notin risen' /\ w[p] > 0 => w[p] <= Room(p)
  /\ risen' = {} => \A p \in Points : w[p] >= 0

\* Products of natural numbers are natural numbers.
LEMMA Times == \A a, b \in Nat : a * b \in Nat
OBVIOUS

\* Room and surface are about one number, the ground under the water.
LEMMA RoomSurface ==
  ASSUME height' \in [Points -> Nat], NEW w \in [Points -> Int],
         NEW p \in Points
  PROVE  /\ Room(p) \in Int /\ Surface(w, p) \in Int
         /\ w[p] <= Room(p) <=> Surface(w, p) <= WaterLevel * Full
         /\ Surface(w, p) + Room(p) = WaterLevel * Full + w[p]
<1> DEFINE top == WaterLevel * Full
           bottom == height'[p] * Full
<1>1. top \in Int /\ bottom \in Int /\ w[p] \in Int
  BY WaterLevelAssumption, WaterAssumption, Times
<1>2. Room(p) = top - bottom /\ Surface(w, p) = bottom + w[p]
  BY DEF Room, Surface
<1> HIDE DEF top, bottom
<1> QED BY <1>1, <1>2 DEF top

\* Water flows forward, and no more of it than there is.
LEMMA StreamBounds ==
  ASSUME height' \in [Points -> Nat], NEW w \in [Points -> Int],
         NEW p \in Points, NEW q \in Points, FlowsTo(w, p, q)
  PROVE  /\ Stream(w, p, q) \in Nat
         /\ Stream(w, p, q) <= w[p]
<1> DEFINE d    == Surface(w, p) - Surface(w, q)
           fall == Min({d, Full})
           part == (fall * Flow) \div Full
<1>1. d \in Int /\ d >= 0 /\ w[p] \in Nat
  <2>1. Surface(w, p) \in Int /\ Surface(w, q) \in Int
    BY RoomSurface
  <2> QED BY <2>1 DEF FlowsTo
<1> HIDE DEF d
<1>2. fall \in Nat
  <2>1. d \in Int /\ Full \in Int
    BY <1>1, WaterAssumption
  <2>2. fall \in {d, Full}
    BY <2>1, MinOfTwo
  <2> QED BY <1>1, <2>2, WaterAssumption
<1> HIDE DEF fall
<1>3. fall * Flow \in Nat
  BY <1>2, WaterAssumption, Times
<1>4. part \in Nat
  BY <1>3, WaterAssumption, Quotient
<1>5. Stream(w, p, q) = Min({part, w[p]})
  BY DEF Stream, part, fall, d
<1> DEFINE there == w[p]
<1>6. there \in Nat
  BY <1>1
<1> HIDE DEF part, there
<1>7. Min({part, there}) \in {part, there} /\ Min({part, there}) <= there
  BY <1>4, <1>6, MinOfTwo
<1> QED BY <1>4, <1>5, <1>6, <1>7 DEF there

\* A stream preserves the invariant of the loop.
LEMMA FlowedHeld ==
  ASSUME height' \in [Points -> Nat], NEW w, Held(w),
         NEW p \in Points, NEW q \in Points, p # q, FlowsTo(w, p, q)
  PROVE  Held(Flowed(w, p, q))
<1> DEFINE s     == Stream(w, p, q)
           given == (s * 6) \div 8
           rest  == w[p] - given
           taken == Min({w[q] + s, Room(q)})
           v     == Flowed(w, p, q)
<1>1. w \in [Points -> Int]
  BY DEF Held
<1>2. s \in Nat /\ s <= w[p] /\ w[p] \in Int /\ w[q] \in Int
  BY <1>1, StreamBounds
<1>3. v = [w EXCEPT ![p] = rest, ![q] = taken]
  BY DEF Flowed
<1> HIDE DEF s
<1>4. given \in Nat /\ given <= s
  BY <1>2
<1> HIDE DEF given
<1>5. rest \in Nat /\ rest <= w[p]
  BY <1>2, <1>4
<1>6. Room(q) \in Int
  BY <1>1, RoomSurface
<1>7. taken \in Int /\ taken <= Room(q) /\ taken \in {w[q] + s, Room(q)}
  <2> DEFINE a == w[q] + s
             b == Room(q)
  <2>1. a \in Int /\ b \in Int
    BY <1>2, <1>6
  <2> HIDE DEF a, b
  <2>2. Min({a, b}) \in {a, b} /\ Min({a, b}) <= b
    BY <2>1, MinOfTwo
  <2> QED BY <2>1, <2>2 DEF a, b
<1> HIDE DEF rest, taken, v
<1>8. /\ v \in [Points -> Int]
      /\ v[p] = rest /\ v[q] = taken
      /\ \A r \in Points \ {p, q} : v[r] = w[r]
  BY <1>1, <1>3, <1>5, <1>7
<1>9. ASSUME NEW r \in Points, r \notin risen', v[r] > 0
      PROVE  v[r] <= Room(r)
  <2>1. /\ Room(r) \in Int
        /\ w[r] \in Int
        /\ w[r] > 0 => w[r] <= Room(r)
    BY <1>1, <1>9, RoomSurface DEF Held
  <2>2. CASE r = p
    BY <1>5, <1>8, <1>9, <2>1, <2>2
  <2>3. CASE r = q
    BY <1>7, <1>8, <2>3
  <2>4. CASE r \notin {p, q}
    BY <1>8, <1>9, <2>1, <2>4
  <2> QED BY <2>2, <2>3, <2>4
<1>10. ASSUME risen' = {}
       PROVE  taken >= 0
  <2>1. w[q] >= 0 /\ w[p] > 0 /\ w[p] <= Room(p)
    BY <1>10 DEF Held, FlowsTo
  <2>2. Surface(w, p) <= WaterLevel * Full /\ Surface(w, p) >= Surface(w, q)
    BY <1>1, <2>1, RoomSurface DEF FlowsTo
  <2>3. w[q] <= Room(q)
    <3>1. /\ Surface(w, p) \in Int /\ Surface(w, q) \in Int
          /\ WaterLevel * Full \in Int
      BY <1>1, RoomSurface, WaterLevelAssumption, WaterAssumption, Times
    <3>2. Surface(w, q) <= WaterLevel * Full
      BY <2>2, <3>1
    <3> QED BY <1>1, <3>2, RoomSurface
  <2> QED BY <1>2, <1>6, <1>7, <2>1, <2>3
<1>11. ASSUME risen' = {}, NEW r \in Points
       PROVE  v[r] >= 0
  BY <1>5, <1>8, <1>10, <1>11 DEF Held
<1>12. Held(v)
  BY <1>8, <1>9, <1>11 DEF Held
<1> QED BY <1>12 DEF v

\* A source preserves it too.
LEMMA SprungHeld ==
  ASSUME height' \in [Points -> Nat], NEW w, Held(w), NEW p \in Points
  PROVE  Held(Sprung(w, p))
<1> DEFINE filled == Min({w[p] + Spring, Room(p)})
           v == [w EXCEPT ![p] = filled]
<1>1. w \in [Points -> Int] /\ w[p] \in Int /\ Room(p) \in Int
      /\ Spring \in Nat
  BY RoomSurface, WaterAssumption DEF Held
<1>2. /\ filled \in Int /\ filled <= Room(p)
      /\ filled \in {w[p] + Spring, Room(p)}
  <2> DEFINE a == w[p] + Spring
             b == Room(p)
  <2>1. a \in Int /\ b \in Int
    BY <1>1
  <2> HIDE DEF a, b
  <2>2. Min({a, b}) \in {a, b} /\ Min({a, b}) <= b
    BY <2>1, MinOfTwo
  <2> QED BY <2>1, <2>2 DEF a, b
<1>3. Sprung(w, p) = w \/ (Sprung(w, p) = v /\ w[p] < Room(p))
  BY DEF Sprung
<1> HIDE DEF filled
<1>4. /\ v \in [Points -> Int] /\ v[p] = filled
      /\ \A r \in Points \ {p} : v[r] = w[r]
  BY <1>1, <1>2
<1> HIDE DEF v
<1>5. ASSUME w[p] < Room(p)
      PROVE  Held(v)
  <2>1. ASSUME NEW r \in Points, r \notin risen', v[r] > 0
        PROVE  v[r] <= Room(r)
    BY <1>2, <1>4, <2>1 DEF Held
  <2>2. ASSUME risen' = {}, NEW r \in Points
        PROVE  v[r] >= 0
    <3>1. w[p] >= 0 /\ w[r] >= 0
      BY <2>2 DEF Held
    <3> QED BY <1>1, <1>2, <1>4, <1>5, <3>1
  <2> QED BY <1>4, <2>1, <2>2 DEF Held
<1> QED BY <1>3, <1>5

\* A visit is of a point and, maybe, a neighbour of it.
LEMMA VisitType ==
  ASSUME NEW i \in 1 .. VisitCount
  PROVE  Visit[i][1] \in Points
<1> DEFINE j == (i - 1) \div 9
           k == (i - 1) % 9
<1>1. PointCount \in Nat /\ i - 1 \in Nat /\ i - 1 < 9 * PointCount
  BY PointCountNat DEF VisitCount
<1>2. j \in Nat /\ k \in 0 .. 8 /\ i - 1 = 9 * j + k
  BY <1>1
<1>3. Visit[i][1] = PointSeq[j + 1]
  BY DEF Visit
<1> HIDE DEF j, k
<1>4. j + 1 \in 1 .. PointCount
  BY <1>1, <1>2
<1> QED BY <1>3, <1>4, PointSeqType

\* Whatever a visit does, it keeps the water in its bounds.
LEMMA VisitHeld ==
  ASSUME height' \in [Points -> Nat], NEW w, Held(w),
         NEW i \in 1 .. VisitCount
  PROVE  Held(Visited(i)[w])
<1> DEFINE p == Visit[i][1]
           q == Visit[i][2]
<1>1. p \in Points /\ w \in [Points -> Int]
  BY VisitType DEF Held
<1>2. Visited(i)[w] = VisitOf(w, p, q)
  <2>1. w \in Waters
    BY <1>1 DEF Waters
  <2> QED BY <2>1 DEF Visited
<1> HIDE DEF p, q
<1>3. CASE p = q
  <2>1. Visited(i)[w] = Sprung(w, p)
    BY <1>1, <1>2, <1>3 DEF VisitOf, Neighbors
  <2>2. Held(Sprung(w, p))
    BY <1>1, SprungHeld
  <2> QED BY <2>1, <2>2
<1>4. CASE p # q /\ q \in Neighbors[p] /\ FlowsTo(w, p, q)
  <2>1. q \in Points /\ Visited(i)[w] = Flowed(w, p, q)
    BY <1>1, <1>2, <1>4, NeighborsType DEF VisitOf
  <2> QED BY <1>1, <1>4, <2>1, FlowedHeld
<1>5. CASE p # q /\ ~ (q \in Neighbors[p] /\ FlowsTo(w, p, q))
  BY <1>2, <1>5 DEF VisitOf
<1> QED BY <1>3, <1>4, <1>5

\* So do all the visits of waterTick.
LEMMA WaterLoopHeld ==
  ASSUME height' \in [Points -> Nat], Held(water)
  PROVE  Held(WaterLoop[VisitCount])
<1> DEFINE n    == VisitCount
           F    == {w \in Waters : Held(w)}
           pass == [i \in 1 .. n |-> [w \in F |-> Visited(i)[w]]]
<1>1. n \in Nat
  BY PointCountNat DEF VisitCount
<1>2. \A w : w \in F <=> Held(w)
  BY DEF Waters, Held
<1> HIDE DEF n, F
<1>3. ASSUME NEW i \in 1 .. n, NEW w \in F
      PROVE  Visited(i)[w] \in F
  <2>1. i \in 1 .. VisitCount /\ Held(w)
    BY <1>2 DEF n
  <2> QED BY <1>2, <2>1, VisitHeld
<1>4. pass \in [1 .. n -> [F -> F]]
  BY <1>3
<1>5. PICK h : Computes(n, F, water, pass, h)
  <2>1. IsLoop(n, F, water, pass)
    BY <1>1, <1>2, <1>4 DEF IsLoop
  <2> HIDE DEF pass
  <2> QED BY <2>1, LoopRuns
<1>6. h = [i \in 0 .. n |-> IF i = 0 THEN water ELSE Visited(i)[h[i - 1]]]
  <2>1. ASSUME NEW i \in 1 .. n
        PROVE  h[i] = Visited(i)[h[i - 1]]
    <3>1. i - 1 \in 0 .. n
      BY <1>1
    <3>2. h[i - 1] \in F /\ h[i] = pass[i][h[i - 1]]
      BY <1>5, <3>1 DEF Computes
    <3> QED BY <3>2
  <2>2. \A i \in 0 .. n : i = 0 \/ i \in 1 .. n
    BY <1>1
  <2> HIDE DEF pass
  <2> QED BY <1>5, <2>1, <2>2 DEF Computes
<1>7. WaterLoop = [i \in 0 .. n |->
                     IF i = 0 THEN water ELSE Visited(i)[WaterLoop[i - 1]]]
  BY <1>6 DEF WaterLoop, n
<1>8. /\ WaterLoop[0] = water
      /\ \A i \in 1 .. n : WaterLoop[i] = Visited(i)[WaterLoop[i - 1]]
  <2>1. 0 \in 0 .. n /\ \A i \in 1 .. n : i \in 0 .. n /\ i # 0
    BY <1>1
  <2> QED BY <1>7, <2>1
<1> DEFINE S == {i \in 0 .. n : WaterLoop[i] \in F}
<1>9. 0 \in S
  BY <1>1, <1>2, <1>8
<1>10. ASSUME NEW i \in 1 .. n, i - 1 \in S
       PROVE  i \in S
  <2>1. WaterLoop[i - 1] \in F /\ i \in 0 .. n
    BY <1>1, <1>10
  <2> QED BY <2>1, <1>3, <1>8
<1>11. n \in S
  <2>1. n \in 0 .. n
    BY <1>1
  <2> HIDE DEF S
  <2> QED BY <1>1, <1>9, <1>10, <2>1, LoopInduction
<1> QED BY <1>2, <1>11 DEF n
-----------------------------------------------------------------------------
(* The invariant of the flooded terrain *)

WaterInv ==
  /\ water \in Waters
  /\ NoneFlooded
  /\ NoDebt

FloodInv == GroundInv /\ WaterInv

\* The invariant holds at first.
LEMMA FloodedInit == FloodInit => FloodInv
<1> SUFFICES ASSUME FloodInit PROVE FloodInv
  OBVIOUS
<1>1. water \in Waters /\ \A p \in Points : water[p] = 0
  BY DEF FloodInit, Waters
<1>2. GroundInv
  BY GroundInit DEF FloodInit
<1> QED BY <1>1, <1>2 DEF FloodInv, WaterInv, NoneFlooded, NoDebt

\* Orders change neither the ground nor the water yet.
LEMMA WaterUntouched ==
  ASSUME WaterInv, UNCHANGED <<height, risen, water>>
  PROVE  WaterInv'
BY DEF WaterInv, NoneFlooded, NoDebt

\* In a tick, only points that have risen get higher.
LEMMA TickSinks ==
  ASSUME GroundInv, MapTick
  PROVE  /\ risen \subseteq risen'
         /\ \A p \in Points : p \notin risen' => height'[p] <= height[p]
<1>1. /\ height' = FirstLoop.height
      /\ risen' = risen \cup FirstLoop.up
  BY LastPass DEF MapTick, SoundGrowth, GroundInv
<1>2. ASSUME NEW p \in Points, p \notin risen'
      PROVE  height'[p] <= height[p]
  <2>1. ~ Rises(p) /\ height[p] \in Nat
    BY <1>1, <1>2 DEF FirstLoop, GroundInv, MapTypeOK
  <2> QED BY <1>1, <2>1 DEF FirstLoop, HeightAfter
<1> QED BY <1>1, <1>2

\* Multiplication is monotone.
LEMMA Monotone ==
  ASSUME NEW a \in Nat, NEW b \in Nat, NEW c \in Nat, a <= b
  PROVE  a * c <= b * c
OBVIOUS

\* A tick preserves what the invariant says of the water.
LEMMA FloodedTick ==
  ASSUME FloodInv, FloodTick
  PROVE  WaterInv'
<1>1. GroundInv'
  BY GroundTick DEF FloodInv, FloodTick
<1>2. height \in [Points -> Nat] /\ height' \in [Points -> Nat]
  BY <1>1 DEF FloodInv, GroundInv, MapTypeOK
<1>3. Held(water)
  <2>1. water \in [Points -> Int]
    BY DEF FloodInv, WaterInv, Waters
  <2>2. /\ risen \subseteq risen'
        /\ \A p \in Points : p \notin risen' => height'[p] <= height[p]
    BY TickSinks DEF FloodInv, FloodTick
  <2>3. ASSUME NEW p \in Points, p \notin risen', water[p] > 0
        PROVE  water[p] <= Room(p)
    <3> DEFINE a == height'[p] * Full
               b == height[p] * Full
               c == WaterLevel * Full
    <3>1. a \in Int /\ b \in Int /\ c \in Int /\ water[p] \in Int
      BY <1>2, <2>1, WaterLevelAssumption, WaterAssumption, Times
    <3>2. a <= b
      BY <1>2, <2>2, <2>3, WaterAssumption, Monotone
    <3>3. b + water[p] <= c
      BY <2>2, <2>3 DEF FloodInv, WaterInv, NoneFlooded
    <3>4. Room(p) = c - a
      BY DEF Room
    <3> HIDE DEF a, b, c
    <3> QED BY <3>1, <3>2, <3>3, <3>4
  <2>4. risen' = {} => \A p \in Points : water[p] >= 0
    BY <2>2 DEF FloodInv, WaterInv, NoDebt
  <2> QED BY <2>1, <2>3, <2>4 DEF Held
<1>4. Held(water')
  BY <1>2, <1>3, WaterLoopHeld DEF FloodTick
<1>5. ASSUME NEW p \in Points, water'[p] > 0, p \notin risen'
      PROVE  height'[p] * Full + water'[p] <= WaterLevel * Full
  <2> DEFINE a == height'[p] * Full
             c == WaterLevel * Full
  <2>1. water'[p] <= Room(p) /\ Room(p) = c - a
    BY <1>4, <1>5 DEF Held, Room
  <2>2. a \in Int /\ c \in Int /\ water'[p] \in Int
    BY <1>2, <1>4, WaterLevelAssumption, WaterAssumption, Times DEF Held
  <2> HIDE DEF a, c
  <2>3. a + water'[p] <= c
    BY <2>1, <2>2
  <2> QED BY <2>3 DEF a, c
<1>6. NoneFlooded'
  BY <1>5 DEF NoneFlooded
<1>7. NoDebt'
  BY <1>4 DEF Held, NoDebt
<1>8. (water \in Waters)'
  BY <1>4 DEF Held, Waters
<1> QED BY <1>6, <1>7, <1>8 DEF WaterInv

\* A rocket preserves what the invariant says of the water.
LEMMA FloodedRocket ==
  ASSUME FloodInv, NEW p \in Points, FloodRocket(p)
  PROVE  WaterInv'
<1>1. UNCHANGED <<height, risen>>
  BY DEF FloodRocket, RocketLands
<1>2. water \in [Points -> Int] /\ height \in [Points -> Nat]
  BY DEF FloodInv, WaterInv, Waters, GroundInv, MapTypeOK
<1>3. ASSUME NEW q \in Points
      PROVE  /\ water'[q] \in Int
             /\ water[q] >= 0 => water'[q] >= 0 /\ water'[q] <= water[q]
             /\ water[q] < 0 => water'[q] <= 0
  <2>1. water[q] \in Int
    BY <1>2
  <2>2. /\ q = p => water'[q] = Divided(water[q], 17, 12)
        /\ q \in Neighbors[p] => water'[q]
               = Splashed(water[q], Cardinality(Neighbors[p]))
        /\ q # p /\ q \notin Neighbors[p] => water'[q] = water[q]
    <3>1. p \notin Neighbors[p]
      BY DEF Neighbors
    <3> QED BY <3>1 DEF FloodRocket
  <2>3. CASE q = p
    BY <2>1, <2>2, <2>3, DividedLess
  <2>4. CASE q \in Neighbors[p]
    BY <2>1, <2>2, <2>4, NeighborCount, SplashedLess
  <2>5. CASE q # p /\ q \notin Neighbors[p]
    BY <2>1, <2>2, <2>5
  <2> QED BY <2>3, <2>4, <2>5
<1>4. (water \in Waters)'
  <2>1. water' = [q \in Points |-> water'[q]]
    BY DEF FloodRocket
  <2> QED BY <1>3, <2>1 DEF Waters
<1>5. NoneFlooded'
  <2> SUFFICES ASSUME NEW q \in Points, water'[q] > 0, q \notin risen
               PROVE  height[q] * Full + water'[q] <= WaterLevel * Full
    BY <1>1 DEF NoneFlooded
  <2> DEFINE a == height[q] * Full
             c == WaterLevel * Full
  <2>1. /\ a \in Int /\ c \in Int /\ water'[q] \in Int /\ water[q] \in Int
    BY <1>2, <1>3, WaterLevelAssumption, WaterAssumption, Times
  <2>2. water[q] > 0 /\ water'[q] <= water[q]
    BY <1>3, <2>1
  <2>3. a + water[q] <= c
    BY <2>2 DEF FloodInv, WaterInv, NoneFlooded
  <2> HIDE DEF a, c
  <2>4. a + water'[q] <= c
    BY <2>1, <2>2, <2>3
  <2> QED BY <2>4 DEF a, c
<1>6. NoDebt'
  BY <1>1, <1>3 DEF FloodInv, WaterInv, NoDebt
<1> QED BY <1>4, <1>5, <1>6 DEF WaterInv

\* Every step preserves the invariant.
LEMMA FloodedStep ==
  ASSUME FloodInv, [FloodNext]_floodVars
  PROVE  FloodInv'
<1>1. [Next]_vars
  BY DEF FloodNext, Next, FloodRaise, FloodBuild, FloodRocket, FloodTick,
         floodVars
<1>2. GroundInv'
  BY <1>1, GroundStep DEF FloodInv
<1>3. ASSUME NEW p \in Points, NEW s \in Points, FloodRaise(p, s)
      PROVE  WaterInv'
  BY <1>3, WaterUntouched DEF FloodRaise, Raise, FloodInv
<1>4. ASSUME NEW p \in Points, FloodBuild(p)
      PROVE  WaterInv'
  BY <1>4, WaterUntouched DEF FloodBuild, Build, ground, FloodInv
<1>5. ASSUME UNCHANGED floodVars
      PROVE  WaterInv'
  BY <1>5, WaterUntouched DEF floodVars, vars, ground, FloodInv
<1>6. WaterInv'
  BY <1>3, <1>4, <1>5, FloodedRocket, FloodedTick DEF FloodNext
<1> QED BY <1>2, <1>6 DEF FloodInv

\* The invariant holds in every reachable state.
LEMMA FloodHolds == FloodSpec => []FloodInv
<1>1. FloodInit => FloodInv
  BY FloodedInit
<1>2. FloodInv /\ [FloodNext]_floodVars => FloodInv'
  BY FloodedStep
<1> QED BY <1>1, <1>2, PTL DEF FloodSpec

\* No water stands above the water level, but on ground that has been lifted
\* with it: neither the flow between points, in whatever order they are
\* visited, nor springs nor rockets bring it there.
THEOREM WaterKeepsItsLevel == FloodSpec => []NoneFlooded
<1>1. FloodInv => NoneFlooded
  BY DEF FloodInv, WaterInv
<1> QED BY <1>1, FloodHolds, PTL

\* While no ground has risen, no point gives away more water than it has.
THEOREM WaterIsNotOwed == FloodSpec => []NoDebt
<1>1. FloodInv => NoDebt
  BY DEF FloodInv, WaterInv
<1> QED BY <1>1, FloodHolds, PTL
=============================================================================
