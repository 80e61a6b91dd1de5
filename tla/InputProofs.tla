----------------------------- MODULE InputProofs -----------------------------
(***************************************************************************)
(* Whatever a player selects and orders, the buildings behave as           *)
(* Construction says: what ConstructionProofs proves of them holds with    *)
(* the player in the loop.  And whatever is destroyed, his selection is of *)
(* buildings that stand, and loses nothing else.                           *)
(*                                                                         *)
(* Selections are sequences, and the code's loops over them drop or add    *)
(* single elements: the first lemmas are about Kept, by induction over its *)
(* loop.  A tick that destroys several buildings is a loop over events     *)
(* again, whose invariant (Left) says what remains after each of them.     *)
(***************************************************************************)
EXTENDS Input, ConstructionProofs

\* The loop of Kept: what it has collected after each pass.
KeptLoop(X, s, S, h) ==
  /\ h \in [0 .. Len(s) -> Seq(X)]
  /\ h[0] = << >>
  /\ \A i \in 1 .. Len(s) :
       h[i] = Keep(h[i - 1], s[i], S)
  /\ Kept(s, S) = h[Len(s)]

LEMMA KeptLoops ==
  ASSUME NEW X, NEW s \in Seq(X), NEW S
  PROVE  \E h : KeptLoop(X, s, S, h)
<1> DEFINE n     == Len(s)
           F     == Seq(X)
           pass  == [i \in 1 .. n |-> [c \in F |-> Keep(c, s[i], S)]]
           after == CHOOSE g : g = [i \in 0 .. n |->
                      IF i = 0 THEN << >> ELSE Keep(g[i - 1], s[i], S)]
<1>1. Kept(s, S) = after[n]
  BY DEF Kept
<1>2. n \in Nat /\ \A i \in 1 .. n : s[i] \in X
  OBVIOUS
<1> HIDE DEF n
<1>3. << >> \in F /\ \A c \in F, x \in X : Keep(c, x, S) \in F
  BY DEF Keep
<1> HIDE DEF F
<1>4. pass \in [1 .. n -> [F -> F]]
  BY <1>2, <1>3
<1>5. PICK h : Computes(n, F, << >>, pass, h)
  <2>1. IsLoop(n, F, << >>, pass)
    BY <1>2, <1>3, <1>4 DEF IsLoop
  <2> HIDE DEF pass
  <2> QED BY <2>1, LoopRuns
<1>6. \A i \in 1 .. n :
        h[i] = Keep(h[i - 1], s[i], S)
  <2> TAKE i \in 1 .. n
  <2>1. i - 1 \in 0 .. n
    BY <1>2
  <2>2. h[i - 1] \in F /\ h[i] = pass[i][h[i - 1]]
    BY <1>5, <2>1 DEF Computes
  <2> QED BY <2>2
<1>7. h = [i \in 0 .. n |->
             IF i = 0 THEN << >> ELSE Keep(h[i - 1], s[i], S)]
  <2>1. \A i \in 0 .. n : i = 0 \/ (i > 0 /\ i \in 1 .. n)
    BY <1>2
  <2> HIDE DEF pass
  <2> QED BY <1>5, <1>6, <2>1 DEF Computes
<1>8. after = [i \in 0 .. n |->
                 IF i = 0 THEN << >> ELSE Keep(after[i - 1], s[i], S)]
  BY <1>7
<1> HIDE DEF after, pass
<1>9. /\ after[0] = << >>
      /\ \A i \in 1 .. n :
           after[i] = Keep(after[i - 1], s[i], S)
  <2>1. 0 \in 0 .. n /\ \A i \in 1 .. n : i \in 0 .. n /\ i > 0 /\ i # 0
    BY <1>2
  <2> QED BY <1>8, <2>1
<1> DEFINE I == {i \in 0 .. n : after[i] \in F}
<1>10. \A i \in 0 .. n : i \in I
  <2>1. 0 \in I
    BY <1>2, <1>3, <1>9
  <2>2. ASSUME NEW i \in 1 .. n, i - 1 \in I
        PROVE  i \in I
    <3>1. after[i - 1] \in F /\ s[i] \in X /\ i \in 0 .. n
      BY <1>2, <2>2
    <3> QED BY <1>3, <1>9, <3>1
  <2> HIDE DEF I
  <2> QED BY <1>2, <2>1, <2>2, LoopInduction
<1>11. after \in [0 .. n -> F]
  BY <1>8, <1>10
<1> QED BY <1>1, <1>9, <1>11 DEF KeptLoop, n, F

\* What is kept of nothing, and of a sequence with one more element.
LEMMA KeptNone ==
  ASSUME NEW S
  PROVE  Kept(<< >>, S) = << >>
<1>1. << >> \in Seq({}) /\ Len(<< >>) = 0
  OBVIOUS
<1>2. PICK h : KeptLoop({}, << >>, S, h)
  BY <1>1, KeptLoops
<1> QED BY <1>1, <1>2 DEF KeptLoop

LEMMA KeptMore ==
  ASSUME NEW X, NEW s \in Seq(X), NEW x \in X, NEW S
  PROVE  /\ Kept(s, S) \in Seq(X)
         /\ x \in S    => Kept(Append(s, x), S) = Append(Kept(s, S), x)
         /\ x \notin S => Kept(Append(s, x), S) = Kept(s, S)
<1> DEFINE t == Append(s, x)
           n == Len(s)
<1>1. /\ n \in Nat /\ Len(t) = n + 1 /\ t[n + 1] = x
      /\ \A i \in 1 .. n : t[i] = s[i]
      /\ t \in Seq(X)
  OBVIOUS
<1> HIDE DEF t
<1>2. PICK h : KeptLoop(X, s, S, h)
  BY KeptLoops
<1>3. PICK g : KeptLoop(X, t, S, g)
  BY <1>1, KeptLoops
<1> DEFINE I == {i \in 0 .. n : g[i] = h[i]}
<1>4. 0 \in I
  BY <1>1, <1>2, <1>3 DEF KeptLoop
<1>5. ASSUME NEW i \in 1 .. n, i - 1 \in I
      PROVE  i \in I
  <2>1. i \in 1 .. Len(s) /\ i \in 1 .. Len(t) /\ t[i] = s[i]
    BY <1>1
  <2>2. /\ h[i] = Keep(h[i - 1], s[i], S)
        /\ g[i] = Keep(g[i - 1], t[i], S)
    BY <1>2, <1>3, <2>1 DEF KeptLoop
  <2> QED BY <1>1, <1>5, <2>1, <2>2
<1>6. g[n] = h[n]
  <2>1. n \in 0 .. n
    BY <1>1
  <2> HIDE DEF n
  <2>2. n \in I
    <3> HIDE DEF I
    <3> QED BY <1>1, <1>4, <1>5, <2>1, LoopInduction
  <2> QED BY <2>2
<1>7. Kept(s, S) = h[n] /\ h[n] \in Seq(X)
  BY <1>1, <1>2 DEF KeptLoop
<1>8. Kept(t, S) = Keep(g[n], x, S)
  <2>1. n + 1 \in 1 .. Len(t) /\ n + 1 - 1 = n
    BY <1>1
  <2> HIDE DEF n
  <2> QED BY <1>1, <1>3, <2>1 DEF KeptLoop
<1> QED BY <1>6, <1>7, <1>8 DEF t, Keep

\* A sequence with one more element.
LEMMA AppendFacts ==
  ASSUME NEW X, NEW p \in Seq(X), NEW x \in X
  PROVE  /\ Append(p, x) \in Seq(X) /\ Append(p, x) # << >>
         /\ Last(Append(p, x)) = x
         /\ Range(Append(p, x)) = Range(p) \cup {x}
         /\ IsInjective(Append(p, x)) <=> IsInjective(p) /\ x \notin Range(p)
<1> DEFINE n == Len(p)
           q == Append(p, x)
<1>1. /\ n \in Nat /\ q \in Seq(X) /\ Len(q) = n + 1
      /\ DOMAIN p = 1 .. n /\ DOMAIN q = 1 .. n + 1
      /\ q[n + 1] = x /\ \A i \in 1 .. n : q[i] = p[i]
  OBVIOUS
<1> HIDE DEF n, q
<1>2. q # << >>
  <2>1. n + 1 # 0
    BY <1>1
  <2>2. Len(<< >>) = 0
    OBVIOUS
  <2> QED BY <1>1, <2>1, <2>2
<1>3. 1 .. n + 1 = (1 .. n) \cup {n + 1} /\ n + 1 \notin 1 .. n
  BY <1>1
<1>4. Last(q) = x
  BY <1>1 DEF Last
<1>5. Range(q) = Range(p) \cup {x}
  BY <1>1, <1>3 DEF Range
<1>6. IsInjective(q) <=> IsInjective(p) /\ x \notin Range(p)
  BY <1>1, <1>3 DEF IsInjective, Range
<1> QED BY <1>1, <1>2, <1>4, <1>5, <1>6 DEF q

LEMMA SingleFacts ==
  ASSUME NEW X, NEW x \in X
  PROVE  /\ << >> \in Seq(X) /\ <<x>> = Append(<< >>, x)
         /\ Range(<<x>>) = {x}
<1>1. << >> \in Seq(X) /\ <<x>> = Append(<< >>, x)
  OBVIOUS
<1>2. DOMAIN <<x>> = {1} /\ <<x>>[1] = x
  OBVIOUS
<1>3. Range(<<x>>) = {x}
  BY <1>2 DEF Range
<1> QED BY <1>1, <1>3

LEMMA EmptyFacts ==
  ASSUME NEW X
  PROVE  << >> \in Seq(X) /\ Range(<< >>) = {} /\ IsInjective(<< >>)
BY DEF Range, IsInjective

\* What is kept is what is in S, ...
LEMMA KeptRange ==
  ASSUME NEW X, NEW s \in Seq(X), NEW S
  PROVE  Kept(s, S) \in Seq(X) /\ Range(Kept(s, S)) = Range(s) \cap S
<1> DEFINE Good == {p \in Seq(X) : /\ Kept(p, S) \in Seq(X)
                                   /\ Range(Kept(p, S)) = Range(p) \cap S}
<1>1. << >> \in Good
  BY KeptNone, EmptyFacts
<1>2. ASSUME NEW p \in Seq(X), NEW x \in X, p \in Good
      PROVE  Append(p, x) \in Good
  <2>1. Append(p, x) \in Seq(X) /\ Range(Append(p, x)) = Range(p) \cup {x}
    BY AppendFacts
  <2>2. Kept(p, S) \in Seq(X) /\ Range(Kept(p, S)) = Range(p) \cap S
    BY <1>2
  <2>3. CASE x \in S
    <3>1. Kept(Append(p, x), S) = Append(Kept(p, S), x)
      BY <2>3, KeptMore
    <3>2. /\ Append(Kept(p, S), x) \in Seq(X)
          /\ Range(Append(Kept(p, S), x)) = Range(Kept(p, S)) \cup {x}
      BY <2>2, AppendFacts
    <3> QED BY <2>1, <2>2, <2>3, <3>1, <3>2
  <2>4. CASE x \notin S
    <3>1. Kept(Append(p, x), S) = Kept(p, S)
      BY <2>4, KeptMore
    <3> QED BY <2>1, <2>2, <2>4, <3>1
  <2> QED BY <2>3, <2>4
<1>3. s \in Good
  <2> HIDE DEF Good
  <2> QED BY <1>1, <1>2, SequenceInduction DEF IsInductive
<1> QED BY <1>3

\* ... nothing twice, ...
LEMMA KeptOnce ==
  ASSUME NEW X, NEW s \in Seq(X), NEW S, IsInjective(s)
  PROVE  IsInjective(Kept(s, S))
<1> DEFINE Good == {p \in Seq(X) : IsInjective(p) => IsInjective(Kept(p, S))}
<1>1. << >> \in Good
  BY KeptNone, EmptyFacts
<1>2. ASSUME NEW p \in Seq(X), NEW x \in X, p \in Good
      PROVE  Append(p, x) \in Good
  <2>1. /\ Append(p, x) \in Seq(X)
        /\ IsInjective(Append(p, x)) => IsInjective(p) /\ x \notin Range(p)
    BY AppendFacts
  <2>2. Kept(p, S) \in Seq(X) /\ Range(Kept(p, S)) = Range(p) \cap S
    BY KeptRange
  <2>3. CASE x \in S
    <3>1. Kept(Append(p, x), S) = Append(Kept(p, S), x)
      BY <2>3, KeptMore
    <3>2. IsInjective(Append(Kept(p, S), x))
            <=> IsInjective(Kept(p, S)) /\ x \notin Range(Kept(p, S))
      BY <2>2, AppendFacts
    <3> QED BY <1>2, <2>1, <2>2, <3>1, <3>2
  <2>4. CASE x \notin S
    <3>1. Kept(Append(p, x), S) = Kept(p, S)
      BY <2>4, KeptMore
    <3> QED BY <1>2, <2>1, <3>1
  <2> QED BY <2>3, <2>4
<1>3. s \in Good
  <2> HIDE DEF Good
  <2> QED BY <1>1, <1>2, SequenceInduction DEF IsInductive
<1> QED BY <1>3

\* ... and the last one is the last one still, if it is kept.
LEMMA KeptLast ==
  ASSUME NEW X, NEW s \in Seq(X), NEW S, s # << >>, Last(s) \in S
  PROVE  Kept(s, S) # << >> /\ Last(Kept(s, S)) = Last(s)
<1>1. PICK p \in Seq(X), x \in X : s = Append(p, x)
  BY LastElement
<1>2. Last(s) = x
  BY <1>1, AppendFacts
<1>3. Kept(s, S) = Append(Kept(p, S), x) /\ Kept(p, S) \in Seq(X)
  BY <1>1, <1>2, KeptMore
<1> QED BY <1>2, <1>3, AppendFacts

\* Whoever is in S throughout is kept as it is.
LEMMA KeptAll ==
  ASSUME NEW X, NEW s \in Seq(X), NEW S, Range(s) \subseteq S
  PROVE  Kept(s, S) = s
<1> DEFINE Good == {p \in Seq(X) : Range(p) \subseteq S => Kept(p, S) = p}
<1>1. << >> \in Good
  BY KeptNone, EmptyFacts
<1>2. ASSUME NEW p \in Seq(X), NEW x \in X, p \in Good
      PROVE  Append(p, x) \in Good
  <2>1. Append(p, x) \in Seq(X) /\ Range(Append(p, x)) = Range(p) \cup {x}
    BY AppendFacts
  <2>2. x \in S => Kept(Append(p, x), S) = Append(Kept(p, S), x)
    BY KeptMore
  <2> QED BY <1>2, <2>1, <2>2
<1>3. s \in Good
  <2> HIDE DEF Good
  <2> QED BY <1>1, <1>2, SequenceInduction DEF IsInductive
<1> QED BY <1>3

\* Of one that is not in S nothing is kept.
LEMMA KeptOne ==
  ASSUME NEW x, NEW S, x \notin S
  PROVE  Kept(<<x>>, S) = << >>
<1> DEFINE none == << >>
<1>1. x \in {x} /\ none \in Seq({x}) /\ <<x>> = Append(none, x)
  BY SingleFacts
<1>2. Kept(none, S) = none
  BY KeptNone
<1> HIDE DEF none
<1>3. Kept(Append(none, x), S) = Kept(none, S)
  BY <1>1, KeptMore
<1> QED BY <1>1, <1>2, <1>3 DEF none

\* To keep twice is to keep what is in both sets.
LEMMA KeptTwice ==
  ASSUME NEW X, NEW s \in Seq(X), NEW S, NEW T
  PROVE  Kept(Kept(s, S), T) = Kept(s, S \cap T)
<1> DEFINE Good == {p \in Seq(X) : Kept(Kept(p, S), T) = Kept(p, S \cap T)}
<1>1. << >> \in Good
  BY KeptNone, EmptyFacts
<1>2. ASSUME NEW p \in Seq(X), NEW x \in X, p \in Good
      PROVE  Append(p, x) \in Good
  <2>1. Append(p, x) \in Seq(X) /\ Kept(p, S) \in Seq(X)
    BY AppendFacts, KeptMore
  <2>2. Kept(Kept(p, S), T) = Kept(p, S \cap T)
    BY <1>2
  <2>3. CASE x \in S
    <3>1. Kept(Append(p, x), S) = Append(Kept(p, S), x)
      BY <2>3, KeptMore
    <3>2. CASE x \in T
      <4>1. Kept(Append(Kept(p, S), x), T) = Append(Kept(Kept(p, S), T), x)
        BY <2>1, <3>2, KeptMore
      <4>2. Kept(Append(p, x), S \cap T) = Append(Kept(p, S \cap T), x)
        <5> DEFINE U == S \cap T
        <5>1. x \in U
          BY <2>3, <3>2
        <5> HIDE DEF U
        <5>2. Kept(Append(p, x), U) = Append(Kept(p, U), x)
          BY <5>1, KeptMore
        <5> QED BY <5>2 DEF U
      <4> QED BY <2>1, <2>2, <3>1, <4>1, <4>2
    <3>3. CASE x \notin T
      <4>1. Kept(Append(Kept(p, S), x), T) = Kept(Kept(p, S), T)
        BY <2>1, <3>3, KeptMore
      <4>2. Kept(Append(p, x), S \cap T) = Kept(p, S \cap T)
        BY <3>3, KeptMore
      <4> QED BY <2>1, <2>2, <3>1, <4>1, <4>2
    <3> QED BY <3>2, <3>3
  <2>4. CASE x \notin S
    <3>1. Kept(Append(p, x), S) = Kept(p, S)
      BY <2>4, KeptMore
    <3>2. Kept(Append(p, x), S \cap T) = Kept(p, S \cap T)
      BY <2>4, KeptMore
    <3> QED BY <2>1, <2>2, <3>1, <3>2
  <2> QED BY <2>3, <2>4
<1>3. s \in Good
  <2> HIDE DEF Good
  <2> QED BY <1>1, <1>2, SequenceInduction DEF IsInductive
<1> QED BY <1>3
-----------------------------------------------------------------------------
(* Buildings are destroyed *)

LEMMA RangeType ==
  ASSUME NEW X, NEW s \in Seq(X)
  PROVE  Range(s) \subseteq X
BY DEF Range

\* All members of a set are in each of its orders.
LEMMA OrderIsAll ==
  ASSUME NEW T \in SUBSET Objects, NEW order \in SetToSeqs(T)
  PROVE  {order[i] : i \in 1 .. Len(order)} = T
BY FiniteObjects, InSomeOrder

Selections ==
  [mode : {"default", "selected", "map"}, entities : Seq(Objects),
   recent : BOOLEAN]

\* The selection when those in gone have been destroyed.
Left(s, gone) ==
  /\ s \in Selections
  /\ s.entities = Kept(entities, Objects \ gone)
  /\ s.mode = IF s.entities = << >> /\ entities # << >> THEN "default" ELSE mode
  /\ s.recent => recent /\ Last(entities) \notin gone

LEMMA ReceivedType ==
  ASSUME NEW s \in Selections, NEW e \in Objects
  PROVE  Received(s, e) \in Selections
<1> DEFINE kept == Kept(s.entities, Objects \ {e})
<1>1. /\ s.mode \in {"default", "selected", "map"}
      /\ s.entities \in Seq(Objects) /\ s.recent \in BOOLEAN
  BY DEF Selections
<1>2. kept \in Seq(Objects)
  BY <1>1, KeptRange
<1> HIDE DEF kept
<1>3. [mode |-> "default", entities |-> << >>, recent |-> FALSE] \in Selections
  BY EmptyFacts DEF Selections
<1>4. ASSUME NEW b \in BOOLEAN
      PROVE  [mode |-> s.mode, entities |-> kept, recent |-> b] \in Selections
  BY <1>1, <1>2 DEF Selections
<1>5. (s.recent /\ e # Last(s.entities)) \in BOOLEAN
  OBVIOUS
<1> QED BY <1>3, <1>4, <1>5 DEF Received, kept

\* What is selected when one more has been destroyed.
LEMMA ReceivedLeft ==
  ASSUME InputTypeOK, SelectedStand, TimeNotInherited,
         NEW gone \in SUBSET Objects, NEW s, Left(s, gone), NEW e \in Objects
  PROVE  Left(Received(s, e), gone \cup {e})
<1> DEFINE r    == Received(s, e)
           rest == Objects \ gone
<1>1. /\ entities \in Seq(Objects) /\ IsInjective(entities)
      /\ s.entities = Kept(entities, rest) /\ s \in Selections
      /\ s.recent \in BOOLEAN
  BY DEF InputTypeOK, SelectedStand, Left, Selections
<1>2. r \in Selections
  BY <1>1, ReceivedType
<1>3. /\ s.entities \in Seq(Objects) /\ Range(s.entities) \subseteq rest
      /\ IsInjective(s.entities)
  BY <1>1, KeptRange, KeptOnce
<1>4. Kept(s.entities, Objects \ {e}) = Kept(entities, Objects \ (gone \cup {e}))
  <2>1. rest \cap (Objects \ {e}) = Objects \ (gone \cup {e})
    OBVIOUS
  <2> QED BY <1>1, <2>1, KeptTwice
<1>5. s.recent => /\ recent /\ entities # << >>
                  /\ Last(entities) \notin gone /\ Last(entities) \in Objects
                  /\ s.entities # << >> /\ Last(s.entities) = Last(entities)
  <2> SUFFICES ASSUME s.recent
               PROVE  /\ recent /\ entities # << >>
                      /\ Last(entities) \notin gone /\ Last(entities) \in Objects
                      /\ s.entities # << >> /\ Last(s.entities) = Last(entities)
    OBVIOUS
  <2>1. recent /\ entities # << >> /\ Last(entities) \notin gone
    BY DEF Left, TimeNotInherited
  <2>2. Last(entities) \in Objects
    <3>1. PICK p \in Seq(Objects), x \in Objects : entities = Append(p, x)
      BY <1>1, <2>1, LastElement
    <3> QED BY <3>1, AppendFacts
  <2>3. Last(entities) \in rest
    BY <2>1, <2>2
  <2> HIDE DEF rest
  <2>4. /\ Kept(entities, rest) # << >>
        /\ Last(Kept(entities, rest)) = Last(entities)
    BY <1>1, <2>1, <2>3, KeptLast
  <2>5. s.entities = Kept(entities, rest)
    BY <1>1
  <2>6. s.entities # << >> /\ Last(s.entities) = Last(entities)
    BY <2>4, <2>5, Zenon
  <2> QED BY <2>1, <2>2, <2>6
<1> DEFINE one == <<e>>
<1>6. /\ << >> \in Seq(Objects) /\ one = Append(<< >>, e)
      /\ e \in Range(one) /\ one # << >>
  BY SingleFacts, EmptyFacts
<1> HIDE DEF one
<1>7. CASE e \notin Range(s.entities)
  <2>1. r = s
    <3>1. s.entities # <<e>>
      BY <1>7, <1>6 DEF one
    <3> QED BY <1>7, <3>1 DEF Received
  <2>2. s.entities = Kept(entities, Objects \ (gone \cup {e}))
    <3>1. Range(s.entities) \subseteq Objects \ {e}
      BY <1>3, <1>7
    <3> QED BY <1>3, <1>4, <3>1, KeptAll
  <2>3. s.recent => recent /\ Last(entities) \notin gone \cup {e}
    <3>1. s.recent => Last(s.entities) \in Range(s.entities)
      <4> SUFFICES ASSUME s.recent PROVE Last(s.entities) \in Range(s.entities)
        OBVIOUS
      <4>1. PICK p \in Seq(Objects), x \in Objects : s.entities = Append(p, x)
        BY <1>3, <1>5, LastElement
      <4> QED BY <4>1, AppendFacts
    <3> QED BY <1>5, <1>7, <3>1
  <2>4. s.mode = IF s.entities = << >> /\ entities # << >> THEN "default" ELSE mode
    BY DEF Left
  <2>5. Left(s, gone \cup {e})
    BY <1>1, <2>2, <2>3, <2>4, Zenon DEF Left
  <2> QED BY <2>1, <2>5
<1>8. CASE s.entities = one
  <2>2. e \in Range(s.entities)
    BY <1>8, <1>6
  <2>3. r = [mode |-> "default", entities |-> << >>, recent |-> FALSE]
    BY <1>8, <2>2 DEF Received, one
  <2>4. Kept(s.entities, Objects \ {e}) = << >>
    <3>1. Kept(<<e>>, Objects \ {e}) = << >>
      BY KeptOne
    <3> QED BY <1>8, <3>1 DEF one
  <2>5. entities # << >>
    <3>1. ASSUME entities = << >> PROVE FALSE
      <4>1. s.entities = << >>
        BY <1>1, <3>1, KeptNone
      <4> QED BY <1>8, <1>6, <4>1
    <3> QED BY <3>1
  <2> QED BY <1>2, <1>4, <2>3, <2>4, <2>5 DEF Left
<1>9. CASE e \in Range(s.entities) /\ s.entities # one
  <2> DEFINE kept == Kept(s.entities, Objects \ {e})
  <2>1. r = [mode |-> s.mode, entities |-> kept,
             recent |-> s.recent /\ e # Last(s.entities)]
    BY <1>9 DEF Received, one
  <2>2. kept # << >>
    <3>1. Range(kept) = Range(s.entities) \cap (Objects \ {e})
      BY <1>3, KeptRange
    <3>2. PICK p \in Seq(Objects), x \in Objects : s.entities = Append(p, x)
      BY <1>3, <1>9, EmptyFacts, LastElement
    <3>3. /\ Range(s.entities) = Range(p) \cup {x} /\ x \notin Range(p)
          /\ Range(p) \subseteq Objects /\ x \in Objects
      <4>1. /\ Range(Append(p, x)) = Range(p) \cup {x}
            /\ IsInjective(Append(p, x)) => x \notin Range(p)
        BY <3>2, AppendFacts
      <4>2. Range(p) \subseteq Objects
        BY <3>2, RangeType
      <4> QED BY <1>3, <3>2, <4>1, <4>2
    <3>4. CASE x # e
      BY <3>1, <3>3, <3>4, EmptyFacts
    <3>5. CASE x = e
      <4>1. p # << >>
        BY <1>9, <1>6, <3>2, <3>5
      <4>2. PICK q \in Seq(Objects), y \in Objects : p = Append(q, y)
        BY <4>1, LastElement
      <4>3. y \in Range(p)
        BY <4>2, AppendFacts
      <4> QED BY <3>1, <3>3, <3>5, <4>3, EmptyFacts
    <3> QED BY <3>4, <3>5
  <2>3. s.entities # << >>
    BY <1>9, EmptyFacts
  <2>4. s.mode = mode
    BY <2>3 DEF Left
  <2>5. (s.recent /\ e # Last(s.entities))
          => recent /\ Last(entities) \notin gone \cup {e}
    BY <1>5
  <2>6. kept = Kept(entities, Objects \ (gone \cup {e}))
    BY <1>4
  <2>7. /\ r.mode = mode /\ r.entities = kept
        /\ r.recent = (s.recent /\ e # Last(s.entities))
    <3> HIDE DEF r, kept
    <3> QED BY <2>1, <2>4
  <2> HIDE DEF kept, r
  <2>8. r.mode = IF r.entities = << >> /\ entities # << >> THEN "default" ELSE mode
    BY <2>2, <2>7
  <2>9. r.recent => recent /\ Last(entities) \notin gone \cup {e}
    BY <2>5, <2>7
  <2>10. r.entities = Kept(entities, Objects \ (gone \cup {e}))
    BY <2>6, <2>7
  <2>11. Left(r, gone \cup {e})
    BY <1>2, <2>8, <2>9, <2>10, Zenon DEF Left
  <2> QED BY <2>11 DEF r
<1> QED BY <1>7, <1>8, <1>9

\* All that a tick destroys: in whichever order, the selection is left with
\* what still stands.
LEMMA AllReceivedLeft ==
  ASSUME InputTypeOK, SelectedStand, TimeNotInherited,
         NEW T \in SUBSET Objects, NEW order \in SetToSeqs(T)
  PROVE  Left(ReceivedAll(order), T)
<1> DEFINE n     == Len(order)
           start == [mode |-> mode, entities |-> entities, recent |-> recent]
           F     == Selections
           pass  == [i \in 1 .. n |-> [s \in F |-> Received(s, order[i])]]
           after == CHOOSE g : g = [i \in 0 .. n |->
                      IF i = 0 THEN start ELSE Received(g[i - 1], order[i])]
<1>1. ReceivedAll(order) = after[n]
  BY DEF ReceivedAll
<1>2. n \in Nat /\ \A i \in 1 .. n : order[i] \in Objects
  BY OrderType
<1>3. {order[i] : i \in 1 .. n} = T
  BY OrderIsAll
<1> HIDE DEF n
<1>4. start \in F
  BY DEF InputTypeOK, Selections
<1>5. pass \in [1 .. n -> [F -> F]]
  BY <1>2, ReceivedType
<1>6. PICK h : Computes(n, F, start, pass, h)
  <2>1. IsLoop(n, F, start, pass)
    BY <1>2, <1>4, <1>5 DEF IsLoop
  <2> HIDE DEF pass, F, start
  <2> QED BY <2>1, LoopRuns
<1> HIDE DEF start, F
<1>7. h = [i \in 0 .. n |->
             IF i = 0 THEN start ELSE Received(h[i - 1], order[i])]
  <2>1. ASSUME NEW i \in 1 .. n
        PROVE  h[i] = Received(h[i - 1], order[i])
    <3>1. i - 1 \in 0 .. n
      BY <1>2
    <3>2. h[i - 1] \in F /\ h[i] = pass[i][h[i - 1]]
      BY <1>6, <3>1 DEF Computes
    <3> QED BY <3>2
  <2>2. \A i \in 0 .. n : i = 0 \/ i \in 1 .. n
    BY <1>2
  <2> HIDE DEF pass
  <2> QED BY <1>6, <2>1, <2>2 DEF Computes
<1>8. after = [i \in 0 .. n |->
                 IF i = 0 THEN start ELSE Received(after[i - 1], order[i])]
  BY <1>7
<1> HIDE DEF after, pass
<1>9. /\ after[0] = start
      /\ \A i \in 1 .. n : after[i] = Received(after[i - 1], order[i])
  <2>1. 0 \in 0 .. n /\ \A i \in 1 .. n : i \in 0 .. n /\ i # 0
    BY <1>2
  <2> QED BY <1>8, <2>1
<1> DEFINE gone(i) == {order[j] : j \in 1 .. i}
           I       == {i \in 0 .. n : Left(after[i], gone(i))}
<1>10. 0 \in I
  <2>1. gone(0) = {}
    OBVIOUS
  <2>2. Left(start, {})
    <3>1. entities \in Seq(Objects) /\ Range(entities) \subseteq Objects
      BY EmptyFacts, RangeType DEF InputTypeOK
    <3>2. Kept(entities, Objects \ {}) = entities
      BY <3>1, KeptAll
    <3>3. /\ start.mode = mode /\ start.entities = entities
          /\ start.recent = recent
      BY DEF start
    <3>4. start \in Selections
      BY <1>4 DEF F
    <3> QED BY <3>2, <3>3, <3>4 DEF Left
  <2>3. 0 \in 0 .. n
    BY <1>2
  <2> QED BY <1>9, <2>1, <2>2, <2>3
<1>11. ASSUME NEW i \in 1 .. n, i - 1 \in I
       PROVE  i \in I
  <2>1. Left(after[i - 1], gone(i - 1)) /\ i \in 0 .. n
    BY <1>2, <1>11
  <2>2. gone(i - 1) \in SUBSET Objects /\ order[i] \in Objects
    BY <1>2
  <2>3. gone(i) = gone(i - 1) \cup {order[i]}
    <3>1. 1 .. i = (1 .. i - 1) \cup {i}
      BY <1>2
    <3> QED BY <3>1
  <2> HIDE DEF gone
  <2>4. Left(Received(after[i - 1], order[i]), gone(i - 1) \cup {order[i]})
    BY <2>1, <2>2, ReceivedLeft
  <2> QED BY <1>9, <2>1, <2>3, <2>4
<1>12. n \in I
  <2>1. n \in 0 .. n
    BY <1>2
  <2> HIDE DEF I
  <2> QED BY <1>2, <1>10, <1>11, <2>1, LoopInduction
<1> QED BY <1>1, <1>3, <1>12
-----------------------------------------------------------------------------
(* The selection *)

\* The inductive invariant, beside the types of Construction.
InputInv == InputTypeOK /\ SelectedStand /\ TimeNotInherited

LEMMA InputInvInit == InputInit => InputInv
<1> SUFFICES ASSUME InputInit PROVE InputInv
  OBVIOUS
<1>1. MaxSent \in Nat /\ 0 \in Objects \cup {0}
  BY MaxSentAssumption
<1>2. << >> \in Seq(Objects) /\ << >> \in Seq(Orders) /\ Len(<< >>) = 0
  OBVIOUS
<1>3. owner \in [Objects -> 0 .. Players]
  <2>1. \A o \in Objects : (IF o <= Players THEN o ELSE 0) \in 0 .. Players
    BY PlayersAssumption DEF Objects
  <2> QED BY <2>1 DEF InputInit
<1>4. InputTypeOK
  <2>1. mode \in {"default", "selected", "map"} /\ mode # "selected"
    BY DEF InputInit
  <2>2. entities = << >> /\ timed = 0 /\ recent = FALSE /\ sent = << >>
    BY DEF InputInit
  <2>3. sent \in Seq(Orders) /\ Len(sent) <= MaxSent
    BY <1>1, <1>2, <2>2
  <2> QED BY <1>1, <1>2, <1>3, <2>1, <2>2, <2>3 DEF InputTypeOK
<1>5. SelectedStand
  BY EmptyFacts DEF InputInit, SelectedStand
<1>6. TimeNotInherited
  BY DEF InputInit, TimeNotInherited
<1> QED BY <1>4, <1>5, <1>6 DEF InputInv

\* A selection of buildings that stand, none of them twice.
Selectable(s) ==
  /\ s \in Seq(Objects) /\ s # << >>
  /\ Range(s) \subseteq standing /\ IsInjective(s)

LEMMA SelectInv ==
  ASSUME InputInv, NEW s, Selectable(s), Select(s), UNCHANGED <<vars, owner, sent>>
  PROVE  InputInv'
<1>2. Last(s) \in Objects
  <2>1. PICK p \in Seq(Objects), x \in Objects : s = Append(p, x)
    BY LastElement DEF Selectable
  <2> QED BY <2>1, AppendFacts
<1>3. InputTypeOK'
  BY <1>2 DEF InputInv, InputTypeOK, Select, Selectable
<1>4. SelectedStand'
  BY DEF SelectedStand, Select, Selectable, vars
<1>5. TimeNotInherited'
  BY DEF TimeNotInherited, Select, Selectable
<1> QED BY <1>3, <1>4, <1>5 DEF InputInv

LEMMA DeselectInv ==
  ASSUME InputInv, NEW m \in {"default", "map"}, Deselect(m),
         UNCHANGED <<vars, owner, sent>>
  PROVE  InputInv'
<1>2. << >> \in Seq(Objects) /\ m \in {"default", "selected", "map"} /\ m # "selected"
  OBVIOUS
<1>3. InputTypeOK'
  BY <1>2 DEF InputInv, InputTypeOK, Deselect
<1> QED BY <1>3, EmptyFacts
        DEF InputInv, SelectedStand, TimeNotInherited, Deselect

\* What one click selects.
LEMMA ClickedSelectable ==
  ASSUME TypeOK, NEW pick \in standing, NEW es \in Clicked(pick)
  PROVE  Selectable(es)
<1> DEFINE T == IF DoubleClicked(pick) THEN Alike(pick) ELSE {}
<1>1. T \subseteq standing \ {pick} /\ standing \subseteq Objects /\ pick \in Objects
  BY DEF Alike, TypeOK
<1>2. PICK others \in SetToSeqs(T) : es = <<pick>> \o others
  BY DEF Clicked
<1> HIDE DEF T
<1>3. T \in SUBSET Objects
  BY <1>1
<1>4. /\ Len(others) \in Nat /\ {others[i] : i \in 1 .. Len(others)} = T
      /\ others \in [1 .. Cardinality(T) -> T]
      /\ \A i, j \in 1 .. Cardinality(T) : i # j => others[i] # others[j]
  BY <1>3, OrderType, OrderIsAll DEF SetToSeqs
<1>5. Cardinality(T) \in Nat
  <2>1. IsFiniteSet(Objects)
    BY PlayersAssumption, FS_Interval DEF Objects
  <2> QED BY <1>3, <2>1, FS_Subset, FS_CardinalityType
<1> DEFINE n == Cardinality(T)
<1> HIDE DEF n
<1>6. others \in Seq(Objects) /\ Len(others) = n
  BY <1>3, <1>4, <1>5 DEF n
<1>7. /\ es \in Seq(Objects) /\ Len(es) = n + 1
      /\ es[1] = pick /\ \A i \in 2 .. n + 1 : es[i] = others[i - 1]
  BY <1>1, <1>2, <1>5, <1>6 DEF n
<1>8. \A i \in 2 .. n + 1 : es[i] \in T /\ i - 1 \in 1 .. n
  BY <1>4, <1>5, <1>7 DEF n
<1>9. DOMAIN es = 1 .. n + 1 /\ \A i \in 1 .. n + 1 : i = 1 \/ i \in 2 .. n + 1
  BY <1>5, <1>7 DEF n
<1>10. Range(es) \subseteq standing
  BY <1>1, <1>7, <1>8, <1>9 DEF Range
<1>11. ASSUME NEW i \in 1 .. n + 1, NEW j \in 1 .. n + 1, es[i] = es[j]
       PROVE  i = j
  <2>1. CASE i = 1 \/ j = 1
    BY <1>1, <1>7, <1>8, <1>9, <1>11, <2>1
  <2>2. CASE i \in 2 .. n + 1 /\ j \in 2 .. n + 1
    <3>1. others[i - 1] = others[j - 1] /\ i - 1 \in 1 .. n /\ j - 1 \in 1 .. n
      BY <1>7, <1>8, <1>11, <2>2
    <3>2. i - 1 = j - 1
      BY <1>4, <3>1 DEF n
    <3> QED BY <2>2, <3>2
  <2> QED BY <1>9, <2>1, <2>2
<1>12. es # << >>
  BY <1>5, <1>7 DEF n
<1> QED BY <1>7, <1>9, <1>10, <1>11, <1>12 DEF Selectable, IsInjective

\* What it adds is what was not selected before.
LEMMA AddedSelectable ==
  ASSUME InputInv, entities # << >>, NEW es, Selectable(es)
  PROVE  Selectable(Added(es))
<1> DEFINE new == Kept(es, Objects \ Range(entities))
           all == entities \o new
<1>1. /\ entities \in Seq(Objects) /\ IsInjective(entities)
      /\ Range(entities) \subseteq standing
  BY DEF InputInv, InputTypeOK, SelectedStand
<1>2. /\ new \in Seq(Objects) /\ IsInjective(new)
      /\ Range(new) \subseteq standing
      /\ Range(new) \cap Range(entities) = {}
  BY KeptRange, KeptOnce DEF Selectable
<1>3. all = Added(es)
  BY DEF Added
<1> HIDE DEF new
<1> DEFINE n == Len(entities)
           k == Len(new)
<1>4. /\ n \in Nat /\ k \in Nat /\ n # 0
      /\ DOMAIN entities = 1 .. n /\ DOMAIN new = 1 .. k
  BY <1>1, <1>2
<1>5. /\ all \in Seq(Objects) /\ Len(all) = n + k /\ DOMAIN all = 1 .. n + k
      /\ \A i \in 1 .. n : all[i] = entities[i]
      /\ \A i \in n + 1 .. n + k : all[i] = new[i - n]
  BY <1>1, <1>2
<1> HIDE DEF n, k, all
<1>6. all # << >>
  BY <1>4, <1>5
<1>7. /\ \A i \in 1 .. n + k : i \in 1 .. n \/ i \in n + 1 .. n + k
      /\ \A i \in n + 1 .. n + k : i - n \in 1 .. k
  BY <1>4
<1>8. /\ \A i \in 1 .. n : all[i] \in Range(entities)
      /\ \A i \in n + 1 .. n + k : all[i] \in Range(new)
  BY <1>4, <1>5, <1>7 DEF Range
<1>9. Range(all) \subseteq standing
  <2>1. Range(all) \subseteq Range(entities) \cup Range(new)
    BY <1>5, <1>7, <1>8 DEF Range
  <2> QED BY <1>1, <1>2, <2>1
<1>10. ASSUME NEW i \in 1 .. n + k, NEW j \in 1 .. n + k, all[i] = all[j]
       PROVE  i = j
  <2>1. CASE i \in 1 .. n /\ j \in 1 .. n
    BY <1>1, <1>4, <1>5, <1>10, <2>1 DEF IsInjective
  <2>2. CASE i \in n + 1 .. n + k /\ j \in n + 1 .. n + k
    <3>1. i - n \in 1 .. k /\ j - n \in 1 .. k /\ new[i - n] = new[j - n]
      BY <1>5, <1>7, <1>10, <2>2
    <3>2. i - n = j - n
      BY <1>2, <1>4, <3>1 DEF IsInjective
    <3> QED BY <1>4, <3>2
  <2>3. ~ (i \in 1 .. n /\ j \in n + 1 .. n + k)
    BY <1>2, <1>8, <1>10
  <2>4. ~ (j \in 1 .. n /\ i \in n + 1 .. n + k)
    BY <1>2, <1>8, <1>10
  <2> QED BY <1>7, <2>1, <2>2, <2>3, <2>4
<1> QED BY <1>3, <1>5, <1>6, <1>9, <1>10 DEF Selectable, IsInjective

\* Selecting keeps the invariant.
LEMMA ChoiceInv ==
  ASSUME TypeOK, InputInv, UNCHANGED <<vars, owner, sent>>,
         NEW pick \in standing \cup {0},
         ClickFirst(pick) \/ Click(pick) \/ LeaveMap \/ TimePasses
  PROVE  InputInv'
<1> USE DEF InputInv
<1>1. ASSUME NEW m \in {"default", "map"}, Deselect(m)
      PROVE  InputInv'
  BY <1>1, DeselectInv
<1>2. CASE ClickFirst(pick)
  <2>1. CASE pick \in standing
    <3>1. <<pick>> \in Seq(Objects) /\ <<pick>> # << >>
      BY <2>1 DEF TypeOK
    <3>2. Range(<<pick>>) = {pick} /\ IsInjective(<<pick>>)
      <4>1. DOMAIN <<pick>> = {1}
        OBVIOUS
      <4> QED BY <4>1, SingleFacts DEF IsInjective
    <3>3. Selectable(<<pick>>)
      BY <2>1, <3>1, <3>2 DEF Selectable
    <3> QED BY <1>2, <2>1, <3>3, SelectInv DEF ClickFirst
  <2>2. CASE pick \notin standing
    BY <1>1, <1>2, <2>2 DEF ClickFirst
  <2> QED BY <2>1, <2>2
<1>3. CASE Click(pick)
  <2>1. CASE pick \in standing
    <3>1. PICK es \in Clicked(pick) : Select(es) \/ Select(Added(es))
      BY <1>3, <2>1 DEF Click
    <3>2. Selectable(es)
      BY <2>1, ClickedSelectable
    <3>3. entities # << >>
      BY <1>3 DEF Click, InputTypeOK
    <3>4. Selectable(Added(es))
      BY <3>2, <3>3, AddedSelectable
    <3> QED BY <3>1, <3>2, <3>4, SelectInv
  <2>2. CASE pick \notin standing
    BY <1>1, <1>3, <2>2 DEF Click
  <2> QED BY <2>1, <2>2
<1>4. CASE LeaveMap
  BY <1>1, <1>4 DEF LeaveMap
<1>5. CASE TimePasses
  BY <1>5 DEF TimePasses, InputTypeOK, SelectedStand, TimeNotInherited, vars
<1> QED BY <1>2, <1>3, <1>4, <1>5

\* What is not about the selection leaves it as it is, and buildings that are
\* added do not matter to it.
LEMMA KeepsSelection ==
  ASSUME InputInv, UNCHANGED selection, standing \subseteq standing',
         owner' \in [Objects -> 0 .. Players],
         sent' \in Seq(Orders), Len(sent') <= MaxSent
  PROVE  InputInv'
BY DEF InputInv, InputTypeOK, SelectedStand, TimeNotInherited, selection

LEMMA SendInv ==
  ASSUME InputInv, UNCHANGED <<vars, owner, selection>>,
         NEW orders \in Seq(Orders), SendOrders(orders)
  PROVE  InputInv'
<1>1. sent' \in Seq(Orders) /\ Len(sent') <= MaxSent
  BY DEF SendOrders, InputInv, InputTypeOK
<1>2. owner' \in [Objects -> 0 .. Players] /\ standing \subseteq standing'
  BY DEF InputInv, InputTypeOK, vars
<1> QED BY <1>1, <1>2, KeepsSelection

\* Ordering does.
LEMMA OrderInv ==
  ASSUME TypeOK, InputInv, UNCHANGED <<vars, owner, selection>>,
         \/ \E t \in Types : PressKey(t)
         \/ \E pick \in standing : RightClick(pick)
  PROVE  InputInv'
<1>1. entities \in Seq(Objects)
  BY DEF InputInv, InputTypeOK
<1>2. CASE \E t \in Types : PressKey(t)
  <2>1. PICK t \in Types : PressKey(t)
    BY <1>2
  <2>2. entities # << >>
    BY <2>1 DEF PressKey, InputInv, InputTypeOK
  <2>3. Head(entities) \in Objects
    BY <1>1, <2>2
  <2>4. BuildOrder(Head(entities), t) \in Orders
    BY <2>3 DEF Orders
  <2>5. <<BuildOrder(Head(entities), t)>> \in Seq(Orders)
    BY <2>4
  <2> QED BY <2>1, <2>5, SendInv DEF PressKey
<1>3. CASE \E pick \in standing : RightClick(pick)
  <2>1. PICK pick \in standing : RightClick(pick)
    BY <1>3
  <2> DEFINE ordered == Kept(entities,
                             {m \in MainBuildings : ConstructValid(m, pick)})
             orders  == [i \in DOMAIN ordered |->
                           ConstructOrder(ordered[i], pick)]
  <2>2. ordered \in Seq(Objects)
    BY <1>1, KeptRange
  <2>3. SendOrders(orders)
    BY <2>1 DEF RightClick
  <2> HIDE DEF ordered
  <2>4. pick \in Objects
    BY DEF TypeOK
  <2>5. \A i \in DOMAIN ordered : ConstructOrder(ordered[i], pick) \in Orders
    BY <2>2, <2>4 DEF Orders
  <2>6. orders \in Seq(Orders)
    BY <2>2, <2>5
  <2> QED BY <2>3, <2>6, SendInv
<1> QED BY <1>2, <1>3

\* Running orders does.
LEMMA OwnerType ==
  ASSUME InputInv, NEW p \in 1 .. Players,
         owner' = [owner EXCEPT ![created'] = p]
  PROVE  owner' \in [Objects -> 0 .. Players]
<1>1. p \in 0 .. Players
  BY PlayersAssumption
<1> QED BY <1>1 DEF InputInv, InputTypeOK

LEMMA RunInv ==
  ASSUME InputInv, RunSent
  PROVE  InputInv'
<1>1. sent' \in Seq(Orders) /\ Len(sent') <= MaxSent
  BY MaxSentAssumption DEF RunSent, InputInv, InputTypeOK
<1>2. CASE CarryOut(Head(sent))
  <2>1. standing \subseteq standing'
    BY <1>2 DEF CarryOut, Build, ConstructNow
  <2>2. owner' \in [Objects -> 0 .. Players]
    BY <1>2, OwnerType, MeAssumption DEF CarryOut, InputInv, InputTypeOK
  <2> QED BY <1>1, <2>1, <2>2, KeepsSelection DEF RunSent
<1>3. CASE UNCHANGED <<vars, owner>>
  <2>1. standing \subseteq standing' /\ owner' \in [Objects -> 0 .. Players]
    BY <1>3 DEF vars, InputInv, InputTypeOK
  <2> QED BY <1>1, <2>1, KeepsSelection DEF RunSent
<1> QED BY <1>2, <1>3 DEF RunSent

LEMMA OthersInv ==
  ASSUME InputInv, UNCHANGED <<selection, sent>>,
         \/ \E p \in (1 .. Players) \ {Me}, m \in standing, t \in Types :
              OthersBuild(p, m, t)
         \/ \E m \in standing, o \in standing : OthersConstruct(m, o)
  PROVE  InputInv'
<1>1. sent' \in Seq(Orders) /\ Len(sent') <= MaxSent
  BY DEF InputInv, InputTypeOK
<1>2. standing \subseteq standing'
  BY DEF OthersBuild, Build, OthersConstruct, ConstructLater, ConstructNow
<1>3. owner' \in [Objects -> 0 .. Players]
  BY OwnerType DEF OthersBuild, OthersConstruct, InputInv, InputTypeOK
<1> QED BY <1>1, <1>2, <1>3, KeepsSelection

\* A tick does, and leaves the selection with what still stands.
LEMMA InputTickInv ==
  ASSUME TypeOK, InputInv, InputTick
  PROVE  InputInv' /\ entities' = Kept(entities, standing')
<1> DEFINE T == standing \ standing'
<1>1. standing' \subseteq standing /\ standing \subseteq Objects
  BY DEF InputTick, Tick, Destroy, TypeOK
<1>2. PICK order \in SetToSeqs(T) :
        /\ mode' = ReceivedAll(order).mode
        /\ entities' = ReceivedAll(order).entities
        /\ recent' = ReceivedAll(order).recent
  BY DEF InputTick
<1>3. UNCHANGED <<timed, owner, sent>>
  BY DEF InputTick
<1> HIDE DEF T
<1>4. Left(ReceivedAll(order), T)
  BY <1>1, AllReceivedLeft DEF InputInv, T
<1>5. /\ mode' \in {"default", "selected", "map"}
      /\ entities' \in Seq(Objects) /\ recent' \in BOOLEAN
      /\ entities' = Kept(entities, Objects \ T)
      /\ mode' = IF entities' = << >> /\ entities # << >> THEN "default" ELSE mode
      /\ recent' => recent /\ Last(entities) \notin T
  BY <1>2, <1>4 DEF Left, Selections
<1>6. /\ entities \in Seq(Objects) /\ IsInjective(entities)
      /\ Range(entities) \subseteq standing
  BY DEF InputInv, InputTypeOK, SelectedStand
<1>7. entities' = Kept(entities, standing')
  <2>1. Kept(entities, standing) = entities
    BY <1>6, KeptAll
  <2>2. standing \cap (Objects \ T) = standing'
    BY <1>1 DEF T
  <2>3. Kept(Kept(entities, standing), Objects \ T)
          = Kept(entities, standing \cap (Objects \ T))
    BY <1>6, KeptTwice
  <2> QED BY <1>5, <2>1, <2>2, <2>3
<1>8. SelectedStand'
  BY <1>6, <1>7, KeptRange, KeptOnce DEF SelectedStand
<1>9. mode' = "selected" <=> entities' # << >>
  <2>1. entities = << >> => entities' = << >>
    BY <1>7, KeptNone
  <2> QED BY <1>5, <2>1 DEF InputInv, InputTypeOK
<1>10. InputTypeOK'
  BY <1>3, <1>5, <1>9 DEF InputInv, InputTypeOK
<1>11. TimeNotInherited'
  <2>1. ASSUME recent'
        PROVE  entities' # << >> /\ Last(entities') = timed'
    <3>1. entities # << >> /\ Last(entities) = timed /\ Last(entities) \notin T
      BY <1>5, <2>1 DEF InputInv, TimeNotInherited
    <3>2. Last(entities) \in Range(entities)
      <4>1. PICK p \in Seq(Objects), x \in Objects : entities = Append(p, x)
        BY <1>6, <3>1, LastElement
      <4> QED BY <4>1, AppendFacts
    <3>3. Last(entities) \in standing'
      BY <1>1, <1>6, <3>1, <3>2 DEF T
    <3> QED BY <1>3, <1>6, <1>7, <3>1, <3>3, KeptLast
  <2> QED BY <2>1 DEF TimeNotInherited
<1> QED BY <1>7, <1>8, <1>10, <1>11 DEF InputInv

\* An order that is carried out is a step of Construction, one that is
\* refused a stutter.
LEMMA OrderIsStep ==
  ASSUME RunSent
  PROVE  [Next]_vars
<1>1. CASE CarryOut(Head(sent))
  BY <1>1 DEF CarryOut, Next
<1>2. CASE UNCHANGED vars
  BY <1>2
<1> QED BY <1>1, <1>2 DEF RunSent, vars

\* Input implements Construction.
THEOREM InputIsConstruction == InputSpec => Spec
<1>1. InputInit => Init
  BY DEF InputInit
<1>2. ASSUME [InputNext]_inputVars
      PROVE  [Next]_vars
  <2>1. CASE RunSent
    BY <2>1, OrderIsStep
  <2>2. CASE InputTick
    BY <2>2 DEF InputTick, Next
  <2>3. CASE \E p \in (1 .. Players) \ {Me}, m \in standing, t \in Types :
               OthersBuild(p, m, t)
    BY <2>3 DEF OthersBuild, Next
  <2>4. CASE \E m \in standing, o \in standing : OthersConstruct(m, o)
    BY <2>4 DEF OthersConstruct, Next
  <2>5. CASE UNCHANGED vars
    BY <2>5
  <2> QED BY <1>2, <2>1, <2>2, <2>3, <2>4, <2>5 DEF InputNext, inputVars, vars
<1> QED BY <1>1, <1>2, PTL DEF InputSpec, Spec

\* With players who select, order and are too late, no block is sent while it
\* is in place or under way, none that is sent gets lost, no building sends
\* to itself, and no site is forgotten.
THEOREM BuiltWithPlayers ==
  InputSpec => /\ [](NoBlockTwice /\ NoneBuildsItself /\ NotForgotten)
               /\ NothingLost
<1>1. Spec => []NoBlockTwice
  BY NoBlockIsSentTwice
<1>2. Spec => []NotForgotten
  BY NoSiteIsForgotten
<1>3. Spec => []NoneBuildsItself
  BY NoBuildingSendsToItself
<1> QED
  BY <1>1, <1>2, <1>3, NoBlockIsLost, InputIsConstruction, PTL

-----------------------------------------------------------------------------
\* Every step keeps the invariant, and takes nothing from a selection that
\* stands.
LEMMA InputStep ==
  ASSUME TypeOK, InputInv, [InputNext]_inputVars
  PROVE  /\ InputInv'
         /\ standing \ standing' # {} => entities' = Kept(entities, standing')
<1>1. ASSUME UNCHANGED vars
      PROVE  standing \ standing' = {}
  BY <1>1 DEF vars
<1>2. CASE /\ \/ \E pick \in standing \cup {0} : ClickFirst(pick) \/ Click(pick)
              \/ LeaveMap
              \/ TimePasses
           /\ UNCHANGED <<vars, owner, sent>>
  <2>1. PICK pick \in standing \cup {0} :
          ClickFirst(pick) \/ Click(pick) \/ LeaveMap \/ TimePasses
    BY <1>2
  <2> QED BY <1>1, <1>2, <2>1, ChoiceInv
<1>3. CASE /\ \/ \E t \in Types : PressKey(t)
              \/ \E pick \in standing : RightClick(pick)
           /\ UNCHANGED <<vars, owner, selection>>
  BY <1>1, <1>3, OrderInv
<1>4. CASE RunSent
  <2>1. standing \subseteq standing'
    BY <1>4 DEF RunSent, CarryOut, Build, ConstructNow, vars
  <2> QED BY <1>4, <2>1, RunInv
<1>5. CASE /\ \/ \E p \in (1 .. Players) \ {Me}, m \in standing, t \in Types :
                   OthersBuild(p, m, t)
              \/ \E m \in standing, o \in standing : OthersConstruct(m, o)
           /\ UNCHANGED <<selection, sent>>
  <2>1. standing \subseteq standing'
    BY <1>5 DEF OthersBuild, Build, OthersConstruct, ConstructLater, ConstructNow
  <2> QED BY <1>5, <2>1, OthersInv
<1>6. CASE InputTick
  BY <1>6, InputTickInv
<1>7. CASE UNCHANGED inputVars
  <2>1. /\ UNCHANGED selection /\ standing \subseteq standing'
        /\ owner' \in [Objects -> 0 .. Players]
        /\ sent' \in Seq(Orders) /\ Len(sent') <= MaxSent
    BY <1>7 DEF inputVars, vars, InputInv, InputTypeOK
  <2> QED BY <2>1, KeepsSelection
<1> QED BY <1>2, <1>3, <1>4, <1>5, <1>6, <1>7 DEF InputNext

LEMMA InputHolds == InputSpec => [](TypeOK /\ InputInv)
<1>1. InputInit => InputInv
  BY InputInvInit
<1>2. TypeOK /\ InputInv /\ [InputNext]_inputVars => InputInv'
  BY InputStep
<1>3. Spec => []TypeOK
  BY BuildingTypes
<1> QED BY <1>1, <1>2, <1>3, InputIsConstruction, PTL DEF InputSpec

\* Something is selected exactly in the mode of that name, and no more orders
\* are under way than were let through.
THEOREM SelectionTypes == InputSpec => []InputTypeOK
<1>1. InputInv => InputTypeOK
  BY DEF InputInv
<1> QED BY <1>1, InputHolds, PTL

\* Whatever is destroyed while it is selected, also with others in the same
\* tick: what is selected stands, and is selected once.
THEOREM SelectedBuildingsStand == InputSpec => []SelectedStand
<1>1. InputInv => SelectedStand
  BY DEF InputInv
<1> QED BY <1>1, InputHolds, PTL

\* While the time of the last selection counts, the last building is the one
\* that was last when it was taken.  So a click that counts as a double one is
\* on that building, which still stands, and not on one that has come last
\* since, because that one was destroyed.
THEOREM NoneInheritsTheTime ==
  InputSpec =>
    [](/\ TimeNotInherited
       /\ \A pick \in standing :
            mode = "selected" /\ DoubleClicked(pick)
              => pick = timed /\ timed \in standing)
<1>1. ASSUME InputInv, NEW pick \in standing, DoubleClicked(pick)
      PROVE  pick = timed /\ timed \in standing
  BY <1>1 DEF InputInv, TimeNotInherited, DoubleClicked
<1>2. InputInv =>
        /\ TimeNotInherited
        /\ \A pick \in standing :
             mode = "selected" /\ DoubleClicked(pick)
               => pick = timed /\ timed \in standing
  BY <1>1 DEF InputInv
<1> QED BY <1>2, InputHolds, PTL

\* A tick takes from a selection what it destroys, and nothing else.
THEOREM NothingElseDeselected == InputSpec => SelectionKept
<1>1. TypeOK /\ InputInv /\ [InputNext]_inputVars =>
        [standing \ standing' # {} =>
           entities' = Kept(entities, standing')]_inputVars
  BY InputStep
<1> QED BY <1>1, InputHolds, PTL DEF InputSpec, SelectionKept
=============================================================================
