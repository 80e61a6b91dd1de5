-------------------------------- MODULE Loops --------------------------------
(***************************************************************************)
(* How a loop of the program is reasoned about, whatever its length.       *)
(*                                                                         *)
(* A loop is a recursive function on 0..n: what the program has computed   *)
(* after the first i passes.  The provers cannot use the library's         *)
(* theorems on induction, which take an operator.  So the induction here   *)
(* is on a set, and goes back to the theorem that in a well-founded order  *)
(* every set has a minimal element.                                        *)
(***************************************************************************)
EXTENDS Integers, Sequences, WellFoundedInduction, TLAPS

\* Every set of natural numbers that is not empty has a least element.
LEMMA LeastNumber ==
  ASSUME NEW T \in SUBSET Nat, T # {}
  PROVE  \E x \in T : \A y \in T : x <= y
<1> DEFINE less == OpToRel(<, Nat)
<1>1. IsWellFoundedOn(less, Nat)
  BY NatLessThanWellFounded
<1>2. less = {s \in Nat \X Nat : s[1] < s[2]}
  BY DEF OpToRel
<1> HIDE DEF less
<1>3. PICK x \in T : \A y \in T : ~ (<<y, x>> \in less)
  BY <1>1, WFMin
<1>4. ASSUME NEW y \in T
      PROVE  x <= y
  <2>1. x \in Nat /\ y \in Nat
    OBVIOUS
  <2>2. ~ (<<y, x>> \in less)
    BY <1>3
  <2> QED BY <1>2, <2>1, <2>2
<1> QED BY <1>4

\* Induction over the passes of a loop: S is the set of the pass numbers
\* after which an invariant of the loop holds.
LEMMA LoopInduction ==
  ASSUME NEW n \in Nat, NEW S, 0 \in S,
         \A i \in 1..n : i - 1 \in S => i \in S
  PROVE  \A i \in 0..n : i \in S
<1> DEFINE T == {i \in 0..n : i \notin S}
<1> SUFFICES ASSUME T # {} PROVE FALSE
  OBVIOUS
<1>1. T \in SUBSET Nat
  OBVIOUS
<1>2. PICK x \in T : \A y \in T : x <= y
  <2> HIDE DEF T
  <2> QED BY <1>1, LeastNumber
<1>3. x \in 1..n
  OBVIOUS
<1>4. x - 1 \notin T
  BY <1>2, <1>3
<1> QED BY <1>3, <1>4

\* The first i elements of a sequence.
FirstOf(s, i) == SubSeq(s, 1, i)

\* A sequence grows from its first elements to itself, by one element each.
LEMMA PrefixGrows ==
  ASSUME NEW X, NEW s \in Seq(X)
  PROVE  /\ FirstOf(s, 0) = << >>
         /\ \A i \in 1..Len(s) :
              /\ FirstOf(s, i - 1) \in Seq(X) /\ s[i] \in X
              /\ FirstOf(s, i) = Append(FirstOf(s, i - 1), s[i])
         /\ FirstOf(s, Len(s)) = s
<1> USE DEF FirstOf
<1>1. SubSeq(s, 1, 0) = << >>
  <2>1. SubSeq(s, 1, 0) \in Seq(X) /\ Len(SubSeq(s, 1, 0)) = 0
    OBVIOUS
  <2> QED BY <2>1
<1>2. ASSUME NEW i \in 1..Len(s)
      PROVE  /\ SubSeq(s, 1, i - 1) \in Seq(X) /\ s[i] \in X
             /\ SubSeq(s, 1, i) = Append(SubSeq(s, 1, i - 1), s[i])
  <2> DEFINE p == SubSeq(s, 1, i - 1)
             q == SubSeq(s, 1, i)
  <2>1. i \in Nat /\ i - 1 \in Nat /\ s[i] \in X
    OBVIOUS
  <2>2. p \in Seq(X) /\ Len(p) = i - 1
    OBVIOUS
  <2>3. q \in Seq(X) /\ Len(q) = i
    OBVIOUS
  <2>4. Append(p, s[i]) \in Seq(X) /\ Len(Append(p, s[i])) = i
    BY <2>1, <2>2
  <2>5. \A j \in 1..i : q[j] = Append(p, s[i])[j]
    BY <2>1, <2>2
  <2> QED BY <2>1, <2>2, <2>3, <2>4, <2>5
<1> QED BY <1>1, <1>2

\* Good, a set of sequences, has the empty one, and with a sequence every one
\* that is longer by an element of X.
IsInductive(X, Good) ==
  /\ << >> \in Good
  /\ \A p \in Seq(X), x \in X : p \in Good => Append(p, x) \in Good

\* Induction over the elements of a sequence: such a set has all sequences.
LEMMA SequenceInduction ==
  ASSUME NEW X, NEW Good, IsInductive(X, Good)
  PROVE  \A s \in Seq(X) : s \in Good
<1> SUFFICES ASSUME NEW s \in Seq(X) PROVE s \in Good
  OBVIOUS
<1> DEFINE S == {i \in 0..Len(s) : FirstOf(s, i) \in Good}
<1>1. 0 \in S
  <2>1. << >> \in Good /\ 0 \in 0..Len(s)
    BY DEF IsInductive
  <2> QED BY <2>1, PrefixGrows
<1>2. ASSUME NEW i \in 1..Len(s), i - 1 \in S
      PROVE  i \in S
  <2> DEFINE p == FirstOf(s, i - 1)
  <2>1. /\ p \in Seq(X) /\ s[i] \in X
        /\ FirstOf(s, i) = Append(p, s[i])
    BY PrefixGrows
  <2>2. p \in Good /\ i \in 0..Len(s)
    BY <1>2
  <2> HIDE DEF p
  <2>3. Append(p, s[i]) \in Good
    BY <2>1, <2>2 DEF IsInductive
  <2> QED BY <2>1, <2>2, <2>3
<1>3. Len(s) \in S
  <2> HIDE DEF S
  <2>1. Len(s) \in Nat /\ Len(s) \in 0..Len(s)
    OBVIOUS
  <2> QED BY <1>1, <1>2, <2>1, LoopInduction
<1> QED BY <1>3, PrefixGrows

\* A sequence that is not empty has a last element.
LEMMA LastElement ==
  ASSUME NEW X, NEW s \in Seq(X), s # << >>
  PROVE  \E p \in Seq(X), x \in X : s = Append(p, x)
<1> DEFINE n == Len(s)
<1>1. n \in Nat /\ n # 0
  OBVIOUS
<1>2. n \in 1..Len(s) /\ FirstOf(s, n) = s
  BY <1>1, PrefixGrows
<1>3. /\ FirstOf(s, n - 1) \in Seq(X) /\ s[n] \in X
      /\ FirstOf(s, n) = Append(FirstOf(s, n - 1), s[n])
  <2> HIDE DEF n
  <2>1. \A i \in 1..Len(s) :
          /\ FirstOf(s, i - 1) \in Seq(X) /\ s[i] \in X
          /\ FirstOf(s, i) = Append(FirstOf(s, i - 1), s[i])
    BY PrefixGrows
  <2> QED BY <1>2, <2>1
<1> HIDE DEF n
<1> QED BY <1>2, <1>3

\* A loop of n passes, each of which takes a value of F to a value of F.
IsLoop(n, F, start, pass) ==
  n \in Nat /\ start \in F /\ pass \in [1..n -> [F -> F]]

\* h is what it has computed after each pass.
Computes(n, F, start, pass, h) ==
  /\ h \in [0..n -> F]
  /\ h[0] = start
  /\ \A i \in 1..n : h[i] = pass[i][h[i - 1]]

\* Such a loop computes something.
LEMMA LoopRuns ==
  ASSUME NEW n, NEW F, NEW start, NEW pass, IsLoop(n, F, start, pass)
  PROVE  \E h : Computes(n, F, start, pass, h)
<1> USE DEF IsLoop
<1> DEFINE Runs(k, h) ==
             h[0] = start /\ \A i \in 1..k : h[i] = pass[i][h[i - 1]]
           S == {k \in 0..n : \E h \in [0..k -> F] : Runs(k, h)}
<1>1. 0 \in S
  <2> DEFINE h == [i \in 0..0 |-> start]
  <2>1. h \in [0..0 -> F] /\ h[0] = start
    OBVIOUS
  <2>2. 1..0 = {} /\ 0 \in 0..n
    OBVIOUS
  <2> HIDE DEF h
  <2> QED BY <2>1, <2>2
<1>2. ASSUME NEW k \in 1..n, k - 1 \in S
      PROVE  k \in S
  <2>1. PICK h \in [0..(k - 1) -> F] : Runs(k - 1, h)
    BY <1>2
  <2> DEFINE g == [i \in 0..k |-> IF i = k THEN pass[k][h[k - 1]] ELSE h[i]]
  <2>2. g \in [0..k -> F]
    BY <2>1
  <2>3. g[0] = start
    BY <2>1
  <2>4. \A i \in 1..k : g[i] = pass[i][g[i - 1]]
    BY <2>1
  <2>5. k \in 0..n
    OBVIOUS
  <2> HIDE DEF g
  <2> QED BY <2>2, <2>3, <2>4, <2>5
<1>3. n \in S
  <2>1. \A i \in 1..n : i - 1 \in S => i \in S
    BY <1>2
  <2>2. n \in 0..n
    OBVIOUS
  <2> HIDE DEF S
  <2> QED BY <1>1, <2>1, <2>2, LoopInduction
<1> QED BY <1>3 DEF Computes
=============================================================================
