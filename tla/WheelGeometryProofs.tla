------------------------- MODULE WheelGeometryProofs --------------------------
(***************************************************************************)
(* The angles of WheelGeometry, for every number of units in a turn and of *)
(* segments that divides it evenly.                                        *)
(***************************************************************************)
EXTENDS WheelGeometry, TLAPS

\* The quotient and the remainder are told by their sum.
LEMMA DivMod ==
  ASSUME NEW q \in Int, NEW d \in Nat \ {0}, NEW r \in 0..d - 1
  PROVE (q * d + r) \div d = q /\ (q * d + r) % d = r
  OBVIOUS

\* Division with a remainder, of negative angles too.
LEMMA Euclid ==
  ASSUME NEW a \in Int, NEW d \in Nat \ {0}
  PROVE a = (a \div d) * d + (a % d) /\ a % d \in 0..d - 1 /\ a \div d \in Int
  OBVIOUS

\* All arcs of a wheel are the same, even, and make up the turn.
LEMMA ArcFacts ==
  ASSUME NEW n \in Counts
  PROVE /\ n \in Nat \ {0} /\ Circle \in Nat \ {0}
        /\ Arc(n) \in Nat \ {0} /\ n * Arc(n) = Circle
        /\ Arc(n) \div 2 \in 1..Arc(n) - 1
<1> DEFINE h == Circle \div (2 * n)
<1>1. n \in Nat \ {0} /\ Circle \in Nat \ {0} /\ Circle % (2 * n) = 0
  BY CircleAssumption
<1>2. h \in Int /\ Circle = h * (2 * n)
  <2> DEFINE d == 2 * n
  <2>1. d \in Nat \ {0}
    BY <1>1
  <2>2. Circle % d = 0 /\ h = Circle \div d
    BY <1>1
  <2> HIDE DEF d, h
  <2>3. Circle = (Circle \div d) * d + (Circle % d) /\ Circle \div d \in Int
    BY <1>1, <2>1, Euclid
  <2>4. h \in Int /\ Circle = h * d
    BY <2>1, <2>2, <2>3
  <2> QED
    BY <2>4 DEF d
<1> HIDE DEF h
<1>3. h * (2 * n) = (2 * h) * n /\ 2 * h \in Int
  BY <1>1, <1>2
<1>4. h >= 1
  BY <1>1, <1>2
<1>5. Circle = (2 * h) * n + 0 /\ 0 \in 0..n - 1
  BY <1>1, <1>2, <1>3
<1>6. Arc(n) = 2 * h
  <2>1. ((2 * h) * n + 0) \div n = 2 * h
    BY <1>1, <1>3, <1>5, DivMod
  <2> QED
    BY <2>1, <1>5 DEF Arc
<1>7. (2 * h) \div 2 = h
  <2>1. (h * 2 + 0) \div 2 = h
    BY <1>2, DivMod
  <2>2. h * 2 + 0 = 2 * h
    BY <1>2
  <2> QED
    BY <2>1, <2>2
<1>8. n * (2 * h) = Circle
  BY <1>1, <1>2, <1>3
<1> QED
  BY <1>1, <1>2, <1>4, <1>6, <1>7, <1>8

\* Even an index that the wheel does not have stops it somewhere in the turn.
LEMMA LandingInTurn ==
  ASSUME NEW n \in Counts, NEW index \in Int, NEW rotation \in Int, NEW tours \in Int
  PROVE Landing(rotation, index, n, tours) \in 0..Circle - 1
<1> DEFINE t == Target(index, n)
           delta == (t - rotation) % Circle
           to == rotation + tours * Circle + delta
<1>1. Circle \in Nat \ {0} /\ Arc(n) \in Nat /\ Arc(n) \div 2 \in Int
  BY ArcFacts
<1>2. Pointer \in Int /\ index * Arc(n) \in Int
  BY <1>1, Euclid DEF Pointer
<1>3. t \in Int
  BY <1>1, <1>2 DEF Target
<1> HIDE DEF t
<1>4. delta \in Int
  BY <1>1, <1>3, Euclid
<1> HIDE DEF delta
<1>5. to \in Int
  BY <1>1, <1>4
<1> HIDE DEF to
<1>6. to % Circle \in 0..Circle - 1
  BY <1>1, <1>5, Euclid
<1> QED
  BY <1>6 DEF Landing, to, delta, t

\* The end of a spin, from any rotation and after any number of whole turns: the
\* segment that is painted under the pointer is the one that was drawn
\* (wheel.js:244-260 against :306-324).
THEOREM LandsUnderPointer ==
  ASSUME NEW n \in Counts, NEW index \in 0..n - 1, NEW rotation \in Int, NEW tours \in Int
  PROVE /\ Landing(rotation, index, n, tours) \in 0..Circle - 1
        /\ UnderPointer(Landing(rotation, index, n, tours), n) = index
<1> DEFINE a == Arc(n)
           h == Arc(n) \div 2
           t == Target(index, n)
           delta == (t - rotation) % Circle
           q == (t - rotation) \div Circle
           to == rotation + tours * Circle + delta
           L == to % Circle
           p == to \div Circle
           k == (q + p) - tours
<1>1. /\ n \in Nat \ {0} /\ Circle \in Nat \ {0} /\ a \in Nat \ {0}
      /\ n * a = Circle /\ h \in 1..a - 1 /\ index \in Nat /\ index <= n - 1
  BY ArcFacts
<1>2. Pointer \in Int /\ index * a \in Nat /\ t \in Int /\ t = Pointer - index * a - h
  <2>1. Pointer \in Int
    BY <1>1, Euclid DEF Pointer
  <2>2. index * a \in Nat
    BY <1>1
  <2>3. t = Pointer - index * a - h
    BY DEF Target
  <2> QED
    BY <1>1, <2>1, <2>2, <2>3
<1> HIDE DEF a, h, t
<1>3. t - rotation = q * Circle + delta /\ delta \in 0..Circle - 1 /\ q \in Int
  BY <1>1, <1>2, Euclid
<1> HIDE DEF delta, q
<1>4. tours * Circle \in Int /\ to \in Int
  BY <1>1, <1>3
<1>5. to = p * Circle + L /\ L \in 0..Circle - 1 /\ p \in Int
  <2> HIDE DEF to
  <2> QED
    BY <1>1, <1>4, Euclid
<1>6. Landing(rotation, index, n, tours) = L
  BY DEF Landing, t, delta
<1> HIDE DEF L, p
<1>7. L = t - k * Circle /\ k \in Int
  <2>1. k * Circle = q * Circle + p * Circle - tours * Circle /\ k \in Int
    BY <1>1, <1>3, <1>5
  <2> QED
    BY <1>1, <1>2, <1>3, <1>4, <1>5, <2>1
<1> HIDE DEF to, k
<1>8. Pointer - L = k * Circle + (index * a + h)
  BY <1>1, <1>2, <1>5, <1>7
<1>9. index * a + h \in 0..Circle - 1
  <2>1. index * a <= (n - 1) * a
    BY <1>1
  <2>2. (n - 1) * a = Circle - a
    BY <1>1
  <2> QED
    BY <1>1, <1>2, <2>1, <2>2
<1>10. (Pointer - L) % Circle = index * a + h
  <2> DEFINE m == index * a + h
  <2>1. m \in 0..Circle - 1 /\ Pointer - L = k * Circle + m
    BY <1>8, <1>9
  <2> HIDE DEF m
  <2>2. (k * Circle + m) % Circle = m
    BY <1>1, <1>7, <2>1, DivMod
  <2>3. (Pointer - L) % Circle = m
    BY <2>1, <2>2
  <2> QED
    BY <2>3 DEF m
<1>11. (index * a + h) \div a = index
  BY <1>1, DivMod
<1>12. UnderPointer(L, n) = index
  BY <1>10, <1>11 DEF UnderPointer, a
<1> QED
  BY <1>5, <1>6, <1>12
=============================================================================
