----------------------------- MODULE ValuesProofs -----------------------------
(***************************************************************************)
(* Theorems about the pure decisions: the identifiers of the rows, the       *)
(* sides of an image and what becomes of a text.                             *)
(***************************************************************************)
EXTENDS ImageOrder, TLAPS

I == INSTANCE Imaging
T == INSTANCE Text

-----------------------------------------------------------------------------
(* Images (imgproc/imgproc.go)                                             *)

\* The product of a side and the target, divided by a larger side, is smaller
\* than both and off by less than a pixel.
LEMMA Quotient ==
  ASSUME NEW a \in Nat \ {0}, NEW b \in Nat \ {0}, NEW t \in Nat \ {0}, a <= b, t < b
  PROVE  /\ (a * t) \div b \in Nat
         /\ (a * t) \div b <= t
         /\ (a * t) \div b <= a
         /\ ((a * t) \div b) * b <= a * t
         /\ a * t < ((a * t) \div b) * b + b
<1> DEFINE p == a * t
           q == p \div b
<1>1. p \in Nat /\ p <= b * t /\ p <= a * b
  OBVIOUS
<1>2. q \in Int /\ q * b <= p /\ p < q * b + b
  BY <1>1
<1>3. q >= 0
  BY <1>1, <1>2
<1>4. q <= t
  BY <1>1, <1>2
<1>5. q <= a
  BY <1>1, <1>2
<1> QED  BY <1>2, <1>3, <1>4, <1>5

\* Every accepted upload gives an image that the table takes, that fits in the
\* target, that was not enlarged and that keeps its proportions, whatever its
\* announced and decoded sides.
THEOREM ProcessedWellSized ==
  ASSUME NEW m \in Nat \ {0}, NEW t \in Nat \ {0}, NEW f \in I!Uploads, I!Accepted(f, m)
  PROVE  I!WellSized(f, t) /\ I!KeepsProportions(f, t)
<1> DEFINE w == f.frameWidth
           h == f.frameHeight
           r == I!Fit(w, h, t)
<1>1. w \in Nat \ {0} /\ h \in Nat \ {0}
  <2>1. w \in Int /\ h \in Int
    BY DEF I!Uploads
  <2>2. w > 0 /\ h > 0
    BY Zenon DEF I!Accepted
  <2> QED  BY <2>1, <2>2
<1> HIDE DEF w, h
<1>2. /\ r.width \in 1..t /\ r.width <= w
      /\ r.height \in 1..t /\ r.height <= h
      /\ \/ r.width = 1 \/ r.height = 1
         \/ -w < r.height * w - h * r.width /\ r.height * w - h * r.width < h
  <2>1. CASE w <= t /\ h <= t
    <3>1. r.width = w /\ r.height = h
      BY <2>1 DEF I!Fit
    <3>2. r.height * w - h * r.width = 0
      BY <3>1, <1>1
    <3> QED  BY <1>1, <2>1, <3>1, <3>2
  <2>2. CASE ~(w <= t /\ h <= t) /\ w >= h
    <3> DEFINE q == (h * t) \div w
    <3>a. t < w /\ h <= w
      BY <1>1, <2>2
    <3>1. q \in Nat /\ q <= t /\ q <= h /\ q * w <= h * t /\ h * t < q * w + w
      BY <1>1, <3>a, Quotient, Zenon
    <3>2. r.width = t /\ r.height = I!AtLeast1(q)
      BY <2>2 DEF I!Fit
    <3> HIDE DEF q, r
    <3>3. CASE q < 1
      BY <1>1, <2>2, <3>1, <3>2, <3>3 DEF I!AtLeast1
    <3>4. CASE q >= 1
      <4>1. r.height = q
        BY <3>1, <3>2, <3>4 DEF I!AtLeast1
      <4>2. -w < q * w - h * t /\ q * w - h * t < h
        BY <1>1, <3>1
      <4> QED  BY <1>1, <2>2, <3>1, <3>2, <3>4, <4>1, <4>2
    <3> QED  BY <3>1, <3>3, <3>4
  <2>3. CASE ~(w <= t /\ h <= t) /\ ~(w >= h)
    <3> DEFINE q == (w * t) \div h
    <3>a. t < h /\ w <= h
      BY <1>1, <2>3
    <3>1. q \in Nat /\ q <= t /\ q <= w /\ q * h <= w * t /\ w * t < q * h + h
      BY <1>1, <3>a, Quotient, Zenon
    <3>2. r.height = t /\ r.width = I!AtLeast1(q)
      BY <2>3 DEF I!Fit
    <3> HIDE DEF q, r
    <3>3. CASE q < 1
      BY <1>1, <2>3, <3>1, <3>2, <3>3 DEF I!AtLeast1
    <3>4. CASE q >= 1
      <4>1. r.width = q
        BY <3>1, <3>2, <3>4 DEF I!AtLeast1
      <4>2. -w < t * w - h * q /\ t * w - h * q < h
        BY <1>1, <3>1
      <4> QED  BY <1>1, <2>3, <3>1, <3>2, <3>4, <4>1, <4>2
    <3> QED  BY <3>1, <3>3, <3>4
  <2> QED  BY <2>1, <2>2, <2>3
<1>3. r = I!Process(f, t)
  BY DEF w, h, I!Process
<1> QED  BY <1>2, <1>3 DEF w, h, I!WellSized, I!KeepsProportions

-----------------------------------------------------------------------------
(* Identifiers (uid/uid.go)                                                *)

LEMMA Octet ==
  ASSUME NEW n \in Nat
  PROVE  /\ n \div 256 \in Nat
         /\ n % 256 \in 0..255
         /\ n = 256 * (n \div 256) + (n % 256)
OBVIOUS

\* Each place shifts by one octet more than the next.
LEMMA Shifts ==
  ASSUME NEW n \in Nat
  PROVE  /\ Shifted(n, 6) = n
         /\ \A i \in 1..5 : Shifted(n, i) = Shifted(n, i + 1) \div 256
         /\ \A i \in 1..6 : Shifted(n, i) \in Nat
<1>1. Shifted(n, 6) = n
  BY DEF Shifted
<1>2. \A i \in 1..5 : Shifted(n, i) = Shifted(n, i + 1) \div 256
  BY DEF Shifted
<1>3. Shifted(n, 5) \in Nat
  BY <1>1, <1>2, Octet
<1>4. Shifted(n, 4) \in Nat
  BY <1>2, <1>3, Octet
<1>5. Shifted(n, 3) \in Nat
  BY <1>2, <1>4, Octet
<1>6. Shifted(n, 2) \in Nat
  BY <1>2, <1>5, Octet
<1>7. Shifted(n, 1) \in Nat
  BY <1>2, <1>6, Octet
<1> QED  BY <1>1, <1>2, <1>3, <1>4, <1>5, <1>6, <1>7

LEMMA Octets ==
  ASSUME NEW n \in Nat, NEW d
  PROVE  \A i \in 1..6 : NewAt(n, d)[i] = Shifted(n, i) % 256
BY DEF NewAt

\* The quotients keep the order, and where they agree the octets decide.
LEMMA Ordered ==
  ASSUME NEW a \in Nat, NEW b \in Nat, a < b
  PROVE  \/ a \div 256 < b \div 256
         \/ a \div 256 = b \div 256 /\ a % 256 < b % 256
BY Octet

LEMMA Ends == ASSUME NEW n \in Nat, n < 256 PROVE n % 256 = n
OBVIOUS

\* An identifier gives its millisecond back, when it fits in six octets.
LEMMA RoundTrip ==
  ASSUME NEW n \in Nat, NEW d, Shifted(n, 1) < 256
  PROVE  Time(NewAt(n, d)) = n
<1> DEFINE u == NewAt(n, d)
           s(i) == Shifted(n, i)
<1>1. u[1] = s(1)
  BY Octets, Shifts, Ends
<1>2. \A i \in 1..5 : s(i + 1) = s(i) * 256 + u[i + 1] /\ s(i) \in Nat
  <2> SUFFICES ASSUME NEW i \in 1..5
               PROVE  s(i + 1) = s(i) * 256 + u[i + 1] /\ s(i) \in Nat
    OBVIOUS
  <2>1. s(i) = s(i + 1) \div 256 /\ s(i) \in Nat /\ s(i + 1) \in Nat
    BY Shifts
  <2>2. u[i + 1] = s(i + 1) % 256
    BY Octets
  <2> QED  BY <2>1, <2>2, Octet
<1>3. s(6) = n
  BY Shifts
<1> HIDE DEF u, s
<1>4. /\ s(2) = s(1) * 256 + u[2] /\ s(3) = s(2) * 256 + u[3] /\ s(4) = s(3) * 256 + u[4]
      /\ s(5) = s(4) * 256 + u[5] /\ s(6) = s(5) * 256 + u[6]
  BY <1>2
<1>5. Time(u) = s(6)
  BY <1>1, <1>4 DEF Time
<1> QED  BY <1>3, <1>5 DEF u

\* The first octet in which two times differ orders their identifiers.
LEMMA LaterIsAfter ==
  ASSUME NEW m \in Nat, NEW n \in Nat, NEW d, NEW e, m < n, Shifted(m, 1) < 256, Shifted(n, 1) < 256
  PROVE  Before(NewAt(m, d), NewAt(n, e))
<1> DEFINE u == NewAt(m, d)
           v == NewAt(n, e)
           a(i) == Shifted(m, i)
           b(i) == Shifted(n, i)
           Agree(i) == \A j \in 1..i : u[j] = v[j]
           Differ(i) == \E k \in 1..i : u[k] < v[k] /\ Agree(k - 1)
<1>1. \A i \in 1..6 : /\ a(i) \in Nat /\ b(i) \in Nat
                       /\ u[i] = a(i) % 256 /\ v[i] = b(i) % 256
  BY Octets, Shifts
<1>2. \A i \in 1..5 : a(i) = a(i + 1) \div 256 /\ b(i) = b(i + 1) \div 256
  BY Shifts
<1>3. a(6) < b(6)
  BY Shifts
<1>4. a(1) < 256 /\ b(1) < 256
  OBVIOUS
<1> HIDE DEF u, v, a, b
<1>5. ASSUME NEW i \in 1..5, a(i + 1) < b(i + 1)
      PROVE  a(i) < b(i) \/ (a(i) = b(i) /\ u[i + 1] < v[i + 1])
  BY <1>1, <1>2, <1>5, Ordered
<1>6. ASSUME NEW i \in 1..5, a(i + 1) = b(i + 1)
      PROVE  a(i) = b(i) /\ u[i + 1] = v[i + 1]
  BY <1>1, <1>2, <1>6
<1>7. a(1) = b(1) => Agree(1)
  BY <1>1
<1>8. ASSUME NEW i \in 1..5, a(i) = b(i) => Agree(i)
      PROVE  a(i + 1) = b(i + 1) => Agree(i + 1)
  BY <1>6, <1>8
<1>9. \A i \in 1..5 : a(i) = b(i) => Agree(i)
  <2>1. a(2) = b(2) => Agree(2)
    BY <1>7, <1>8
  <2>2. a(3) = b(3) => Agree(3)
    BY <2>1, <1>8
  <2>3. a(4) = b(4) => Agree(4)
    BY <2>2, <1>8
  <2>4. a(5) = b(5) => Agree(5)
    BY <2>3, <1>8
  <2> HIDE DEF Agree
  <2> QED  BY <1>7, <2>1, <2>2, <2>3, <2>4
<1>10. a(1) < b(1) => Differ(1)
  BY <1>1, <1>4, Ends
<1>11. ASSUME NEW i \in 1..5, a(i) < b(i) => Differ(i)
       PROVE  a(i + 1) < b(i + 1) => Differ(i + 1)
  <2> SUFFICES ASSUME a(i + 1) < b(i + 1) PROVE Differ(i + 1)
    OBVIOUS
  <2>1. CASE a(i) < b(i)
    BY <1>11, <2>1
  <2>2. CASE a(i) = b(i) /\ u[i + 1] < v[i + 1]
    <3>1. Agree((i + 1) - 1)
      BY <1>9, <2>2
    <3> QED  BY <2>2, <3>1
  <2> QED  BY <1>5, <2>1, <2>2
<1>12. Differ(6)
  <2>1. a(2) < b(2) => Differ(2)
    BY <1>10, <1>11
  <2>2. a(3) < b(3) => Differ(3)
    BY <2>1, <1>11
  <2>3. a(4) < b(4) => Differ(4)
    BY <2>2, <1>11
  <2>4. a(5) < b(5) => Differ(5)
    BY <2>3, <1>11
  <2>5. a(6) < b(6) => Differ(6)
    BY <2>4, <1>11
  <2> QED  BY <1>3, <2>5
<1>13. Before(u, v)
  BY <1>12 DEF Before
<1> QED  BY <1>13 DEF u, v

\* Until the year 10889, when the milliseconds outgrow six octets, the order of
\* the identifiers is the order of the milliseconds, for every clock and every
\* draw, and the version is 7.
THEOREM IdsFollowClock ==
  ASSUME \A ms \in Millis : Shifted(ms, 1) < 256
  PROVE  IdsFollowTime
<1> SUFFICES ASSUME NEW ms \in Millis, NEW draw \in Draws
             PROVE  /\ Time(NewAt(ms, draw)) = ms
                    /\ Version(NewAt(ms, draw)) = 7
                    /\ \A later \in Millis, other \in Draws :
                         ms < later => Before(NewAt(ms, draw), NewAt(later, other))
  BY DEF IdsFollowTime
<1>1. ms \in Nat /\ \A later \in Millis : later \in Nat
  BY MillisAssumption
<1>2. Time(NewAt(ms, draw)) = ms
  BY <1>1, RoundTrip
<1>3. Version(NewAt(ms, draw)) = 7
  <2>1. draw[7] % 16 \in 0..15
    BY DrawsAssumption
  <2>2. NewAt(ms, draw)[7] = 112 + (draw[7] % 16)
    BY DEF NewAt
  <2> QED  BY <2>1, <2>2 DEF Version
<1>4. \A later \in Millis, other \in Draws :
        ms < later => Before(NewAt(ms, draw), NewAt(later, other))
  BY <1>1, LaterIsAfter
<1> QED  BY <1>2, <1>3, <1>4

\* So the images of an account and the orphans of the purge are listed in the
\* order of their uploads (store/images.go:60 and 107).
THEOREM ListsFollowUploads ==
  ASSUME \A ms \in Millis : Shifted(ms, 1) < 256
  PROVE  Spec => []ListedAsCreated
<1>1. IdsFollowTime
  BY IdsFollowClock
<1>2. ListedAsCreated
  <2> SUFFICES ASSUME NEW i \in Images, NEW j \in Images, Created[i] < Created[j],
                      NEW first \in Drawn[i], NEW second \in Drawn[j]
               PROVE  Before(first, second)
    BY DEF ListedAsCreated
  <2>1. Created[i] \in Millis /\ Created[j] \in Millis
    BY CreatedAssumption
  <2>2. PICK draw \in Draws : first = NewAt(Created[i], draw)
    BY DEF Drawn
  <2>3. PICK other \in Draws : second = NewAt(Created[j], other)
    BY DEF Drawn
  <2> QED  BY <1>1, <2>1, <2>2, <2>3 DEF IdsFollowTime
<1> QED  BY <1>2, PTL

-----------------------------------------------------------------------------
(* Texts (api/validate.go)                                                 *)

\* The characters that strings.Map leaves as they are.
Stored == {"letter", "space", "unlisted", "invisible"}

LEMMA MappedIs ==
  ASSUME NEW s, T!IsText(s), \A i \in DOMAIN s : s[i] # "invalid"
  PROVE  LET m == T!Mapped(s)
         IN  /\ DOMAIN m \subseteq DOMAIN s
             /\ m \in [DOMAIN m -> Stored]
BY DEF T!IsText, T!Mapped, T!Characters, Stored

\* A text without anything to remove is left alone.
LEMMA MapsToItself ==
  ASSUME NEW D, NEW s \in [D -> Stored]
  PROVE  T!Mapped(s) = s
BY DEF T!Mapped, Stored

LEMMA TrimmedIs ==
  ASSUME NEW D \in SUBSET Nat, NEW s \in [D -> Stored]
  PROVE  LET t == T!TrimSpace(s)
         IN  t \in [DOMAIN t -> Stored] /\ T!TrimSpace(t) = t
<1> DEFINE seen == {i \in D : s[i] # "space"}
           E == {i \in D : \E first, last \in seen : first <= i /\ i <= last}
           t == [i \in E |-> s[i]]
<1>1. T!TrimSpace(s) = t
  BY DEF T!TrimSpace, T!Kept
<1>2. t \in [E -> Stored] /\ DOMAIN t = E
  OBVIOUS
<1> DEFINE seenLeft == {i \in E : t[i] # "space"}
           F == {i \in E : \E first, last \in seenLeft : first <= i /\ i <= last}
<1>3. T!TrimSpace(t) = [i \in F |-> t[i]]
  BY <1>2 DEF T!TrimSpace, T!Kept
<1>4. seen \subseteq E
  <2> SUFFICES ASSUME NEW i \in seen PROVE i \in E
    OBVIOUS
  <2>1. i \in D /\ i <= i
    OBVIOUS
  <2> QED  BY <2>1
<1>5. seenLeft = seen
  BY <1>4
<1>6. F = E
  <2> HIDE DEF seen, seenLeft
  <2>1. \A i \in E : \E first, last \in seen : first <= i /\ i <= last
    OBVIOUS
  <2> HIDE DEF E
  <2> QED  BY <1>5, <2>1
<1>7. T!TrimSpace(t) = t
  <2> HIDE DEF E, F, t
  <2>1. [i \in F |-> t[i]] = t
    BY <1>2, <1>6
  <2> QED  BY <1>3, <2>1
<1> QED  BY <1>1, <1>2, <1>7

\* A title or a label that was accepted and stored is accepted when it comes
\* back, and stays as it is, whatever its length (api/validate.go:37-72).
THEOREM StoredTextsComeBack ==
  ASSUME NEW s, T!IsText(s), NEW minRunes \in Nat, NEW maxRunes \in Nat
  PROVE  T!StoredTextAccepted(s, minRunes, maxRunes)
<1> SUFFICES ASSUME T!validText(s, minRunes, maxRunes)
             PROVE  /\ T!validText(T!cleanText(s), minRunes, maxRunes)
                    /\ T!cleanText(T!cleanText(s)) = T!cleanText(s)
  BY DEF T!StoredTextAccepted
<1> DEFINE m == T!Mapped(s)
           c == T!cleanText(s)
<1>1. DOMAIN m \in SUBSET Nat /\ m \in [DOMAIN m -> Stored]
  BY MappedIs DEF T!validText, T!IsText
<1>2. c = T!TrimSpace(m)
  BY DEF T!cleanText
<1> HIDE DEF m, c
<1>3. c \in [DOMAIN c -> Stored] /\ T!TrimSpace(c) = c
  BY <1>1, <1>2, TrimmedIs
<1>4. T!cleanText(c) = c
  BY <1>3, MapsToItself DEF T!cleanText
<1>5. T!validText(c, minRunes, maxRunes)
  BY <1>3, <1>4 DEF T!validText, c, Stored
<1> QED  BY <1>3, <1>4, <1>5 DEF c

\* Whatever surrounds it, a direction mark that validate.go:44-47 does not list
\* is stored in its place, and so is a character without width.
THEOREM UnlistedMarksStay ==
  ASSUME NEW s, T!IsText(s)
  PROVE  T!UnlistedStay(s)
<1> DEFINE U == {"unlisted", "invisible"}
           m == T!Mapped(s)
           seen == {i \in DOMAIN m : m[i] # "space"}
           E == {i \in DOMAIN m : \E first, last \in seen : first <= i /\ i <= last}
<1>1. /\ DOMAIN m = {j \in DOMAIN s : s[j] \notin {"control", "listed"}}
      /\ \A i \in DOMAIN m : m[i] = IF s[i] = "break" THEN "space" ELSE s[i]
  BY DEF T!Mapped
<1>2. T!cleanText(s) = [i \in E |-> m[i]]
  BY DEF T!cleanText, T!TrimSpace, T!Kept
<1>3. DOMAIN m \subseteq Nat
  BY <1>1 DEF T!IsText
<1> HIDE DEF m
<1>4. seen \subseteq E
  <2> SUFFICES ASSUME NEW i \in seen PROVE i \in E
    OBVIOUS
  <2>1. i \in DOMAIN m /\ i <= i
    BY <1>3
  <2> QED  BY <2>1
<1>5. \A i \in DOMAIN s : s[i] \in U => i \in seen /\ m[i] = s[i]
  BY <1>1
<1>6. \A i \in E : i \in DOMAIN s /\ (m[i] \in U => s[i] \in U)
  BY <1>1
<1> HIDE DEF seen, E, U
<1>7. {i \in E : m[i] \in U} = {i \in DOMAIN s : s[i] \in U}
  BY <1>4, <1>5, <1>6
<1> QED  BY <1>2, <1>7 DEF T!UnlistedStay, U
=============================================================================
