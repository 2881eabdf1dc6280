--------------------------- MODULE RtpOrderProofs ---------------------------
(***************************************************************************)
(* Within one arc of the timestamp circle the wrapped comparison of        *)
(* audio_buffer.c is a linear order: the order of the distances from the   *)
(* start of the arc.                                                       *)
(***************************************************************************)
EXTENDS RtpOrder, TLAPS

\* How far t is after b on the circle.
Dist(b, t) == (t - b) % Modulus

\* A difference of two timestamps wraps at most once.
LEMMA WrapOnce ==
    \A x \in Int : -Modulus < x /\ x < Modulus
        => x % Modulus = IF x >= 0 THEN x ELSE x + Modulus
BY ModulusAssumption

\* A distance, without the remainder.
LEMMA DistIs ==
    ASSUME NEW b \in Timestamp, NEW t \in Timestamp
    PROVE  Dist(b, t) = IF t >= b THEN t - b ELSE t - b + Modulus
<1> DEFINE d == t - b
<1>1. d \in Int /\ -Modulus < d /\ d < Modulus /\ (t >= b <=> d >= 0)
  BY ModulusAssumption DEF Timestamp
<1> HIDE DEF d
<1>2. d % Modulus = IF d >= 0 THEN d ELSE d + Modulus
  BY <1>1, WrapOnce
<1> QED
  BY <1>1, <1>2 DEF d, Dist

\* Within half a circle from b, earlier means nearer to b.
THEOREM ArcOrder ==
    ASSUME NEW b \in Timestamp, NEW x \in Timestamp, NEW y \in Timestamp,
           Dist(b, x) < Half, Dist(b, y) < Half
    PROVE  Before(x, y) <=> Dist(b, x) < Dist(b, y)
<1>1. /\ Modulus \in Nat /\ Modulus = 2 * Half /\ Half \in Nat
      /\ b \in 0..(Modulus - 1) /\ x \in 0..(Modulus - 1) /\ y \in 0..(Modulus - 1)
  BY ModulusAssumption DEF Timestamp, Half
<1>2. TsCmp(x, y) = IF Dist(y, x) < Half THEN Dist(y, x) ELSE Dist(y, x) - Modulus
  BY DEF TsCmp, Dist
<1>3. Dist(y, x) = IF x >= y THEN x - y ELSE x - y + Modulus
  BY DistIs
<1>4. Dist(b, x) = IF x >= b THEN x - b ELSE x - b + Modulus
  BY DistIs
<1>5. Dist(b, y) = IF y >= b THEN y - b ELSE y - b + Modulus
  BY DistIs
<1> HIDE DEF Dist
<1> QED
  BY <1>1, <1>2, <1>3, <1>4, <1>5 DEF Before

-----------------------------------------------------------------------------
(* Sums of timestamps, taken modulo the circle one by one or at once.      *)

\* A multiple smaller than the modulus is none.
LEMMA QuotientUnique ==
    ASSUME NEW m \in Nat, m > 0, NEW e \in Int, -m < m * e, m * e < m
    PROVE  e = 0
<1>1. CASE e >= 1
  <2>1. m * e >= m
    BY <1>1
  <2> QED
    BY <2>1
<1>2. CASE e <= -1
  <2>1. m * e <= -m
    BY <1>2
  <2> QED
    BY <2>1
<1> QED
  BY <1>1, <1>2

\* A number as so many turns of the circle and a timestamp.
Wrap(x) == x % Modulus
Turns(x) == x \div Modulus

\* The division of the code's unsigned arithmetic, whatever the sign of x.
LEMMA Division ==
    ASSUME NEW x \in Int
    PROVE  Turns(x) \in Int /\ Wrap(x) \in 0..(Modulus - 1) /\ x = Modulus * Turns(x) + Wrap(x)
<1> DEFINE q == x \div Modulus
           r == x % Modulus
<1>1. \A y \in Int, m \in Nat : m > 0 => y % m = y - m * (y \div m)
  BY SMTT(20)
<1>2. r = x - Modulus * q
  BY <1>1, ModulusAssumption
<1>3. q \in Int /\ r \in 0..(Modulus - 1)
  BY ModulusAssumption
<1>6. q = Turns(x) /\ r = Wrap(x)
  BY Zenon DEF Turns, Wrap
<1> HIDE DEF q, r
<1>4. Modulus * q \in Int
  BY <1>3, ModulusAssumption
<1>5. x = Modulus * q + r
  BY <1>2, <1>4, <1>3
<1> QED
  BY <1>3, <1>5, <1>6, Zenon

\* Only the remainder of a summand counts.
LEMMA WrapSum ==
    ASSUME NEW a \in Int, NEW b \in Int
    PROVE  Wrap(Wrap(a) + b) = Wrap(a + b)
<1> DEFINE c == Wrap(a) + b
           s == a + b
<1>1. Wrap(a) \in Int /\ Turns(a) \in Int /\ a = Modulus * Turns(a) + Wrap(a)
      /\ Modulus \in Nat /\ Modulus > 0
  BY Division, ModulusAssumption
<1>2. c \in Int /\ s \in Int /\ c + Modulus * Turns(a) = s
  BY <1>1
<1> HIDE DEF c, s
<1>3. /\ Turns(c) \in Int /\ Wrap(c) \in 0..(Modulus - 1) /\ c = Modulus * Turns(c) + Wrap(c)
      /\ Turns(s) \in Int /\ Wrap(s) \in 0..(Modulus - 1) /\ s = Modulus * Turns(s) + Wrap(s)
  BY <1>2, Division
<1> DEFINE e == Turns(s) - Turns(a) - Turns(c)
<1>4. Modulus * e = Wrap(c) - Wrap(s)
  <2>1. Modulus * e = Modulus * Turns(s) - Modulus * Turns(a) - Modulus * Turns(c)
    BY <1>1, <1>3
  <2> QED
    BY <1>1, <1>2, <1>3, <2>1
<1>5. e \in Int /\ -Modulus < Modulus * e /\ Modulus * e < Modulus
  BY <1>1, <1>3, <1>4
<1> HIDE DEF e
<1>6. e = 0
  BY <1>1, <1>5, QuotientUnique
<1>7. Wrap(c) = Wrap(s)
  <2>1. Modulus * e = 0
    BY <1>1, <1>6
  <2> QED
    BY <1>3, <1>4, <2>1
<1> QED
  BY <1>7 DEF c, s

\* The chunks after the first, counted from the second.
LEMMA NextChunk ==
    ASSUME NEW t \in Int, NEW n \in Int, NEW k \in Int
    PROVE  (((t + n) % Modulus) + k * n) % Modulus = (t + (k + 1) * n) % Modulus
<1>1. t + n \in Int /\ k * n \in Int /\ (t + n) + k * n = t + (k + 1) * n
  OBVIOUS
<1>2. Wrap(Wrap(t + n) + k * n) = Wrap((t + n) + k * n)
  BY <1>1, WrapSum
<1> QED
  BY <1>1, <1>2, Zenon DEF Wrap
=============================================================================
