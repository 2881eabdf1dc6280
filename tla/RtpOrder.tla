------------------------------ MODULE RtpOrder ------------------------------
(***************************************************************************)
(* The order of RTP timestamps in the jitter buffer: 32-bit unsigned       *)
(* values compared by the sign of their wrapped difference.  The width is  *)
(* a parameter, so that TLC meets the wraparound.                          *)
(***************************************************************************)
EXTENDS Integers

CONSTANT Modulus   \* 2^32 in the code

ASSUME ModulusAssumption == Modulus \in Nat /\ Modulus > 1 /\ Modulus % 2 = 0

Timestamp == 0..(Modulus - 1)

Half == Modulus \div 2

\* (int32_t)(a - b)
TsCmp(a, b) ==
    LET d == (a - b) % Modulus
    IN  IF d < Half THEN d ELSE d - Modulus

\* a comes before b in the stream.
Before(a, b) == TsCmp(a, b) < 0

\* All of S fits in less than half of the timestamp circle, counted from
\* one of its members: there, and only there, Before is a strict order.
OneArc(S) ==
    \/ S = {}
    \/ \E b \in S : \A t \in S : (t - b) % Modulus < Half
=============================================================================
