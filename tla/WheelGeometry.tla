---------------------------- MODULE WheelGeometry ----------------------------
(***************************************************************************)
(* The arithmetic of frontend/static/js/wheel.js: where a rotation of the  *)
(* wheel puts each segment, and the rotation at which a spin stops.        *)
(*                                                                         *)
(* A turn is Circle units and angles are integers, so that the arcs, their *)
(* halves and the quarter turn are exact; the code uses float64 radians.   *)
(***************************************************************************)
EXTENDS Integers

CONSTANTS
  Circle,  \* units of a full turn (2 * pi in the code)
  Counts   \* the numbers of segments of a wheel

ASSUME CircleAssumption ==
  /\ Circle \in Nat \ {0} /\ Circle % 4 = 0
  /\ \A n \in Counts : n \in Nat \ {0} /\ Circle % (2 * n) = 0

\* wheel.js:244 and :304.
Arc(n) == Circle \div n

\* The pointer is at the top, a quarter of a turn before the origin.
Pointer == 0 - (Circle \div 4)

\* wheel.js:306. The rotation that puts the middle of a segment there.
Target(index, n) == Pointer - index * Arc(n) - (Arc(n) \div 2)

LandingHalfTurnOff(rotation, index, n, tours) ==
  (rotation + tours * Circle + (Circle \div 2) + ((Target(index, n) - rotation) % Circle)) % Circle

\* wheel.js:306-324. From any rotation, whole turns and then what is left to
\* the target; the result is normalised.
Landing(rotation, index, n, tours) ==
  LET delta == (Target(index, n) - rotation) % Circle
  IN  (rotation + tours * Circle + delta) % Circle

\* wheel.js:244-260. Segment i is painted from i to i + 1 arcs, turned by the
\* rotation: the index of the one under the pointer.
UnderPointer(rotation, n) == ((Pointer - rotation) % Circle) \div Arc(n)
=============================================================================
