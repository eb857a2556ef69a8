---------------------------- MODULE MCImageStore ----------------------------
(***************************************************************************)
(* Instances of ImageStore for TLC. Every wheel belongs to u1; u2 uploads  *)
(* images that u1 may try to use. The images are uploaded on both sides of *)
(* a carry of the clock.                                                   *)
(***************************************************************************)
EXTENDS ImageOrder, TLC

CONSTANTS u1, u2

MCWheelOwner == [w \in Wheels |-> u1]

MCMillis == 253..258

MCCreated == [i \in Images |-> 254 + i]

\* Two uploads, and two saves, differ by nothing but their names.
MCSymmetry == Permutations(Uploaders) \cup Permutations(Savers)

MCDraws == {[i \in 7..16 |-> octet] : octet \in {0, 255}}
=============================================================================
