---------------------------- MODULE MCPublicWheel ----------------------------
(***************************************************************************)
(* Instances of PublicWheel for TLC: lists of two and three segments, with *)
(* the same content at several indices.                                    *)
(***************************************************************************)
EXTENDS PublicWheel

CONSTANTS a, b

MCLists == {<<a, b>>, <<b, b, a>>}

\* The cap opens again when one draw has become old; more of them repeat that.
MCOneHour == old <= 1
=============================================================================
