------------------------------ MODULE MCLimiter ------------------------------
(***************************************************************************)
(* An instance of Limiter for TLC: three keys that share a table of two    *)
(* buckets, and two requests that can hold the same time across a tick.    *)
(***************************************************************************)
EXTENDS Limiter, TLC

MCSymmetry == Permutations(Keys) \cup Permutations(Callers)
=============================================================================
