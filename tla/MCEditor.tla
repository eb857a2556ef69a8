------------------------------ MODULE MCEditor -------------------------------
(***************************************************************************)
(* Instances of Editor for TLC. Tabs are interchangeable, and so are       *)
(* requests.                                                               *)
(***************************************************************************)
EXTENDS Editor, TLC

MCSymmetry == Permutations(Pages) \cup Permutations(Requests)
=============================================================================
