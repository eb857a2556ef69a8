--------------------------- MODULE MCAccessControl ---------------------------
(***************************************************************************)
(* Instances of AccessControl for TLC. Google account g1 has the address   *)
(* e1 and may change it for e2, or back, and g2 has e2.                    *)
(***************************************************************************)
EXTENDS AccessControl, TLC

CONSTANTS e1, e2, g1, g2

MCProfiles == {<<g1, e1>>, <<g1, e2>>, <<g2, e2>>}

\* What can be told apart by nothing but its name.
MCSymmetry ==
  Permutations(Browsers) \cup Permutations(States) \cup Permutations(Sessions)
    \cup Permutations(Logins) \cup Permutations(Requests)
=============================================================================
