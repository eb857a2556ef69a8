------------------------------ MODULE MCService ------------------------------
(* Instances of Service for TLC. *)
EXTENDS Service, TLC

CONSTANTS A, B, s1, s2, p1, p2

MCSessionUser == s1 :> A @@ s2 :> B

\* A production installation, and three that Load refuses for one reason each.
MCProduction ==
  [app |-> "unset", base |-> "https", required |-> TRUE, salt |-> 16, secure |-> "unset",
   proxy |-> "unset", emails |-> TRUE, ancestors |-> {},
   numbers |-> TRUE, hours |-> 168, image |-> 2097152]

MCEnvironments ==
  {MCProduction, [MCProduction EXCEPT !.base = "http"],
   [MCProduction EXCEPT !.secure = "false"], [MCProduction EXCEPT !.ancestors = {"star"}]}

\* The two processes start together, stop and die in any order as long as no
\* page is open; while one is, the second process is stopped.
MCOneServer ==
  process[p2].pc # "stopped" => \A g \in Pages : page[g].pc = "closed" /\ request[g].pc = "none"

\* The sessions, and their accounts, are interchangeable: the first login opens s1.
MCFirstLogin == session[s1] = "unborn" => session[s2] = "unborn"

\* The second session outlasts the visit: the first one shows what an end does.
MCLastStays ==
  /\ session[s2] # "ended"
  /\ \A g \in Pages : request[g].route = "logout" => request[g].sent # s2

MCSpec ==
  /\ Init /\ process[p1].pc = "down"
  /\ [][Next /\ (MCOneServer /\ MCFirstLogin /\ MCLastStays)']_vars
  /\ Fairness
=============================================================================
