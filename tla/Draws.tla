-------------------------------- MODULE Draws --------------------------------
(***************************************************************************)
(* What a wheel promises its visitors, without statements, pages that turn *)
(* or lost messages: a draw takes one segment of a list the wheel had, it  *)
(* is recorded before anybody hears of it, and the page that asked for it  *)
(* announces it at most once, as it was recorded, and no other page does.  *)
(* PublicWheel implements it.                                              *)
(***************************************************************************)
EXTENDS Integers, Sequences

CONSTANTS Visits, Pages, Lists, NoList, NoTirage

VARIABLES
  list,   \* the wheel's list, with the number of its save
  spins,  \* the draws, in their order
  seen,   \* the list each request will draw from
  owed,   \* what each page is about to announce
  shown   \* what each page announces

drawsVars == <<list, spins, seen, owed, shown>>

Save(segs) ==
  /\ list' = [version |-> list.version + 1, segs |-> segs]
  /\ UNCHANGED <<spins, seen, owed, shown>>

\* A request takes the whole list as it is at one moment.
See(v) ==
  /\ seen[v] = NoList
  /\ seen' = [seen EXCEPT ![v] = list]
  /\ UNCHANGED <<list, spins, owed, shown>>

Forget(v) ==
  /\ seen' = [seen EXCEPT ![v] = NoList]
  /\ UNCHANGED <<list, spins, owed, shown>>

\* It draws once, for one page that announces nothing and waits for nothing
\* else, or for nobody.
Draw(v, i) ==
  LET tirage == [id |-> Len(spins) + 1, index |-> i,
                 content |-> seen[v].segs[i + 1], version |-> seen[v].version]
  IN  /\ seen[v] # NoList
      /\ spins' = Append(spins, tirage)
      /\ \/ UNCHANGED owed
         \/ \E p \in Pages : /\ owed[p] = {} /\ shown[p] = NoTirage
                             /\ owed' = [owed EXCEPT ![p] = {tirage}]
      /\ seen' = [seen EXCEPT ![v] = NoList]
      /\ UNCHANGED <<list, shown>>

Announce(p) ==
  /\ \E tirage \in owed[p] : shown' = [shown EXCEPT ![p] = tirage]
  /\ owed' = [owed EXCEPT ![p] = {}]
  /\ UNCHANGED <<list, spins, seen>>

\* A draw is never heard of, or its announcement goes away.
Drop(p) ==
  /\ owed' = [owed EXCEPT ![p] = {}]
  /\ shown' = [shown EXCEPT ![p] = NoTirage]
  /\ UNCHANGED <<list, spins, seen>>

DrawsInit ==
  /\ list = NoList /\ spins = <<>>
  /\ seen = [v \in Visits |-> NoList]
  /\ owed = [p \in Pages |-> {}]
  /\ shown = [p \in Pages |-> NoTirage]

DrawsNext ==
  \/ \E segs \in Lists : Save(segs)
  \/ \E v \in Visits : See(v) \/ Forget(v) \/ \E i \in 0..Len(seen[v].segs) - 1 : Draw(v, i)
  \/ \E p \in Pages : Announce(p) \/ Drop(p)

DrawsSpec == DrawsInit /\ [][DrawsNext]_drawsVars
=============================================================================
