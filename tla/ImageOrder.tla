------------------------------ MODULE ImageOrder ------------------------------
(***************************************************************************)
(* ImageStore numbers the images in the order of their identifiers, which   *)
(* Uid makes of the clock as the upload reads it (api/images.go:150). The    *)
(* steps of two uploads may interleave otherwise than their readings.        *)
(***************************************************************************)
EXTENDS ImageStore, Uid

CONSTANT Created  \* the millisecond at which the identifier of each image is drawn

ASSUME CreatedAssumption ==
  /\ Created \in [Images -> Millis]
  /\ \A i, j \in Images : i < j => Created[i] <= Created[j]

\* The identifiers an image may have been given.
Drawn == [i \in Images |-> {NewAt(Created[i], draw) : draw \in Draws}]

\* ORDER BY id is the order of the clock readings, for the page of the owner
\* (store/images.go:60) and for the janitor, which takes the oldest orphans
\* first (store/images.go:107): whatever rand.Read writes, a carry between octets
\* reverses no two rows of different milliseconds.
ListedAsCreated ==
  \A i, j \in Images :
    row[i] = "present" /\ row[j] = "present" /\ Created[i] < Created[j] =>
      \A first \in Drawn[i], second \in Drawn[j] : Before(first, second)
=============================================================================
