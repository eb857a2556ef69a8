------------------------------- MODULE Gallery -------------------------------
(***************************************************************************)
(* What the image library promises, without files, rows, locks or crashes: *)
(* every account has a set of images, a wheel shows a list of images of    *)
(* its owner's set and changes as a whole, and an image that is collected  *)
(* disappears from the set and from every wheel at once, for good.         *)
(* ImageStore implements it.                                               *)
(***************************************************************************)
CONSTANTS Images, NoImage, Users, Wheels, WheelOwner, Lists

VARIABLES
  library,  \* the images each account can use
  gone,     \* the images that were collected
  wheel,    \* absent, live or deleted
  shown     \* the images of each wheel, segment by segment

galleryVars == <<library, gone, wheel, shown>>

ShownIn(list) == {list[k] : k \in DOMAIN list} \ {NoImage}

Without(list, i) == [k \in DOMAIN list |-> IF list[k] = i THEN NoImage ELSE list[k]]

\* A new image, of one account.
Add(u, i) ==
  /\ i \notin gone /\ \A v \in Users : i \notin library[v]
  /\ library' = [library EXCEPT ![u] = @ \cup {i}]
  /\ UNCHANGED <<gone, wheel, shown>>

Create(w) ==
  /\ wheel[w] = "absent"
  /\ wheel' = [wheel EXCEPT ![w] = "live"]
  /\ UNCHANGED <<library, gone, shown>>

Delete(w) ==
  /\ wheel[w] = "live"
  /\ wheel' = [wheel EXCEPT ![w] = "deleted"]
  /\ UNCHANGED <<library, gone, shown>>

\* A save lands on a live wheel, as a whole, with images of its owner.
Save(w, list) ==
  /\ wheel[w] = "live"
  /\ ShownIn(list) \subseteq library[WheelOwner[w]]
  /\ shown' = [shown EXCEPT ![w] = list]
  /\ UNCHANGED <<library, gone, wheel>>

Collect(u, i) ==
  /\ i \in library[u]
  /\ library' = [library EXCEPT ![u] = @ \ {i}]
  /\ gone' = gone \cup {i}
  /\ shown' = [w \in Wheels |-> Without(shown[w], i)]
  /\ UNCHANGED wheel

GalleryInit ==
  /\ library = [u \in Users |-> {}]
  /\ gone = {}
  /\ wheel = [w \in Wheels |-> "absent"]
  /\ shown = [w \in Wheels |-> <<>>]

GalleryNext ==
  \/ \E u \in Users, i \in Images : Add(u, i) \/ Collect(u, i)
  \/ \E w \in Wheels : Create(w) \/ Delete(w) \/ \E list \in Lists : Save(w, list)

GallerySpec == GalleryInit /\ [][GalleryNext]_galleryVars
=============================================================================
