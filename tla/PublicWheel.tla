----------------------------- MODULE PublicWheel -----------------------------
(***************************************************************************)
(* A published wheel: its row, its committed list of segments and its      *)
(* draws in the database, the requests that visitors send to the server    *)
(* (api/embed.go), and the pages that are embedded elsewhere and stay open *)
(* for hours while the wheel is edited (frontend/static/js/embed.js).      *)
(*                                                                         *)
(* A step of a request is one autocommitted statement. A segment is told   *)
(* apart by what a page compares: its label and its image. A save comes    *)
(* all at once; so does the janitor's removal of an image from a list      *)
(* (module ImageStore), which is one more write of it.                     *)
(***************************************************************************)
EXTENDS Integers, Sequences, FiniteSets, WheelGeometry

CONSTANTS
  Contents,   \* what a segment shows: label and image
  NoContent,  \* no segment at all
  Lists,      \* the lists of segments an editor may save
  Pages,      \* the embedded pages
  NoPage,     \* no page of ours: another visitor, or a page closed since
  Visits,     \* the requests that can be in progress together
  MaxDraws,   \* bound: how many draws are recorded
  MaxSpins,   \* maxSpinsPerWheelPerHour (3000 in the code)
  MaxEdits    \* bound: how often the list is replaced

ASSUME ListsAssumption ==
  /\ NoContent \notin Contents
  /\ Lists \subseteq Seq(Contents)
  /\ \A l \in Lists : Len(l) >= 2 /\ Len(l) \in Counts

ASSUME PagesAssumption == NoPage \notin Pages

ASSUME VisitsAssumption == Visits # {} /\ IsFiniteSet(Visits)

ASSUME LimitsAssumption == MaxSpins \in Nat /\ MaxDraws \in Nat /\ MaxEdits \in Nat

VARIABLES
  shared,  \* the wheel is active and not deleted
  list,    \* segments, with the number of the save that wrote them
  spins,   \* spins: the recorded draws, in the order of created_at
  old,     \* how many of them are more than an hour old
  visit,   \* the requests in progress
  page     \* the embedded pages

vars == <<shared, list, spins, old, visit, page>>

-----------------------------------------------------------------------------
(* Tables and types                                                        *)

\* A wheel that was never saved has no segments.
NoList == [version |-> 0, segs |-> <<>>]

Versions == [version : 1..MaxEdits, segs : Lists]

\* The answer to a spin (embed.go:128-135), and the list it was drawn from.
Tirages == [id : Nat \ {0}, index : Nat, content : Contents, version : 1..MaxEdits]

NoTirage == [id |-> 0, index |-> 0, content |-> NoContent, version |-> 0]

IdleVisit == [pc |-> "idle", page |-> NoPage, kind |-> "load", list |-> NoList, tirage |-> NoTirage]

Visitors == Pages \cup {NoPage}

VisitStates ==
  {IdleVisit}
    \cup [pc : {"arrived", "found"}, page : Pages, kind : {"load"},
          list : {NoList}, tirage : {NoTirage}]
    \cup [pc : {"arrived", "found"}, page : Visitors, kind : {"spin"},
          list : {NoList}, tirage : {NoTirage}]
    \cup [pc : {"listed", "counted"}, page : Visitors, kind : {"spin"},
          list : Versions, tirage : {NoTirage}]
    \cup [pc : {"failed"}, page : Pages, kind : {"load", "spin"},
          list : {NoList}, tirage : {NoTirage}]
    \cup [pc : {"answered"}, page : Pages, kind : {"load"},
          list : Versions \cup {NoList}, tirage : {NoTirage}]
    \cup [pc : {"answered"}, page : Pages, kind : {"spin"},
          list : {NoList}, tirage : Tirages]

ClosedPage == [pc |-> "closed", list |-> NoList, rotation |-> 0, tirage |-> NoTirage, shown |-> NoTirage]

PageStates ==
  [pc : {"closed", "loading"}, list : Versions \cup {NoList},
   rotation : 0..Circle - 1, tirage : {NoTirage}, shown : {NoTirage}]
    \cup [pc : {"ready", "posting"}, list : Versions,
          rotation : 0..Circle - 1, tirage : {NoTirage}, shown : {NoTirage}]
    \cup [pc : {"ready"}, list : Versions,
          rotation : 0..Circle - 1, tirage : {NoTirage}, shown : Tirages]
    \cup [pc : {"reloading", "turning"}, list : Versions,
          rotation : 0..Circle - 1, tirage : Tirages, shown : {NoTirage}]

\* The draws of the last hour (store/wheels.go:307-314).
Recent == Len(spins) - old

\* Bound: every spin in progress has a draw left.
DrawLeft ==
  Len(spins) + Cardinality({v \in Visits : visit[v].kind = "spin" /\ visit[v].tirage = NoTirage}) < MaxDraws

Request(p, kind) == [IdleVisit EXCEPT !.pc = "arrived", !.page = p, !.kind = kind]

\* A request whose page is gone goes on. It is forgotten when nothing is left
\* of it but an answer that reaches nobody.
Kept(request) ==
  IF request.page = NoPage /\ (request.kind = "load" \/ request.pc \in {"answered", "failed"})
    THEN IdleVisit
    ELSE request

-----------------------------------------------------------------------------
(* The owner                                                               *)

\* store/wheels.go:179-230, seen from outside its transaction: the whole list
\* at once.
Save(segs) ==
  /\ list.version < MaxEdits
  /\ list' = [version |-> list.version + 1, segs |-> segs]
  /\ UNCHANGED <<shared, spins, old, visit, page>>

\* store/wheels.go:106-123.
Publish ==
  /\ ~shared
  /\ shared' = TRUE
  /\ UNCHANGED <<list, spins, old, visit, page>>

\* The same UPDATE, or the soft deletion (store/wheels.go:127-138), after which
\* the owner neither saves nor publishes: a visitor cannot tell one from the
\* other. The segments stay.
Unpublish ==
  /\ shared
  /\ shared' = FALSE
  /\ UNCHANGED <<list, spins, old, visit, page>>

-----------------------------------------------------------------------------
(* Requests: GET /api/embed/{id} and POST /api/embed/{id}/spin             *)

\* A visitor other than our pages spins the wheel.
Drop(v) ==
  /\ visit[v].pc = "idle"
  /\ DrawLeft
  /\ visit' = [visit EXCEPT ![v] = Request(NoPage, "spin")]
  /\ UNCHANGED <<shared, list, spins, old, page>>

\* store/wheels.go:238-248, the first statement of GetPublicWheel.
FindWheel(v) ==
  /\ visit[v].pc = "arrived"
  /\ visit' = [visit EXCEPT ![v] = Kept([@ EXCEPT !.pc = IF shared THEN "found" ELSE "failed"])]
  /\ UNCHANGED <<shared, list, spins, old, page>>

\* store/wheels.go:250, its second statement: the wheel may have changed since.
\* It ends a load (embed.go:47-61).
ReadList(v) ==
  /\ visit[v].pc = "found" /\ visit[v].kind = "load"
  /\ visit' = [visit EXCEPT ![v].pc = "answered", ![v].list = list]
  /\ UNCHANGED <<shared, list, spins, old, page>>

ReadListToSpinAnyway(v) ==
  /\ visit[v].pc = "found" /\ visit[v].kind = "spin"
  /\ visit' = [visit EXCEPT ![v].pc = "listed", ![v].list = list]
  /\ UNCHANGED <<shared, list, spins, old, page>>

\* A spin refuses a wheel that has too few segments (embed.go:85-89).
ReadListToSpin(v) ==
  /\ visit[v].pc = "found" /\ visit[v].kind = "spin"
  /\ visit' = [visit EXCEPT ![v] = IF Len(list.segs) < 2
                                     THEN Kept([@ EXCEPT !.pc = "failed"])
                                     ELSE [@ EXCEPT !.pc = "listed", !.list = list]]
  /\ UNCHANGED <<shared, list, spins, old, page>>

CountSpinsWithoutCap(v) ==
  /\ visit[v].pc = "listed"
  /\ visit' = [visit EXCEPT ![v].pc = "counted"]
  /\ UNCHANGED <<shared, list, spins, old, page>>

\* embed.go:91-101 and store/wheels.go:307-314.
CountSpins(v) ==
  /\ visit[v].pc = "listed"
  /\ visit' = [visit EXCEPT ![v] = IF Recent >= MaxSpins
                                     THEN Kept([@ EXCEPT !.pc = "failed", !.list = NoList])
                                     ELSE [@ EXCEPT !.pc = "counted"]]
  /\ UNCHANGED <<shared, list, spins, old, page>>

\* The draw of index i out of the list a request has read.
Drawn(v, i) ==
  [id |-> Len(spins) + 1, index |-> i, content |-> visit[v].list.segs[i + 1], version |-> visit[v].list.version]

Tell(v, tirage) ==
  [visit EXCEPT ![v] = Kept([@ EXCEPT !.pc = "answered", !.list = NoList, !.tirage = tirage])]

InsertSpinAfterAnswer(v) ==
  /\ visit[v].pc = "counted"
  /\ \E i \in 0..Len(visit[v].list.segs) - 1 : visit' = Tell(v, Drawn(v, i))
  /\ UNCHANGED <<shared, list, spins, old, page>>

InsertSpinTwice(v) ==
  /\ visit[v].pc = "counted"
  /\ \E i \in 0..Len(visit[v].list.segs) - 1 :
       /\ spins' = spins \o <<Drawn(v, i), [Drawn(v, i) EXCEPT !.id = @ + 1]>>
       /\ visit' = Tell(v, Drawn(v, i))
  /\ UNCHANGED <<shared, list, old, page>>

\* embed.go:103-128 and store/wheels.go:261-275. Any index may come out of
\* secureIndex; the draw is recorded, then told.
InsertSpin(v) ==
  /\ visit[v].pc = "counted"
  /\ \E i \in 0..Len(visit[v].list.segs) - 1 :
       /\ spins' = Append(spins, Drawn(v, i))
       /\ visit' = Tell(v, Drawn(v, i))
  /\ UNCHANGED <<shared, list, old, page>>

\* A statement fails, the rate limiter refuses the request, or the network
\* loses it or its answer, whatever it has done on the server.
Break(v) ==
  /\ visit[v].pc \notin {"idle", "failed"}
  /\ visit' = [visit EXCEPT ![v] = Kept([@ EXCEPT !.pc = "failed", !.list = NoList, !.tirage = NoTirage])]
  /\ UNCHANGED <<shared, list, spins, old, page>>

\* A recorded draw becomes older than an hour.
GrowOld ==
  /\ old < Len(spins)
  /\ old' = old + 1
  /\ UNCHANGED <<shared, list, spins, visit, page>>

-----------------------------------------------------------------------------
(* The embedded page                                                       *)

Answered(p, v) == visit[v].page = p /\ visit[v].pc = "answered"
Failed(p, v) == visit[v].page = p /\ visit[v].pc = "failed"

\* embed.js:136-141. The page is opened or opened again; requests of the
\* former page go on without it.
Open(p, v) ==
  /\ visit[v].pc = "idle"
  /\ page' = [page EXCEPT ![p] = [ClosedPage EXCEPT !.pc = "loading"]]
  /\ visit' = [w \in Visits |-> IF w = v THEN Request(p, "load")
                                ELSE IF visit[w].page = p THEN Kept([visit[w] EXCEPT !.page = NoPage])
                                ELSE visit[w]]
  /\ UNCHANGED <<shared, list, spins, old>>

\* embed.js:92-99 and :143-149. The button works from two segments on.
Loaded(p, v) ==
  /\ page[p].pc = "loading" /\ Answered(p, v)
  /\ page' = [page EXCEPT ![p] = [@ EXCEPT !.pc = IF Len(visit[v].list.segs) < 2 THEN "closed" ELSE "ready",
                                           !.list = visit[v].list]]
  /\ visit' = [visit EXCEPT ![v] = IdleVisit]
  /\ UNCHANGED <<shared, list, spins, old>>

\* embed.js:152-158. The page stays without a wheel.
NotLoaded(p, v) ==
  /\ page[p].pc = "loading" /\ Failed(p, v)
  /\ page' = [page EXCEPT ![p].pc = "closed"]
  /\ visit' = [visit EXCEPT ![v] = IdleVisit]
  /\ UNCHANGED <<shared, list, spins, old>>

\* embed.js:101-110. The button is disabled and the last result taken away.
Click(p, v) ==
  /\ page[p].pc = "ready"
  /\ visit[v].pc = "idle"
  /\ DrawLeft
  /\ page' = [page EXCEPT ![p] = [@ EXCEPT !.pc = "posting", !.shown = NoTirage]]
  /\ visit' = [visit EXCEPT ![v] = Request(p, "spin")]
  /\ UNCHANGED <<shared, list, spins, old>>

SameIndexOnly(segs, tirage) == tirage.index < Len(segs)

\* embed.js:117-121.
SameContent(segs, tirage) ==
  tirage.index < Len(segs) /\ segs[tirage.index + 1] = tirage.content

\* embed.js:110-126. The draw is there. The wheel turns at once, or after a
\* reload when the page's list has something else at that index.
Receive(p, v) ==
  /\ page[p].pc = "posting" /\ Answered(p, v)
  /\ IF SameContent(page[p].list.segs, visit[v].tirage)
       THEN /\ page' = [page EXCEPT ![p] = [@ EXCEPT !.pc = "turning", !.tirage = visit[v].tirage]]
            /\ visit' = [visit EXCEPT ![v] = IdleVisit]
       ELSE /\ page' = [page EXCEPT ![p] = [@ EXCEPT !.pc = "reloading", !.tirage = visit[v].tirage]]
            /\ visit' = [visit EXCEPT ![v] = Request(p, "load")]
  /\ UNCHANGED <<shared, list, spins, old>>

\* embed.js:92-99 and :122-126. The new list is displayed, then the wheel turns.
Reloaded(p, v) ==
  /\ page[p].pc = "reloading" /\ Answered(p, v)
  /\ page' = [page EXCEPT ![p] = [@ EXCEPT !.pc = "turning", !.list = visit[v].list]]
  /\ visit' = [visit EXCEPT ![v] = IdleVisit]
  /\ UNCHANGED <<shared, list, spins, old>>

GiveUpForgettingButton(p, v) ==
  /\ page[p].pc \in {"posting", "reloading"} /\ Failed(p, v)
  /\ page' = [page EXCEPT ![p].tirage = NoTirage, ![p].pc = "posting"]
  /\ visit' = [visit EXCEPT ![v] = IdleVisit]
  /\ UNCHANGED <<shared, list, spins, old>>

\* embed.js:129-133. The spin or the reload failed: a message, and the button
\* is enabled again.
GiveUp(p, v) ==
  /\ page[p].pc \in {"posting", "reloading"} /\ Failed(p, v)
  /\ page' = [page EXCEPT ![p] = [@ EXCEPT !.pc = "ready", !.tirage = NoTirage]]
  /\ visit' = [visit EXCEPT ![v] = IdleVisit]
  /\ UNCHANGED <<shared, list, spins, old>>

\* Two turns when the system asks for less motion, six otherwise (wheel.js:296).
Turns == {2, 6}

\* embed.js:126-133 and wheel.js:290-350. The wheel stops and the result is
\* announced, as the server told it.
Land(p) ==
  /\ page[p].pc = "turning"
  /\ \E tours \in Turns :
       page' = [page EXCEPT ![p] =
                  [@ EXCEPT !.pc = "ready",
                            !.tirage = NoTirage,
                            !.shown = page[p].tirage,
                            !.rotation = Landing(page[p].rotation, page[p].tirage.index, Len(page[p].list.segs), tours)]]
  /\ UNCHANGED <<shared, list, spins, old, visit>>

\* embed.js:31-38 and :151.
Dismiss(p) ==
  /\ page[p].shown # NoTirage
  /\ page' = [page EXCEPT ![p].shown = NoTirage]
  /\ UNCHANGED <<shared, list, spins, old, visit>>

-----------------------------------------------------------------------------
(* The specification                                                       *)

\* A new wheel is published and has no segments (store/wheels.go:43-55).
Init ==
  /\ shared = TRUE
  /\ list = NoList
  /\ spins = <<>> /\ old = 0
  /\ visit = [v \in Visits |-> IdleVisit]
  /\ page = [p \in Pages |-> ClosedPage]

OwnerStep == (\E l \in Lists : Save(l)) \/ Publish \/ Unpublish

VisitStep(v) ==
  FindWheel(v) \/ ReadList(v) \/ ReadListToSpin(v) \/ CountSpins(v) \/ InsertSpin(v)

PageStep(p) ==
  \/ \E v \in Visits : Loaded(p, v) \/ NotLoaded(p, v) \/ Receive(p, v) \/ Reloaded(p, v) \/ GiveUp(p, v)
  \/ Land(p)

Next ==
  \/ OwnerStep
  \/ \E v \in Visits : VisitStep(v) \/ Drop(v) \/ Break(v)
  \/ GrowOld
  \/ \E p \in Pages : \/ PageStep(p)
                      \/ Dismiss(p)
                      \/ \E v \in Visits : Open(p, v) \/ Click(p, v)

Spec == Init /\ [][Next]_vars

\* The server answers what it has received or the connection breaks, and the
\* browser runs the page's callbacks and its animation. Nobody has to click.
Fairness ==
  /\ \A v \in Visits : WF_vars(VisitStep(v))
  /\ \A p \in Pages : WF_vars(PageStep(p))

FairSpec == Spec /\ Fairness

-----------------------------------------------------------------------------
(* Properties                                                              *)

\* Every variable has the type its table, request or page gives it; a request
\* never draws from a list of fewer than two segments.
TypeOK ==
  /\ shared \in BOOLEAN
  /\ list \in Versions \cup {NoList}
  /\ spins \in Seq(Tirages)
  /\ old \in 0..Len(spins)
  /\ visit \in [Visits -> VisitStates]
  /\ page \in [Pages -> PageStates]

\* The wheel of the page has stopped on what the page announces.
PointerTells(p) ==
  LET segs  == page[p].list.segs
      under == UnderPointer(page[p].rotation, Len(segs))
  IN  under = page[p].shown.index /\ segs[under + 1] = page[p].shown.content

\* However old the list of a page is, and whatever it was turned to before: the
\* pointer contradicts the announcement only when the wheel was saved again
\* between the draw and the reload that was to bring the page up to date
\* (embed.js:112-124).
PointerOffOnlyWhenEdited ==
  \A p \in Pages : page[p].shown # NoTirage =>
    PointerTells(p) \/ page[p].list.version > page[p].shown.version

\* A result is announced only if it is in the history of the wheel, with the
\* same index and the same label, whatever was lost, edited or refused.
AnnouncedIsRecorded ==
  \A p \in Pages : page[p].shown # NoTirage =>
    page[p].shown.id <= Len(spins) /\ spins[page[p].shown.id] = page[p].shown

\* The draws of the last hour: the cap is checked before the draw and never
\* again, so that simultaneous spins overshoot it, by the others in progress
\* only (embed.go:91-101).
SpinCapOvershoot == Recent <= MaxSpins + Cardinality(Visits) - 1

\* What a request will draw from, once it has read it.
Seen(request) == IF request.pc \in {"listed", "counted"} THEN request.list ELSE NoList

\* What a page is about to announce: it is on its way to the page, or there.
Owed(p) ==
  ({visit[v].tirage : v \in {w \in Visits : visit[w].page = p}} \cup {page[p].tirage}) \ {NoTirage}

Promise == INSTANCE Draws WITH
  seen <- [v \in Visits |-> Seen(visit[v])],
  owed <- [p \in Pages |-> Owed(p)],
  shown <- [p \in Pages |-> page[p].shown]

\* To its visitors the wheel is Draws: of a list that was the wheel's at one
\* moment one segment is drawn, once; it is recorded when the page is told, is
\* announced once at most, unaltered, and by nobody else, through statements
\* that fail, reloads and pages that are opened again (embed.go:69-136,
\* embed.js:101-134).
ImplementsDraws == Promise!DrawsSpec

\* The button always comes back: no failure of the spin or of the reload
\* leaves the page stuck (embed.js:129-133).
ButtonComesBack ==
  \A p \in Pages :
    (page[p].pc \in {"posting", "reloading", "turning"}) ~> (page[p].pc \in {"ready", "loading"})

\* What embed.js:127 says of the announcement: the server is authoritative,
\* even if the resynchronisation failed. A draw that reached the page is
\* announced unless the page is opened again.
ReceivedIsAnnounced ==
  [][\A p \in Pages :
       (page[p].tirage # NoTirage /\ page'[p].pc = "ready") => page'[p].shown = page[p].tirage]_vars
=============================================================================
