-------------------------- MODULE PublicWheelProofs ---------------------------
(***************************************************************************)
(* Theorems about PublicWheel, for any number of pages, requests, lists    *)
(* and draws.                                                              *)
(***************************************************************************)
EXTENDS PublicWheel, WheelGeometryProofs, FiniteSetTheorems

-----------------------------------------------------------------------------
(* The inductive invariant                                                 *)

\* What has reached a page, or is on its way to it, is in the table already.
Recorded(tirage) == tirage.id <= Len(spins) /\ spins[tirage.id] = tirage

RecordedInv ==
  /\ \A v \in Visits : visit[v].tirage # NoTirage => Recorded(visit[v].tirage)
  /\ \A p \in Pages : page[p].tirage # NoTirage => Recorded(page[p].tirage)
  /\ AnnouncedIsRecorded

\* A page waits for one request at a time, and for the right kind.
RequestsInv ==
  /\ \A v, w \in Visits : v # w /\ visit[v].page # NoPage => visit[v].page # visit[w].page
  /\ \A v \in Visits : visit[v].page # NoPage =>
       page[visit[v].page].pc \in (IF visit[v].kind = "spin" THEN {"posting"} ELSE {"loading", "reloading"})

\* A list is of a later save than a draw, or the one it was drawn from.
Agrees(l, tirage) ==
  l.version > tirage.version \/ (l.version = tirage.version /\ SameContent(l.segs, tirage))

\* A number tells a list: whatever bears the current one is the current list,
\* or was drawn from it.
VersionsInv ==
  /\ \A v \in Visits : visit[v].pc \in {"listed", "counted"} =>
       visit[v].list = list \/ visit[v].list.version < list.version
  /\ \A v \in Visits : visit[v].tirage # NoTirage => Agrees(list, visit[v].tirage)
  /\ \A p \in Pages : page[p].pc = "reloading" => Agrees(list, page[p].tirage)

\* The list that a page turns agrees with what it has received.
PointerInv ==
  /\ \A v \in Visits, p \in Pages :
       page[p].pc = "reloading" /\ Answered(p, v) => Agrees(visit[v].list, page[p].tirage)
  /\ \A p \in Pages : page[p].pc = "turning" =>
       SameContent(page[p].list.segs, page[p].tirage) \/ page[p].list.version > page[p].tirage.version
  /\ PointerOffOnlyWhenEdited

\* A request that has seen the cap respected may still draw.
Counted == {v \in Visits : visit[v].pc = "counted"}

CapInv == Recent + Cardinality(Counted) <= MaxSpins + Cardinality(Visits) - 1

\* All of it.
IndInv == TypeOK /\ RecordedInv /\ RequestsInv /\ VersionsInv /\ PointerInv /\ CapInv

-----------------------------------------------------------------------------
(* Types                                                                   *)

\* A saved list has a number and two segments at least.
LEMMA VersionFacts ==
  ASSUME NEW l \in Versions
  PROVE /\ l.version \in Nat \ {0} /\ l.segs \in Seq(Contents) /\ l.segs \in Lists
        /\ Len(l.segs) >= 2 /\ Len(l.segs) \in Counts
        /\ l # NoList
  BY ListsAssumption, LimitsAssumption DEF Versions, NoList

\* The absence of a list or a draw is none, and what does nothing has its type.
LEMMA NullFacts ==
  /\ Len(NoList.segs) = 0 /\ NoList.version = 0
  /\ NoTirage \notin Tirages
  /\ IdleVisit \in VisitStates
  /\ ClosedPage \in PageStates
  BY CircleAssumption DEF NoList, NoTirage, Tirages, IdleVisit, VisitStates, ClosedPage, PageStates

\* What the progress of a request says of its fields.
LEMMA VisitFields ==
  ASSUME NEW r \in VisitStates
  PROVE /\ r = [pc |-> r.pc, page |-> r.page, kind |-> r.kind, list |-> r.list, tirage |-> r.tirage]
        /\ r.pc \in {"idle", "arrived", "found", "listed", "counted", "answered", "failed"}
        /\ r.page \in Visitors /\ r.kind \in {"load", "spin"}
        /\ r.list \in Versions \cup {NoList} /\ r.tirage \in Tirages \cup {NoTirage}
        /\ r.pc = "idle" => r = IdleVisit
        /\ r.pc \in {"arrived", "found"} => r.list = NoList /\ r.tirage = NoTirage
        /\ r.pc \in {"listed", "counted"} =>
             r.kind = "spin" /\ r.list \in Versions /\ r.tirage = NoTirage
        /\ r.kind = "load" /\ r.pc # "idle" => r.page \in Pages
        /\ r.pc = "failed" => r.page \in Pages /\ r.list = NoList /\ r.tirage = NoTirage
        /\ r.pc = "answered" =>
             /\ r.page \in Pages
             /\ r.kind = "load" => r.tirage = NoTirage
             /\ r.kind = "spin" => r.list = NoList /\ r.tirage \in Tirages
  BY NullFacts DEF VisitStates, IdleVisit, Visitors

\* The requests that the steps make.
LEMMA VisitMade ==
  ASSUME NEW p \in Pages \cup {NoPage}, NEW k \in {"load", "spin"}, NEW l \in Versions \cup {NoList},
         p # NoPage \/ k = "spin"
  PROVE /\ [pc |-> "arrived", page |-> p, kind |-> k, list |-> NoList, tirage |-> NoTirage] \in VisitStates
        /\ [pc |-> "found", page |-> p, kind |-> k, list |-> NoList, tirage |-> NoTirage] \in VisitStates
        /\ p # NoPage =>
             /\ [pc |-> "failed", page |-> p, kind |-> k, list |-> NoList, tirage |-> NoTirage] \in VisitStates
             /\ [pc |-> "answered", page |-> p, kind |-> "load", list |-> l, tirage |-> NoTirage] \in VisitStates
             /\ \A t \in Tirages :
                  [pc |-> "answered", page |-> p, kind |-> "spin", list |-> NoList, tirage |-> t] \in VisitStates
        /\ l # NoList =>
             /\ [pc |-> "listed", page |-> p, kind |-> "spin", list |-> l, tirage |-> NoTirage] \in VisitStates
             /\ [pc |-> "counted", page |-> p, kind |-> "spin", list |-> l, tirage |-> NoTirage] \in VisitStates
  BY DEF VisitStates, Visitors

\* The updates of a request, field by field.
LEMMA MovedVisit ==
  ASSUME NEW r \in VisitStates, NEW c
  PROVE [r EXCEPT !.pc = c] =
          [pc |-> c, page |-> r.page, kind |-> r.kind, list |-> r.list, tirage |-> r.tirage]
<1> DEFINE f == r.pc  a == r.page  b == r.kind  d == r.list  e == r.tirage
           y == [r EXCEPT !.pc = c]
<1>1. r = [pc |-> f, page |-> a, kind |-> b, list |-> d, tirage |-> e]
  BY VisitFields
<1> HIDE DEF f, a, b, d, e
<1>2. y \in [pc : {c}, page : {a}, kind : {b}, list : {d}, tirage : {e}]
  BY <1>1
<1> HIDE DEF y
<1>3. y = [pc |-> c, page |-> a, kind |-> b, list |-> d, tirage |-> e]
  BY <1>2
<1> QED
  BY <1>3, Zenon DEF f, a, b, d, e, y

LEMMA ListedVisit ==
  ASSUME NEW r \in VisitStates, NEW c, NEW l
  PROVE [r EXCEPT !.pc = c, !.list = l] =
          [pc |-> c, page |-> r.page, kind |-> r.kind, list |-> l, tirage |-> r.tirage]
<1> DEFINE f == r.pc  a == r.page  b == r.kind  d == r.list  e == r.tirage
           y == [r EXCEPT !.pc = c, !.list = l]
<1>1. r = [pc |-> f, page |-> a, kind |-> b, list |-> d, tirage |-> e]
  BY VisitFields
<1> HIDE DEF f, a, b, d, e
<1>2. y \in [pc : {c}, page : {a}, kind : {b}, list : {l}, tirage : {e}]
  BY <1>1
<1> HIDE DEF y
<1>3. y = [pc |-> c, page |-> a, kind |-> b, list |-> l, tirage |-> e]
  BY <1>2
<1> QED
  BY <1>3, Zenon DEF f, a, b, d, e, y

LEMMA SettledVisit ==
  ASSUME NEW r \in VisitStates, NEW c, NEW l, NEW t
  PROVE [r EXCEPT !.pc = c, !.list = l, !.tirage = t] =
          [pc |-> c, page |-> r.page, kind |-> r.kind, list |-> l, tirage |-> t]
<1> DEFINE f == r.pc  a == r.page  b == r.kind  d == r.list  e == r.tirage
           y == [r EXCEPT !.pc = c, !.list = l, !.tirage = t]
<1>1. r = [pc |-> f, page |-> a, kind |-> b, list |-> d, tirage |-> e]
  BY VisitFields
<1> HIDE DEF f, a, b, d, e
<1>2. y \in [pc : {c}, page : {a}, kind : {b}, list : {l}, tirage : {t}]
  BY <1>1
<1> HIDE DEF y
<1>3. y = [pc |-> c, page |-> a, kind |-> b, list |-> l, tirage |-> t]
  BY <1>2
<1> QED
  BY <1>3, Zenon DEF f, a, b, d, e, y

LEMMA OrphanVisit ==
  ASSUME NEW r \in VisitStates, NEW q
  PROVE [r EXCEPT !.page = q] =
          [pc |-> r.pc, page |-> q, kind |-> r.kind, list |-> r.list, tirage |-> r.tirage]
<1> DEFINE f == r.pc  a == r.page  b == r.kind  d == r.list  e == r.tirage
           y == [r EXCEPT !.page = q]
<1>1. r = [pc |-> f, page |-> a, kind |-> b, list |-> d, tirage |-> e]
  BY VisitFields
<1> HIDE DEF f, a, b, d, e
<1>2. y \in [pc : {f}, page : {q}, kind : {b}, list : {d}, tirage : {e}]
  BY <1>1
<1> HIDE DEF y
<1>3. y = [pc |-> f, page |-> q, kind |-> b, list |-> d, tirage |-> e]
  BY <1>2
<1> QED
  BY <1>3, Zenon DEF f, a, b, d, e, y

\* A new request.
LEMMA RequestMade ==
  ASSUME NEW p, NEW k
  PROVE Request(p, k) = [pc |-> "arrived", page |-> p, kind |-> k, list |-> NoList, tirage |-> NoTirage]
<1>1. Request(p, k) \in [pc : {"arrived"}, page : {p}, kind : {k}, list : {NoList}, tirage : {NoTirage}]
  BY DEF Request, IdleVisit
<1> QED
  BY <1>1

\* What the progress of a page says of its fields.
LEMMA PageFields ==
  ASSUME NEW s \in PageStates
  PROVE /\ s = [pc |-> s.pc, list |-> s.list, rotation |-> s.rotation, tirage |-> s.tirage, shown |-> s.shown]
        /\ s.pc \in {"closed", "loading", "ready", "posting", "reloading", "turning"}
        /\ s.list \in Versions \cup {NoList} /\ s.rotation \in 0..Circle - 1
        /\ s.tirage \in Tirages \cup {NoTirage} /\ s.shown \in Tirages \cup {NoTirage}
        /\ s.shown # NoTirage => s.pc = "ready"
        /\ s.pc \in {"closed", "loading", "posting", "ready"} => s.tirage = NoTirage
        /\ s.pc \in {"reloading", "turning"} => s.tirage \in Tirages
        /\ s.pc \in {"ready", "posting", "reloading", "turning"} => s.list \in Versions
  BY NullFacts DEF PageStates

\* The pages that the steps make.
LEMMA PageMade ==
  ASSUME NEW l \in Versions \cup {NoList}, NEW rot \in 0..Circle - 1,
         NEW shown \in Tirages \cup {NoTirage}
  PROVE /\ \A pc \in {"closed", "loading"} :
             [pc |-> pc, list |-> l, rotation |-> rot, tirage |-> NoTirage, shown |-> NoTirage] \in PageStates
        /\ l # NoList =>
             /\ [pc |-> "ready", list |-> l, rotation |-> rot, tirage |-> NoTirage, shown |-> shown] \in PageStates
             /\ [pc |-> "posting", list |-> l, rotation |-> rot, tirage |-> NoTirage, shown |-> NoTirage]
                  \in PageStates
             /\ \A pc \in {"reloading", "turning"}, t \in Tirages :
                  [pc |-> pc, list |-> l, rotation |-> rot, tirage |-> t, shown |-> NoTirage] \in PageStates
  BY DEF PageStates

\* The updates of a page, field by field.
LEMMA MovedPage ==
  ASSUME NEW s \in PageStates, NEW c
  PROVE [s EXCEPT !.pc = c] =
          [pc |-> c, list |-> s.list, rotation |-> s.rotation, tirage |-> s.tirage, shown |-> s.shown]
<1> DEFINE f == s.pc  a == s.list  b == s.rotation  d == s.tirage  e == s.shown
           y == [s EXCEPT !.pc = c]
<1>1. s = [pc |-> f, list |-> a, rotation |-> b, tirage |-> d, shown |-> e]
  BY PageFields
<1> HIDE DEF f, a, b, d, e
<1>2. y \in [pc : {c}, list : {a}, rotation : {b}, tirage : {d}, shown : {e}]
  BY <1>1
<1> HIDE DEF y
<1>3. y = [pc |-> c, list |-> a, rotation |-> b, tirage |-> d, shown |-> e]
  BY <1>2
<1> QED
  BY <1>3, Zenon DEF f, a, b, d, e, y

LEMMA DismissedPage ==
  ASSUME NEW s \in PageStates, NEW u
  PROVE [s EXCEPT !.shown = u] =
          [pc |-> s.pc, list |-> s.list, rotation |-> s.rotation, tirage |-> s.tirage, shown |-> u]
<1> DEFINE f == s.pc  a == s.list  b == s.rotation  d == s.tirage  e == s.shown
           y == [s EXCEPT !.shown = u]
<1>1. s = [pc |-> f, list |-> a, rotation |-> b, tirage |-> d, shown |-> e]
  BY PageFields
<1> HIDE DEF f, a, b, d, e
<1>2. y \in [pc : {f}, list : {a}, rotation : {b}, tirage : {d}, shown : {u}]
  BY <1>1
<1> HIDE DEF y
<1>3. y = [pc |-> f, list |-> a, rotation |-> b, tirage |-> d, shown |-> u]
  BY <1>2
<1> QED
  BY <1>3, Zenon DEF f, a, b, d, e, y

LEMMA ListedPage ==
  ASSUME NEW s \in PageStates, NEW c, NEW l
  PROVE [s EXCEPT !.pc = c, !.list = l] =
          [pc |-> c, list |-> l, rotation |-> s.rotation, tirage |-> s.tirage, shown |-> s.shown]
<1> DEFINE f == s.pc  a == s.list  b == s.rotation  d == s.tirage  e == s.shown
           y == [s EXCEPT !.pc = c, !.list = l]
<1>1. s = [pc |-> f, list |-> a, rotation |-> b, tirage |-> d, shown |-> e]
  BY PageFields
<1> HIDE DEF f, a, b, d, e
<1>2. y \in [pc : {c}, list : {l}, rotation : {b}, tirage : {d}, shown : {e}]
  BY <1>1
<1> HIDE DEF y
<1>3. y = [pc |-> c, list |-> l, rotation |-> b, tirage |-> d, shown |-> e]
  BY <1>2
<1> QED
  BY <1>3, Zenon DEF f, a, b, d, e, y

LEMMA ClickedPage ==
  ASSUME NEW s \in PageStates, NEW c, NEW u
  PROVE [s EXCEPT !.pc = c, !.shown = u] =
          [pc |-> c, list |-> s.list, rotation |-> s.rotation, tirage |-> s.tirage, shown |-> u]
<1> DEFINE f == s.pc  a == s.list  b == s.rotation  d == s.tirage  e == s.shown
           y == [s EXCEPT !.pc = c, !.shown = u]
<1>1. s = [pc |-> f, list |-> a, rotation |-> b, tirage |-> d, shown |-> e]
  BY PageFields
<1> HIDE DEF f, a, b, d, e
<1>2. y \in [pc : {c}, list : {a}, rotation : {b}, tirage : {d}, shown : {u}]
  BY <1>1
<1> HIDE DEF y
<1>3. y = [pc |-> c, list |-> a, rotation |-> b, tirage |-> d, shown |-> u]
  BY <1>2
<1> QED
  BY <1>3, Zenon DEF f, a, b, d, e, y

LEMMA ToldPage ==
  ASSUME NEW s \in PageStates, NEW c, NEW t
  PROVE [s EXCEPT !.pc = c, !.tirage = t] =
          [pc |-> c, list |-> s.list, rotation |-> s.rotation, tirage |-> t, shown |-> s.shown]
<1> DEFINE f == s.pc  a == s.list  b == s.rotation  d == s.tirage  e == s.shown
           y == [s EXCEPT !.pc = c, !.tirage = t]
<1>1. s = [pc |-> f, list |-> a, rotation |-> b, tirage |-> d, shown |-> e]
  BY PageFields
<1> HIDE DEF f, a, b, d, e
<1>2. y \in [pc : {c}, list : {a}, rotation : {b}, tirage : {t}, shown : {e}]
  BY <1>1
<1> HIDE DEF y
<1>3. y = [pc |-> c, list |-> a, rotation |-> b, tirage |-> t, shown |-> e]
  BY <1>2
<1> QED
  BY <1>3, Zenon DEF f, a, b, d, e, y

LEMMA LandedPage ==
  ASSUME NEW s \in PageStates, NEW g
  PROVE [s EXCEPT !.pc = "ready", !.tirage = NoTirage, !.shown = s.tirage, !.rotation = g] =
          [pc |-> "ready", list |-> s.list, rotation |-> g, tirage |-> NoTirage, shown |-> s.tirage]
<1> DEFINE f == s.pc  a == s.list  b == s.rotation  d == s.tirage  e == s.shown  z == NoTirage
           y == [s EXCEPT !.pc = "ready", !.tirage = z, !.shown = d, !.rotation = g]
<1>1. s = [pc |-> f, list |-> a, rotation |-> b, tirage |-> d, shown |-> e]
  BY PageFields
<1> HIDE DEF f, a, b, d, e, z
<1>2. y \in [pc : {"ready"}, list : {a}, rotation : {g}, tirage : {z}, shown : {d}]
  BY <1>1
<1> HIDE DEF y
<1>3. y = [pc |-> "ready", list |-> a, rotation |-> g, tirage |-> z, shown |-> d]
  BY <1>2
<1> QED
  BY <1>3, Zenon DEF a, d, y, z

-----------------------------------------------------------------------------
(* The cap                                                                 *)

\* What is counted is finite, and never more than the requests.
LEMMA CountFacts ==
  ASSUME TypeOK
  PROVE /\ Recent \in Int /\ Len(spins) \in Nat /\ old \in Nat
        /\ Cardinality(Visits) \in Nat /\ Cardinality(Visits) >= 1
        /\ IsFiniteSet(Counted) /\ Cardinality(Counted) \in Nat /\ Counted \subseteq Visits
        /\ \A S \in SUBSET Visits : Cardinality(S) \in Nat /\ Cardinality(S) <= Cardinality(Visits)
<1>1. Len(spins) \in Nat /\ old \in Nat /\ Recent \in Int
  BY DEF TypeOK, Recent
<1>2. IsFiniteSet(Visits) /\ Cardinality(Visits) \in Nat
  BY VisitsAssumption, FS_CardinalityType
<1>3. Cardinality(Visits) # 0
  BY <1>2, VisitsAssumption, FS_EmptySet
<1>4. \A S \in SUBSET Visits : IsFiniteSet(S) /\ Cardinality(S) \in Nat /\ Cardinality(S) <= Cardinality(Visits)
  BY <1>2, FS_Subset, FS_CardinalityType
<1>5. Counted \subseteq Visits
  BY DEF Counted
<1> QED
  BY <1>1, <1>2, <1>3, <1>4, <1>5

\* A step after which no more requests have been counted than before.
LEMMA CapKept ==
  ASSUME TypeOK, CapInv, spins' = spins, old' = old \/ old' = old + 1,
         \A w \in Visits : visit'[w].pc = "counted" => visit[w].pc = "counted"
  PROVE CapInv'
<1> DEFINE S == {w \in Visits : visit'[w].pc = "counted"}
<1>1. S \subseteq Counted
  BY DEF Counted
<1>2. Counted' = S
  BY DEF Counted
<1> HIDE DEF S
<1>3. Cardinality(S) \in Nat /\ Cardinality(S) <= Cardinality(Counted)
  BY <1>1, CountFacts, FS_Subset, FS_CardinalityType
<1>4. Recent' = Len(spins) - old' /\ Recent = Len(spins) - old
  BY DEF Recent
<1>5. Len(spins) - old' + Cardinality(S) <= Len(spins) - old + Cardinality(Counted)
  BY <1>3, CountFacts
<1> QED
  BY <1>2, <1>3, <1>4, <1>5, CountFacts, LimitsAssumption DEF CapInv

\* A request passes the check with room for itself at least.
LEMMA CapChecked ==
  ASSUME TypeOK, spins' = spins, old' = old, Recent < MaxSpins
  PROVE CapInv'
<1> DEFINE S == {w \in Visits : visit'[w].pc = "counted"}
<1>1. S \in SUBSET Visits
  OBVIOUS
<1>2. Counted' = S /\ Recent' = Recent
  BY DEF Counted, Recent
<1> HIDE DEF S
<1> QED
  BY <1>1, <1>2, CountFacts, LimitsAssumption DEF CapInv

\* A draw uses the room of its request.
LEMMA CapUsed ==
  ASSUME TypeOK, CapInv, NEW v \in Visits, visit[v].pc = "counted", visit'[v].pc # "counted",
         \A w \in Visits : w # v => visit'[w] = visit[w],
         Len(spins') = Len(spins) + 1, old' = old
  PROVE CapInv'
<1>1. v \in Counted /\ Counted' = Counted \ {v}
  BY DEF Counted
<1>2. Cardinality(Counted \ {v}) = Cardinality(Counted) - 1
  BY <1>1, CountFacts, FS_RemoveElement
<1>3. Recent' = Recent + 1
  BY CountFacts DEF Recent
<1> QED
  BY <1>1, <1>2, <1>3, CountFacts, LimitsAssumption DEF CapInv

-----------------------------------------------------------------------------
(* The steps of a request that draw nothing                                *)

\* What is left of a request is itself or nothing.
LEMMA KeptFacts ==
  ASSUME NEW p \in Pages \cup {NoPage}, NEW k \in {"load", "spin"}, NEW pc, NEW l, NEW t
  PROVE LET r == [pc |-> pc, page |-> p, kind |-> k, list |-> l, tirage |-> t]
        IN  /\ p = NoPage /\ (k = "load" \/ pc \in {"answered", "failed"}) => Kept(r) = IdleVisit
            /\ p # NoPage => Kept(r) = r
            /\ k = "spin" /\ pc \notin {"answered", "failed"} => Kept(r) = r
  BY DEF Kept

\* A step of a request that neither draws nor answers its page: what becomes of
\* the request.
Advanced(v, r) ==
  /\ visit' = [visit EXCEPT ![v] = r]
  /\ UNCHANGED <<shared, list, spins, old, page>>
  /\ r \in VisitStates
  /\ r.tirage = NoTirage
  /\ r.page # NoPage => r.page = visit[v].page /\ r.kind = visit[v].kind
  /\ r.pc \in {"listed", "counted"} =>
       (visit[v].pc = "found" /\ r.list = list) \/ (visit[v].pc = "listed" /\ r.list = visit[v].list)
  /\ r.pc = "answered" => r.kind = "load" /\ r.list = list
  /\ r.pc = "counted" => Recent < MaxSpins

QuietStep(v) ==
  Drop(v) \/ FindWheel(v) \/ ReadList(v) \/ ReadListToSpin(v) \/ CountSpins(v) \/ Break(v)

\* Every step of a request but the draw advances it so.
LEMMA QuietSteps ==
  ASSUME TypeOK, NEW v \in Visits, QuietStep(v)
  PROVE \E r : Advanced(v, r)
<1> DEFINE p == visit[v].page
           k == visit[v].kind
           failed == Kept([pc |-> "failed", page |-> p, kind |-> k, list |-> NoList, tirage |-> NoTirage])
<1>1. visit[v] \in VisitStates /\ visit \in [Visits -> VisitStates] /\ list \in Versions \cup {NoList}
  BY DEF TypeOK
<1>2. p \in Pages \cup {NoPage} /\ k \in {"load", "spin"}
  BY <1>1, VisitFields DEF Visitors
<1>3. failed \in VisitStates /\ failed.tirage = NoTirage /\ failed.pc \in {"idle", "failed"}
      /\ (failed.page # NoPage => failed.page = p /\ failed.kind = k)
  <2>1. CASE p = NoPage
    <3>1. failed = IdleVisit
      BY <1>2, <2>1, KeptFacts
    <3>2. IdleVisit.page = NoPage /\ IdleVisit.tirage = NoTirage /\ IdleVisit.pc = "idle"
      BY DEF IdleVisit
    <3> QED
      BY <3>1, <3>2, NullFacts
  <2>2. CASE p # NoPage
    <3>1. failed = [pc |-> "failed", page |-> p, kind |-> k, list |-> NoList, tirage |-> NoTirage]
      BY <1>2, <2>2, KeptFacts
    <3>2. [pc |-> "failed", page |-> p, kind |-> k, list |-> NoList, tirage |-> NoTirage] \in VisitStates
      BY <1>2, <2>2, VisitMade
    <3> QED
      BY <3>1, <3>2
  <2> QED
    BY <2>1, <2>2
<1> HIDE DEF failed
<1>4. ASSUME visit' = [visit EXCEPT ![v] = failed], UNCHANGED <<shared, list, spins, old, page>>
      PROVE \E r : Advanced(v, r)
  <2>1. Advanced(v, failed)
    BY <1>3, <1>4 DEF Advanced
  <2> QED
    BY <2>1
<1>5. CASE Drop(v)
  <2> DEFINE r == [pc |-> "arrived", page |-> NoPage, kind |-> "spin", list |-> NoList, tirage |-> NoTirage]
  <2>1. r \in VisitStates
    BY VisitMade
  <2>2. visit' = [visit EXCEPT ![v] = r]
    BY <1>5, RequestMade DEF Drop
  <2>3. Advanced(v, r)
    BY <1>5, <2>1, <2>2 DEF Advanced, Drop
  <2> QED
    BY <2>3
<1>6. CASE FindWheel(v)
  <2>0. visit[v].pc = "arrived"
    BY <1>6 DEF FindWheel
  <2>1. /\ visit[v].list = NoList /\ visit[v].tirage = NoTirage
        /\ p # NoPage \/ k = "spin"
    BY <1>1, <2>0, VisitFields, PagesAssumption
  <2>2. CASE ~shared
    <3>1. [visit[v] EXCEPT !.pc = "failed"] =
            [pc |-> "failed", page |-> p, kind |-> k, list |-> NoList, tirage |-> NoTirage]
      BY <1>1, <2>1, MovedVisit
    <3>2. visit' = [visit EXCEPT ![v] = failed]
      BY <1>6, <2>2, <3>1 DEF FindWheel, failed
    <3> QED
      BY <1>4, <1>6, <3>2 DEF FindWheel
  <2>3. CASE shared
    <3> DEFINE r == [pc |-> "found", page |-> p, kind |-> k, list |-> NoList, tirage |-> NoTirage]
    <3>1. [visit[v] EXCEPT !.pc = "found"] = r
      BY <1>1, <2>1, MovedVisit
    <3>2. r \in VisitStates
      BY <1>2, <2>1, VisitMade
    <3>5. Kept(r) = r
      BY <2>1 DEF Kept
    <3>3. visit' = [visit EXCEPT ![v] = r]
      BY <1>6, <2>3, <3>1, <3>5 DEF FindWheel
    <3>4. Advanced(v, r)
      BY <1>6, <3>2, <3>3 DEF Advanced, FindWheel
    <3> QED
      BY <3>4
  <2> QED
    BY <2>2, <2>3
<1>7. CASE ReadList(v)
  <2> DEFINE r == [pc |-> "answered", page |-> p, kind |-> "load", list |-> list, tirage |-> NoTirage]
  <2>1. visit[v].list = NoList /\ visit[v].tirage = NoTirage /\ p \in Pages /\ k = "load"
    BY <1>1, <1>7, VisitFields DEF ReadList
  <2>2. [visit[v] EXCEPT !.pc = "answered", !.list = list] = r
    <3>1. [visit[v] EXCEPT !.pc = "answered", !.list = list] =
            [pc |-> "answered", page |-> p, kind |-> k, list |-> list, tirage |-> visit[v].tirage]
      BY <1>1, ListedVisit, Zenon
    <3> QED
      BY <2>1, <3>1
  <2>3. r \in VisitStates
    BY <1>1, <2>1, VisitMade, PagesAssumption
  <2>4. visit' = [visit EXCEPT ![v] = r]
    BY <1>7, <2>2 DEF ReadList
  <2>5. Advanced(v, r)
    BY <1>7, <2>1, <2>3, <2>4 DEF Advanced, ReadList
  <2> QED
    BY <2>5
<1>8. CASE ReadListToSpin(v)
  <2>1. visit[v].list = NoList /\ visit[v].tirage = NoTirage /\ k = "spin"
    BY <1>1, <1>8, VisitFields DEF ReadListToSpin
  <2>2. CASE Len(list.segs) < 2
    <3>1. [visit[v] EXCEPT !.pc = "failed"] =
            [pc |-> "failed", page |-> p, kind |-> k, list |-> NoList, tirage |-> NoTirage]
      BY <1>1, <2>1, MovedVisit
    <3>2. visit' = [visit EXCEPT ![v] = failed]
      BY <1>8, <2>2, <3>1 DEF ReadListToSpin, failed
    <3> QED
      BY <1>4, <1>8, <3>2 DEF ReadListToSpin
  <2>3. CASE ~(Len(list.segs) < 2)
    <3> DEFINE r == [pc |-> "listed", page |-> p, kind |-> "spin", list |-> list, tirage |-> NoTirage]
    <3>1. [visit[v] EXCEPT !.pc = "listed", !.list = list] = r
      <4>1. [visit[v] EXCEPT !.pc = "listed", !.list = list] =
              [pc |-> "listed", page |-> p, kind |-> k, list |-> list, tirage |-> visit[v].tirage]
        BY <1>1, ListedVisit, Zenon
      <4> QED
        BY <2>1, <4>1
    <3>2. list # NoList
      BY <2>3, NullFacts
    <3>3. r \in VisitStates
      BY <1>1, <1>2, <3>2, VisitMade
    <3>4. visit' = [visit EXCEPT ![v] = r]
      BY <1>8, <2>3, <3>1 DEF ReadListToSpin
    <3>5. Advanced(v, r)
      BY <1>8, <2>1, <3>3, <3>4 DEF Advanced, ReadListToSpin
    <3> QED
      BY <3>5
  <2> QED
    BY <2>2, <2>3
<1>9. CASE CountSpins(v)
  <2>1. visit[v].list \in Versions /\ visit[v].tirage = NoTirage /\ k = "spin"
    BY <1>1, <1>9, VisitFields DEF CountSpins
  <2>2. CASE Recent >= MaxSpins
    <3>1. [visit[v] EXCEPT !.pc = "failed", !.list = NoList] =
            [pc |-> "failed", page |-> p, kind |-> k, list |-> NoList, tirage |-> NoTirage]
      BY <1>1, <2>1, ListedVisit
    <3>2. visit' = [visit EXCEPT ![v] = failed]
      BY <1>9, <2>2, <3>1 DEF CountSpins, failed
    <3> QED
      BY <1>4, <1>9, <3>2 DEF CountSpins
  <2>3. CASE ~(Recent >= MaxSpins)
    <3> DEFINE l == visit[v].list
               r == [pc |-> "counted", page |-> p, kind |-> "spin", list |-> l, tirage |-> NoTirage]
    <3>1. [visit[v] EXCEPT !.pc = "counted"] = r
      BY <1>1, <2>1, MovedVisit
    <3>2. l # NoList
      BY <2>1, VersionFacts
    <3>3. r \in VisitStates
      BY <1>2, <2>1, <3>2, VisitMade
    <3>4. visit' = [visit EXCEPT ![v] = r]
      BY <1>9, <2>3, <3>1 DEF CountSpins
    <3>5. Recent < MaxSpins
      BY <2>3, CountFacts, LimitsAssumption
    <3>6. Advanced(v, r)
      BY <1>9, <2>1, <3>3, <3>4, <3>5 DEF Advanced, CountSpins
    <3> QED
      BY <3>6
  <2> QED
    BY <2>2, <2>3
<1>10. CASE Break(v)
  <2>1. [visit[v] EXCEPT !.pc = "failed", !.list = NoList, !.tirage = NoTirage] =
          [pc |-> "failed", page |-> p, kind |-> k, list |-> NoList, tirage |-> NoTirage]
    BY <1>1, SettledVisit, Zenon
  <2>2. visit' = [visit EXCEPT ![v] = failed]
    BY <1>10, <2>1 DEF Break, failed
  <2> QED
    BY <1>4, <1>10, <2>2 DEF Break
<1> QED
  BY <1>5, <1>6, <1>7, <1>8, <1>9, <1>10 DEF QuietStep

-----------------------------------------------------------------------------
(* The owner's steps and the hours                                         *)

\* An edit has a new number: it agrees with every draw of before.
LEMMA SaveKeeps ==
  ASSUME IndInv, NEW l \in Lists, Save(l)
  PROVE IndInv'
<1> DEFINE new == [version |-> list.version + 1, segs |-> l]
<1>1. /\ list' = new /\ list.version < MaxEdits
      /\ UNCHANGED <<shared, spins, old, visit, page>>
  BY DEF Save
<1>2. TypeOK /\ list \in Versions \cup {NoList}
  BY DEF IndInv, TypeOK
<1>3. list.version \in Nat
  BY <1>2, VersionFacts, NullFacts
<1>4. new \in Versions /\ new.version = list.version + 1
  BY <1>1, <1>3, LimitsAssumption DEF Versions
<1> HIDE DEF new
<1>5. TypeOK'
  BY <1>1, <1>2, <1>4 DEF TypeOK
<1>6. RecordedInv' /\ RequestsInv' /\ PointerInv'
  <2>1. RecordedInv /\ RequestsInv /\ PointerInv
    BY DEF IndInv
  <2>2. RecordedInv'
    BY <1>1, <2>1 DEF RecordedInv, Recorded, AnnouncedIsRecorded
  <2>3. RequestsInv'
    BY <1>1, <2>1 DEF RequestsInv
  <2>4. PointerInv'
    BY <1>1, <2>1 DEF PointerInv, Answered, PointerOffOnlyWhenEdited, PointerTells
  <2> QED
    BY <2>2, <2>3, <2>4
<1>7. VersionsInv'
  <2>1. VersionsInv
    BY DEF IndInv
  <2>2. ASSUME NEW v \in Visits, visit[v].pc \in {"listed", "counted"}
        PROVE visit[v].list.version < new.version
    <3>1. visit[v].list = list \/ visit[v].list.version < list.version
      BY <2>1, <2>2 DEF VersionsInv
    <3>2. visit[v].list \in Versions
      BY <1>2, <2>2, VisitFields DEF TypeOK
    <3> QED
      BY <1>3, <1>4, <3>1, <3>2, VersionFacts
  <2>3. ASSUME NEW t \in Tirages, Agrees(list, t)
        PROVE Agrees(new, t)
    <3>1. t.version \in Nat /\ t.version <= list.version
      BY <1>3, <2>3, LimitsAssumption DEF Tirages, Agrees
    <3> QED
      BY <1>3, <1>4, <3>1 DEF Agrees
  <2>4. \A v \in Visits : visit[v].tirage # NoTirage => visit[v].tirage \in Tirages
    BY <1>2, VisitFields DEF TypeOK
  <2>5. \A p \in Pages : page[p].pc = "reloading" => page[p].tirage \in Tirages
    BY <1>2, PageFields DEF TypeOK
  <2>6. \A v \in Visits : visit[v].tirage # NoTirage => Agrees(new, visit[v].tirage)
    BY <2>1, <2>3, <2>4 DEF VersionsInv
  <2>7. \A p \in Pages : page[p].pc = "reloading" => Agrees(new, page[p].tirage)
    BY <2>1, <2>3, <2>5 DEF VersionsInv
  <2> QED
    BY <1>1, <2>2, <2>6, <2>7 DEF VersionsInv, Agrees
<1>8. CapInv'
  BY <1>1, CapKept DEF IndInv
<1> QED
  BY <1>5, <1>6, <1>7, <1>8 DEF IndInv

\* Publication and the passing of time touch neither the list nor the draws.
LEMMA StillKeeps ==
  ASSUME IndInv, Publish \/ Unpublish \/ GrowOld \/ UNCHANGED vars
  PROVE IndInv'
<1>1. UNCHANGED <<list, spins, visit, page>>
  BY DEF Publish, Unpublish, GrowOld, vars
<1>2. shared' \in BOOLEAN /\ old' \in 0..Len(spins)
  <2>1. shared \in BOOLEAN /\ old \in 0..Len(spins) /\ Len(spins) \in Nat
    BY DEF IndInv, TypeOK
  <2>2. shared' \in BOOLEAN
    BY <2>1 DEF Publish, Unpublish, GrowOld, vars
  <2>3. old' \in 0..Len(spins)
    BY <2>1 DEF Publish, Unpublish, GrowOld, vars
  <2> QED
    BY <2>2, <2>3
<1>3. TypeOK'
  BY <1>1, <1>2 DEF IndInv, TypeOK
<1>4. RecordedInv' /\ RequestsInv'
  BY <1>1 DEF IndInv, RecordedInv, Recorded, AnnouncedIsRecorded, RequestsInv
<1>5. VersionsInv'
  BY <1>1 DEF IndInv, VersionsInv, Agrees
<1>6. PointerInv'
  BY <1>1 DEF IndInv, PointerInv, Agrees, Answered, PointerOffOnlyWhenEdited, PointerTells
<1>7. CapInv'
  <2>1. old' = old \/ old' = old + 1
    BY DEF Publish, Unpublish, GrowOld, vars
  <2> QED
    BY <1>1, <2>1, CapKept DEF IndInv
<1> QED
  BY <1>3, <1>4, <1>5, <1>6, <1>7 DEF IndInv

-----------------------------------------------------------------------------
(* The requests                                                            *)

\* A step that makes a request idle, or advances it without a draw.
LEMMA QuietKeeps ==
  ASSUME IndInv, NEW v \in Visits, NEW r, Advanced(v, r)
  PROVE IndInv'
<1>1. /\ TypeOK /\ RecordedInv /\ RequestsInv /\ VersionsInv /\ PointerInv
      /\ UNCHANGED <<shared, list, spins, old, page>>
      /\ r \in VisitStates /\ r.tirage = NoTirage
  BY DEF IndInv, Advanced
<1>2. /\ visit' \in [Visits -> VisitStates] /\ visit'[v] = r
      /\ \A w \in Visits : w # v => visit'[w] = visit[w]
  BY <1>1 DEF Advanced, TypeOK
<1>3. TypeOK'
  BY <1>1, <1>2 DEF TypeOK
<1>4. RecordedInv'
  BY <1>1, <1>2 DEF RecordedInv, Recorded, AnnouncedIsRecorded
<1>5. RequestsInv'
  <2>1. r.page # NoPage => r.page = visit[v].page /\ r.kind = visit[v].kind
    BY DEF Advanced
  <2>2. \A x, w \in Visits : x # w /\ visit'[x].page # NoPage => visit'[x].page # visit'[w].page
    BY <1>1, <1>2, <2>1 DEF RequestsInv
  <2>3. \A w \in Visits : visit'[w].page # NoPage =>
          visit'[w].page = visit[w].page /\ visit'[w].kind = visit[w].kind
    BY <1>2, <2>1
  <2>4. ASSUME NEW w \in Visits, visit'[w].page # NoPage
        PROVE page'[visit'[w].page].pc \in
                (IF visit'[w].kind = "spin" THEN {"posting"} ELSE {"loading", "reloading"})
    BY <1>1, <2>3, <2>4 DEF RequestsInv
  <2> QED
    BY <2>2, <2>4 DEF RequestsInv
<1>6. VersionsInv'
  <2>1. r.pc \in {"listed", "counted"} => r.list = list \/ r.list.version < list.version
    BY <1>1 DEF Advanced, VersionsInv
  <2> QED
    BY <1>1, <1>2, <2>1 DEF VersionsInv, Agrees
<1>7. PointerInv'
  <2>1. r.pc = "answered" => r.list = list
    BY DEF Advanced
  <2>2. \A w \in Visits, p \in Pages :
          page[p].pc = "reloading" /\ visit'[w].page = p /\ visit'[w].pc = "answered" =>
            Agrees(visit'[w].list, page[p].tirage)
    BY <1>1, <1>2, <2>1 DEF PointerInv, Answered, VersionsInv
  <2> QED
    BY <1>1, <2>2 DEF PointerInv, Answered, Agrees, PointerOffOnlyWhenEdited, PointerTells
<1>8. CapInv'
  <2>1. CASE r.pc = "counted"
    BY <1>1, <2>1, CapChecked DEF Advanced
  <2>2. CASE r.pc # "counted"
    BY <1>1, <1>2, <2>2, CapKept DEF IndInv
  <2> QED
    BY <2>1, <2>2
<1> QED
  BY <1>3, <1>4, <1>5, <1>6, <1>7, <1>8 DEF IndInv

\* The draw is in the table when it is told, and is of the list that was read.
LEMMA InsertKeeps ==
  ASSUME IndInv, NEW v \in Visits, InsertSpin(v)
  PROVE IndInv'
<1>1. /\ TypeOK /\ RecordedInv /\ RequestsInv /\ VersionsInv /\ PointerInv
      /\ UNCHANGED <<shared, list, old, page>>
      /\ visit[v].pc = "counted"
  BY DEF IndInv, InsertSpin
<1>2. /\ visit \in [Visits -> VisitStates] /\ visit[v] \in VisitStates
      /\ visit[v].list \in Versions /\ visit[v].kind = "spin" /\ visit[v].page \in Visitors
      /\ spins \in Seq(Tirages) /\ Len(spins) \in Nat
  BY <1>1, VisitFields DEF TypeOK
<1>3. PICK i \in 0..Len(visit[v].list.segs) - 1 :
        spins' = Append(spins, Drawn(v, i)) /\ visit' = Tell(v, Drawn(v, i))
  BY DEF InsertSpin
<1> DEFINE t == Drawn(v, i)
           p == visit[v].page
           told == [pc |-> "answered", page |-> p, kind |-> "spin", list |-> NoList, tirage |-> t]
           r == Kept(told)
<1>4. /\ t \in Tirages /\ t.id = Len(spins) + 1
      /\ t.version = visit[v].list.version /\ SameContent(visit[v].list.segs, t)
  <2> DEFINE segs == visit[v].list.segs
  <2>1. /\ segs \in Seq(Contents) /\ i \in Nat /\ i + 1 \in 1..Len(segs) /\ i < Len(segs)
        /\ visit[v].list.version \in 1..MaxEdits
    BY <1>2, <1>3, VersionFacts DEF Versions
  <2>2. segs[i + 1] \in Contents
    BY <2>1
  <2>3. t = [id |-> Len(spins) + 1, index |-> i, content |-> segs[i + 1], version |-> visit[v].list.version]
    BY DEF Drawn
  <2>4. Len(spins) + 1 \in Nat \ {0}
    BY <1>2
  <2> QED
    BY <2>1, <2>2, <2>3, <2>4 DEF Tirages, SameContent
<1> HIDE DEF t
<1>5. [visit[v] EXCEPT !.pc = "answered", !.list = NoList, !.tirage = t] = told
  <2>1. [visit[v] EXCEPT !.pc = "answered", !.list = NoList, !.tirage = t] =
          [pc |-> "answered", page |-> visit[v].page, kind |-> visit[v].kind, list |-> NoList, tirage |-> t]
    BY <1>2, SettledVisit, Zenon
  <2> QED
    BY <1>2, <2>1
<1>6. visit' = [visit EXCEPT ![v] = r]
  BY <1>3, <1>5 DEF Tell, t
<1>7. \/ r = IdleVisit
      \/ r = told /\ p \in Pages /\ p # NoPage /\ r \in VisitStates
  BY <1>2, <1>4, VisitMade DEF Kept, Visitors
<1>8. /\ r \in VisitStates /\ r.page \in {NoPage, p}
      /\ r.pc \notin {"listed", "counted"}
      /\ r.page # NoPage => r.kind = "spin"
      /\ r.tirage \in {NoTirage, t}
  BY <1>7, NullFacts DEF IdleVisit
<1> HIDE DEF r
<1>9. /\ visit' \in [Visits -> VisitStates] /\ visit'[v] = r
      /\ \A w \in Visits : w # v => visit'[w] = visit[w]
  BY <1>2, <1>6, <1>8
<1>10. /\ spins' \in Seq(Tirages) /\ Len(spins') = Len(spins) + 1 /\ spins'[Len(spins) + 1] = t
       /\ \A j \in 1..Len(spins) : spins'[j] = spins[j]
  BY <1>2, <1>3, <1>4 DEF t
<1>11. TypeOK'
  BY <1>1, <1>2, <1>9, <1>10 DEF TypeOK
<1>12. RecordedInv'
  <2> DEFINE InTable(u) == u.id <= Len(spins') /\ spins'[u.id] = u
  <2>1. ASSUME NEW u \in Tirages, Recorded(u)
        PROVE InTable(u)
    <3>1. u.id \in 1..Len(spins)
      BY <1>2, <2>1 DEF Tirages, Recorded
    <3> QED
      BY <1>2, <1>10, <2>1, <3>1 DEF Recorded
  <2>2. InTable(t)
    BY <1>2, <1>4, <1>10 DEF Recorded
  <2> HIDE DEF InTable
  <2>3. \A w \in Visits : visit[w].tirage # NoTirage => visit[w].tirage \in Tirages
    BY <1>1, VisitFields DEF TypeOK
  <2>4. \A q \in Pages : /\ page[q].tirage # NoTirage => page[q].tirage \in Tirages
                         /\ page[q].shown # NoTirage => page[q].shown \in Tirages
    BY <1>1, PageFields DEF TypeOK
  <2>5. \A w \in Visits : visit'[w].tirage # NoTirage => visit'[w].tirage \in Tirages /\ InTable(visit'[w].tirage)
    BY <1>1, <1>4, <1>8, <1>9, <2>1, <2>2, <2>3 DEF RecordedInv
  <2>6. \A q \in Pages : page[q].tirage # NoTirage => InTable(page[q].tirage)
    BY <1>1, <2>1, <2>4 DEF RecordedInv
  <2>7. \A q \in Pages : page[q].shown # NoTirage => InTable(page[q].shown)
    BY <1>1, <2>1, <2>4 DEF RecordedInv, AnnouncedIsRecorded, Recorded
  <2> QED
    BY <1>1, <2>5, <2>6, <2>7 DEF RecordedInv, AnnouncedIsRecorded, Recorded, InTable
<1>13. RequestsInv'
  BY <1>1, <1>2, <1>8, <1>9 DEF RequestsInv
<1>14. VersionsInv'
  <2>1. Agrees(list, t)
    <3>1. visit[v].list = list \/ visit[v].list.version < list.version
      BY <1>1 DEF VersionsInv
    <3> QED
      BY <1>4, <3>1 DEF Agrees
  <2>2. \A w \in Visits : visit'[w].tirage # NoTirage => Agrees(list, visit'[w].tirage)
    BY <1>1, <1>8, <1>9, <2>1 DEF VersionsInv
  <2> QED
    BY <1>1, <1>8, <1>9, <2>2 DEF VersionsInv, Agrees
<1>15. PointerInv'
  <2>1. ASSUME NEW w \in Visits, NEW q \in Pages,
               page[q].pc = "reloading", visit'[w].page = q, visit'[w].pc = "answered"
        PROVE Agrees(visit'[w].list, page[q].tirage)
    <3>1. q # NoPage
      BY PagesAssumption
    <3>2. visit[w].page = q => w # v
      BY <1>1, <1>2, <2>1, <3>1 DEF RequestsInv
    <3>3. w # v
      BY <1>8, <1>9, <2>1, <3>1, <3>2
    <3> QED
      BY <1>1, <1>9, <2>1, <3>3 DEF PointerInv, Answered
  <2> QED
    BY <1>1, <2>1 DEF PointerInv, Answered, Agrees, PointerOffOnlyWhenEdited, PointerTells
<1>16. CapInv'
  BY <1>1, <1>8, <1>9, <1>10, CapUsed DEF IndInv
<1> QED
  BY <1>11, <1>12, <1>13, <1>14, <1>15, <1>16 DEF IndInv

\* A request whose page is gone tells nothing any more.
LEMMA Orphaned ==
  ASSUME NEW r \in VisitStates, r.pc # "idle"
  PROVE LET o == Kept([r EXCEPT !.page = NoPage])
        IN  /\ o \in VisitStates /\ o.page = NoPage /\ o.tirage = NoTirage
            /\ o.pc \in {"listed", "counted"} => r.pc \in {"listed", "counted"} /\ o.list = r.list
            /\ o.pc # "answered"
            /\ o.pc = "counted" => r.pc = "counted"
<1> DEFINE x == [pc |-> r.pc, page |-> NoPage, kind |-> r.kind, list |-> r.list, tirage |-> r.tirage]
<1>1. [r EXCEPT !.page = NoPage] = x
  BY OrphanVisit
<1>2. CASE r.kind = "load" \/ r.pc \in {"answered", "failed"}
  <2>1. Kept(x) = IdleVisit
    BY <1>2 DEF Kept
  <2>2. IdleVisit.page = NoPage /\ IdleVisit.tirage = NoTirage /\ IdleVisit.pc = "idle"
    BY DEF IdleVisit
  <2> HIDE DEF x
  <2> QED
    BY <1>1, <2>1, <2>2, NullFacts
<1>3. CASE ~(r.kind = "load" \/ r.pc \in {"answered", "failed"})
  <2>1. Kept(x) = x
    BY <1>3 DEF Kept
  <2>2. r.kind = "spin" /\ r.pc \in {"arrived", "found", "listed", "counted"} /\ r.tirage = NoTirage
    BY <1>3, VisitFields
  <2>3. x \in VisitStates
    <3>1. CASE r.pc \in {"arrived", "found"}
      BY <2>2, <3>1, VisitFields, VisitMade
    <3>2. CASE r.pc \in {"listed", "counted"}
      <4>1. r.list \in Versions /\ r.list # NoList
        BY <3>2, VisitFields, VersionFacts
      <4> QED
        BY <2>2, <3>2, <4>1, VisitMade
    <3> QED
      BY <2>2, <3>1, <3>2
  <2>4. x.page = NoPage /\ x.tirage = NoTirage /\ x.pc = r.pc /\ x.list = r.list
    BY <2>2
  <2> HIDE DEF x
  <2> QED
    BY <1>1, <2>1, <2>2, <2>3, <2>4
<1> QED
  BY <1>2, <1>3

\* A page that is opened again leaves its requests to themselves.
LEMMA OpenKeeps ==
  ASSUME IndInv, NEW p \in Pages, NEW v \in Visits, Open(p, v)
  PROVE IndInv'
<1> DEFINE s == [pc |-> "loading", list |-> NoList, rotation |-> 0, tirage |-> NoTirage, shown |-> NoTirage]
           r == [pc |-> "arrived", page |-> p, kind |-> "load", list |-> NoList, tirage |-> NoTirage]
           o(w) == Kept([visit[w] EXCEPT !.page = NoPage])
<1>1. /\ TypeOK /\ RecordedInv /\ RequestsInv /\ VersionsInv /\ PointerInv
      /\ UNCHANGED <<shared, list, spins, old>>
      /\ visit[v].pc = "idle"
  BY DEF IndInv, Open
<1>2. /\ visit \in [Visits -> VisitStates] /\ page \in [Pages -> PageStates] /\ p # NoPage
      /\ visit[v] = IdleVisit
  BY <1>1, VisitFields, PagesAssumption DEF TypeOK
<1>3. page' = [page EXCEPT ![p] = s] /\ s \in PageStates
  <2>1. [ClosedPage EXCEPT !.pc = "loading"] = s
    BY DEF ClosedPage
  <2>2. s \in PageStates
    <3>1. 0 \in 0..Circle - 1
      BY CircleAssumption
    <3> QED
      BY <3>1, PageMade
  <2> QED
    BY <2>1, <2>2 DEF Open
<1>4. Request(p, "load") = r /\ r \in VisitStates
  BY <1>2, RequestMade, VisitMade
<1>5. ASSUME NEW w \in Visits
      PROVE visit'[w] = IF w = v THEN r ELSE IF visit[w].page = p THEN o(w) ELSE visit[w]
  BY <1>4 DEF Open
<1>6. ASSUME NEW w \in Visits, visit[w].page = p
      PROVE /\ o(w) \in VisitStates /\ o(w).page = NoPage /\ o(w).tirage = NoTirage
            /\ o(w).pc \in {"listed", "counted"} =>
                 visit[w].pc \in {"listed", "counted"} /\ o(w).list = visit[w].list
            /\ o(w).pc # "answered"
            /\ o(w).pc = "counted" => visit[w].pc = "counted"
  <2>1. visit[w] \in VisitStates /\ visit[w].pc # "idle"
    BY <1>2, <1>6, VisitFields DEF IdleVisit
  <2> QED
    BY <2>1, Orphaned
<1>7. /\ r.pc = "arrived" /\ r.page = p /\ r.kind = "load" /\ r.tirage = NoTirage
      /\ s.pc = "loading" /\ s.tirage = NoTirage /\ s.shown = NoTirage
  OBVIOUS
<1>8. /\ page' \in [Pages -> PageStates] /\ page'[p] = s
      /\ \A q \in Pages : q # p => page'[q] = page[q]
  BY <1>2, <1>3
<1> HIDE DEF r, s, o
<1>9. visit' \in [Visits -> VisitStates]
  <2>1. visit' = [w \in Visits |-> visit'[w]]
    BY DEF Open
  <2>2. \A w \in Visits : visit'[w] \in VisitStates
    BY <1>2, <1>4, <1>5, <1>6
  <2> QED
    BY <2>1, <2>2
\* What the step leaves of the others.
<1>10. \A w \in Visits : w # v => \/ visit'[w] = visit[w] /\ visit[w].page # p
                                  \/ /\ visit'[w].page = NoPage /\ visit'[w].tirage = NoTirage
                                     /\ visit'[w].pc # "answered"
                                     /\ visit'[w].pc \in {"listed", "counted"} =>
                                          visit[w].pc \in {"listed", "counted"} /\ visit'[w].list = visit[w].list
  BY <1>5, <1>6
<1>11. visit'[v] = r
  BY <1>5
<1> HIDE DEF Open
<1>12. TypeOK'
  BY <1>1, <1>8, <1>9 DEF TypeOK
<1>13. RecordedInv'
  <2>1. \A w \in Visits : visit'[w].tirage # NoTirage => Recorded(visit'[w].tirage)
    BY <1>1, <1>7, <1>10, <1>11 DEF RecordedInv
  <2>2. \A q \in Pages : page'[q].tirage # NoTirage => Recorded(page'[q].tirage)
    BY <1>1, <1>7, <1>8 DEF RecordedInv
  <2>3. \A q \in Pages : page'[q].shown # NoTirage => Recorded(page'[q].shown)
    BY <1>1, <1>7, <1>8 DEF RecordedInv, AnnouncedIsRecorded, Recorded
  <2> QED
    BY <1>1, <2>1, <2>2, <2>3 DEF RecordedInv, AnnouncedIsRecorded, Recorded
<1>14. RequestsInv'
  <2>1. \A x, w \in Visits : x # w /\ visit'[x].page # NoPage => visit'[x].page # visit'[w].page
    BY <1>1, <1>2, <1>7, <1>10, <1>11 DEF RequestsInv
  <2>2. ASSUME NEW w \in Visits, visit'[w].page # NoPage
        PROVE page'[visit'[w].page].pc \in
                (IF visit'[w].kind = "spin" THEN {"posting"} ELSE {"loading", "reloading"})
    <3>1. CASE w = v
      BY <1>7, <1>8, <1>11, <3>1
    <3>2. CASE w # v
      <4>1. visit'[w] = visit[w] /\ visit[w].page # p /\ visit[w].page \in Pages
        BY <1>2, <1>10, <2>2, <3>2, VisitFields DEF Visitors
      <4> QED
        BY <1>1, <1>8, <2>2, <4>1 DEF RequestsInv
    <3> QED
      BY <3>1, <3>2
  <2> QED
    BY <2>1, <2>2 DEF RequestsInv
<1>15. VersionsInv'
  <2>1. \A w \in Visits : visit'[w].pc \in {"listed", "counted"} =>
          visit'[w].list = list \/ visit'[w].list.version < list.version
    BY <1>1, <1>7, <1>10, <1>11 DEF VersionsInv
  <2>2. \A w \in Visits : visit'[w].tirage # NoTirage => Agrees(list, visit'[w].tirage)
    BY <1>1, <1>7, <1>10, <1>11 DEF VersionsInv
  <2>3. \A q \in Pages : page'[q].pc = "reloading" => Agrees(list, page'[q].tirage)
    BY <1>1, <1>7, <1>8 DEF VersionsInv
  <2> QED
    BY <1>1, <2>1, <2>2, <2>3 DEF VersionsInv, Agrees
<1>16. PointerInv'
  <2>1. \A w \in Visits, q \in Pages :
          page'[q].pc = "reloading" /\ visit'[w].page = q /\ visit'[w].pc = "answered" =>
            Agrees(visit'[w].list, page'[q].tirage)
    BY <1>1, <1>7, <1>8, <1>10, <1>11 DEF PointerInv, Answered
  <2>2. \A q \in Pages : page'[q].pc = "turning" =>
          SameContent(page'[q].list.segs, page'[q].tirage) \/ page'[q].list.version > page'[q].tirage.version
    BY <1>1, <1>7, <1>8 DEF PointerInv
  <2>3. PointerOffOnlyWhenEdited'
    BY <1>1, <1>7, <1>8 DEF PointerInv, PointerOffOnlyWhenEdited, PointerTells
  <2> QED
    BY <2>1, <2>2, <2>3 DEF PointerInv, Answered, Agrees
<1>17. CapInv'
  <2>1. \A w \in Visits : visit'[w].pc = "counted" => visit[w].pc = "counted"
    BY <1>5, <1>6, <1>7
  <2> QED
    BY <1>1, <2>1, CapKept DEF IndInv
<1> QED
  BY <1>12, <1>13, <1>14, <1>15, <1>16, <1>17 DEF IndInv

-----------------------------------------------------------------------------
(* The pages                                                               *)

\* What a page owes to what it shows.
Tells(s) ==
  LET under == UnderPointer(s.rotation, Len(s.list.segs))
  IN  \/ under = s.shown.index /\ s.list.segs[under + 1] = s.shown.content
      \/ s.list.version > s.shown.version

\* A step of one page: what becomes of it, of its requests, and the request it
\* may make.
Asked(p, s, w) ==
  /\ visit'[w].page = p /\ visit'[w].pc = "arrived"
  /\ s.pc \in (IF visit'[w].kind = "spin" THEN {"posting"} ELSE {"loading", "reloading"})

Turned(p, s) ==
  /\ page' = [page EXCEPT ![p] = s]
  /\ UNCHANGED <<shared, list, spins, old>>
  /\ visit' \in [Visits -> VisitStates]
  /\ \A w \in Visits : \/ visit'[w] = visit[w] /\ visit[w].page # p
                       \/ visit'[w] = IdleVisit
                       \/ Asked(p, s, w)
  /\ \A x, w \in Visits : Asked(p, s, x) /\ Asked(p, s, w) => x = w
  /\ s \in PageStates
  /\ s.tirage # NoTirage => Recorded(s.tirage)
  /\ s.shown # NoTirage => Recorded(s.shown) /\ Tells(s)
  /\ s.pc = "reloading" => Agrees(list, s.tirage)
  /\ s.pc = "turning" => SameContent(s.list.segs, s.tirage) \/ s.list.version > s.tirage.version

\* Such a step breaks nothing.
LEMMA PageStepKeeps ==
  ASSUME IndInv, NEW p \in Pages, NEW s, Turned(p, s)
  PROVE IndInv'
<1>1. /\ TypeOK /\ RecordedInv /\ RequestsInv /\ VersionsInv /\ PointerInv
      /\ UNCHANGED <<shared, list, spins, old>> /\ s \in PageStates
  BY DEF IndInv, Turned
<1>2. /\ visit \in [Visits -> VisitStates] /\ page \in [Pages -> PageStates] /\ p # NoPage
      /\ page' \in [Pages -> PageStates] /\ page'[p] = s
      /\ \A q \in Pages : q # p => page'[q] = page[q]
  BY <1>1, PagesAssumption DEF TypeOK, Turned
<1>3. IdleVisit.page = NoPage /\ IdleVisit.tirage = NoTirage /\ IdleVisit.pc = "idle"
  BY DEF IdleVisit
<1>4. /\ visit' \in [Visits -> VisitStates]
      /\ \A w \in Visits : \/ visit'[w] = visit[w] /\ visit[w].page # p
                           \/ visit'[w] = IdleVisit
                           \/ Asked(p, s, w) /\ visit'[w].page = p /\ visit'[w].pc = "arrived"
                              /\ visit'[w].tirage = NoTirage
      /\ \A x, w \in Visits : Asked(p, s, x) /\ Asked(p, s, w) => x = w
  <2>1. visit' \in [Visits -> VisitStates]
    BY DEF Turned
  <2>2. ASSUME NEW w \in Visits, Asked(p, s, w)
        PROVE visit'[w].page = p /\ visit'[w].pc = "arrived" /\ visit'[w].tirage = NoTirage
    <3>1. visit'[w] \in VisitStates /\ visit'[w].pc = "arrived" /\ visit'[w].page = p
      BY <2>1, <2>2 DEF Asked
    <3> QED
      BY <3>1, VisitFields
  <2>3. /\ \A w \in Visits : \/ visit'[w] = visit[w] /\ visit[w].page # p
                             \/ visit'[w] = IdleVisit
                             \/ Asked(p, s, w)
        /\ \A x, w \in Visits : Asked(p, s, x) /\ Asked(p, s, w) => x = w
    BY DEF Turned
  <2>4. \A w \in Visits : \/ visit'[w] = visit[w] /\ visit[w].page # p
                          \/ visit'[w] = IdleVisit
                          \/ Asked(p, s, w) /\ visit'[w].page = p /\ visit'[w].pc = "arrived"
                             /\ visit'[w].tirage = NoTirage
    BY <2>2, <2>3, Zenon
  <2> QED
    BY <2>1, <2>3, <2>4, Zenon
<1>5. /\ s.tirage # NoTirage => Recorded(s.tirage)
      /\ s.shown # NoTirage => Recorded(s.shown) /\ Tells(s)
      /\ s.pc = "reloading" => Agrees(list, s.tirage)
      /\ s.pc = "turning" => SameContent(s.list.segs, s.tirage) \/ s.list.version > s.tirage.version
  BY DEF Turned
<1>6. TypeOK'
  BY <1>1, <1>2, <1>4 DEF TypeOK
<1>7. RecordedInv'
  <2>1. \A w \in Visits : visit'[w].tirage # NoTirage => Recorded(visit'[w].tirage)
    BY <1>1, <1>3, <1>4 DEF RecordedInv
  <2>2. \A q \in Pages : page'[q].tirage # NoTirage => Recorded(page'[q].tirage)
    BY <1>1, <1>2, <1>5 DEF RecordedInv
  <2>3. \A q \in Pages : page'[q].shown # NoTirage => Recorded(page'[q].shown)
    BY <1>1, <1>2, <1>5 DEF RecordedInv, AnnouncedIsRecorded, Recorded
  <2> QED
    BY <1>1, <2>1, <2>2, <2>3 DEF RecordedInv, AnnouncedIsRecorded, Recorded
<1>8. RequestsInv'
  <2>1. \A x, w \in Visits : x # w /\ visit'[x].page # NoPage => visit'[x].page # visit'[w].page
    BY <1>1, <1>2, <1>3, <1>4 DEF RequestsInv
  <2>2. ASSUME NEW w \in Visits, visit'[w].page # NoPage
        PROVE page'[visit'[w].page].pc \in
                (IF visit'[w].kind = "spin" THEN {"posting"} ELSE {"loading", "reloading"})
    <3>1. CASE Asked(p, s, w)
      BY <1>2, <3>1 DEF Asked
    <3>2. CASE ~Asked(p, s, w)
      <4>1. visit'[w] = visit[w] /\ visit[w].page # p /\ visit[w].page \in Pages
        BY <1>2, <1>3, <1>4, <2>2, <3>2, VisitFields DEF Visitors
      <4> QED
        BY <1>1, <1>2, <2>2, <4>1 DEF RequestsInv
    <3> QED
      BY <3>1, <3>2
  <2> QED
    BY <2>1, <2>2 DEF RequestsInv
<1>9. VersionsInv'
  <2>1. \A w \in Visits : visit'[w].pc \in {"listed", "counted"} =>
          visit'[w].list = list \/ visit'[w].list.version < list.version
    BY <1>1, <1>3, <1>4 DEF VersionsInv
  <2>2. \A w \in Visits : visit'[w].tirage # NoTirage => Agrees(list, visit'[w].tirage)
    BY <1>1, <1>3, <1>4 DEF VersionsInv
  <2>3. \A q \in Pages : page'[q].pc = "reloading" => Agrees(list, page'[q].tirage)
    BY <1>1, <1>2, <1>5 DEF VersionsInv
  <2> QED
    BY <1>1, <2>1, <2>2, <2>3 DEF VersionsInv, Agrees
<1>10. PointerInv'
  <2>1. \A w \in Visits, q \in Pages :
          page'[q].pc = "reloading" /\ visit'[w].page = q /\ visit'[w].pc = "answered" =>
            Agrees(visit'[w].list, page'[q].tirage)
    BY <1>1, <1>2, <1>3, <1>4 DEF PointerInv, Answered
  <2>2. \A q \in Pages : page'[q].pc = "turning" =>
          SameContent(page'[q].list.segs, page'[q].tirage) \/ page'[q].list.version > page'[q].tirage.version
    BY <1>1, <1>2, <1>5 DEF PointerInv
  <2>3. \A q \in Pages : page'[q].shown # NoTirage => Tells(page'[q])
    BY <1>1, <1>2, <1>5 DEF PointerInv, PointerOffOnlyWhenEdited, PointerTells, Tells
  <2>4. PointerOffOnlyWhenEdited'
    BY <2>3 DEF PointerOffOnlyWhenEdited, PointerTells, Tells
  <2> QED
    BY <2>1, <2>2, <2>4 DEF PointerInv, Answered, Agrees
<1>11. CapInv'
  <2>1. \A w \in Visits : visit'[w].pc = "counted" => visit[w].pc = "counted"
    BY <1>3, <1>4
  <2> QED
    BY <1>1, <2>1, CapKept DEF IndInv
<1> QED
  BY <1>6, <1>7, <1>8, <1>9, <1>10, <1>11 DEF IndInv

\* A page has one request at most, and none while it waits for nothing.
LEMMA Alone ==
  ASSUME IndInv, NEW p \in Pages
  PROVE /\ \A v \in Visits : visit[v].page = p =>
             /\ \A w \in Visits : w # v => visit[w].page # p
             /\ page[p].pc \in (IF visit[v].kind = "spin" THEN {"posting"} ELSE {"loading", "reloading"})
        /\ page[p].pc \in {"closed", "ready", "turning"} => \A w \in Visits : visit[w].page # p
  BY PagesAssumption DEF IndInv, RequestsInv

\* PageStepKeeps for the end of a request of the page.
LEMMA EndKeeps ==
  ASSUME IndInv, NEW p \in Pages, NEW s \in PageStates, NEW v \in Visits,
         page' = [page EXCEPT ![p] = s],
         visit[v].page = p, visit' = [visit EXCEPT ![v] = IdleVisit],
         UNCHANGED <<shared, list, spins, old>>,
         s.tirage # NoTirage => Recorded(s.tirage),
         s.shown = NoTirage, s.pc # "reloading",
         s.pc = "turning" => SameContent(s.list.segs, s.tirage) \/ s.list.version > s.tirage.version
  PROVE IndInv'
<1>1. visit' \in [Visits -> VisitStates]
  BY NullFacts DEF IndInv, TypeOK
<1>2. \A w \in Visits : (visit'[w] = visit[w] /\ visit[w].page # p) \/ visit'[w] = IdleVisit
  BY Alone DEF IndInv, TypeOK
<1>3. \A w \in Visits : ~Asked(p, s, w)
  BY <1>2, PagesAssumption DEF Asked, IdleVisit
<1>4. Turned(p, s)
  BY <1>1, <1>2, <1>3 DEF Turned
<1> QED
  BY <1>4, PageStepKeeps

\* PageStepKeeps for a step that makes a request.
LEMMA AskKeeps ==
  ASSUME IndInv, NEW p \in Pages, NEW s \in PageStates, NEW v \in Visits, NEW k \in {"load", "spin"},
         page' = [page EXCEPT ![p] = s],
         visit' = [visit EXCEPT ![v] = Request(p, k)],
         \A w \in Visits : w # v => visit[w].page # p,
         UNCHANGED <<shared, list, spins, old>>,
         s.pc = IF k = "spin" THEN "posting" ELSE "reloading",
         s.tirage # NoTirage => Recorded(s.tirage),
         s.shown = NoTirage,
         s.pc = "reloading" => Agrees(list, s.tirage)
  PROVE IndInv'
<1> DEFINE r == [pc |-> "arrived", page |-> p, kind |-> k, list |-> NoList, tirage |-> NoTirage]
<1>1. r \in VisitStates /\ r.page = p /\ r.pc = "arrived" /\ r.kind = k
  BY VisitMade, PagesAssumption
<1>2. Request(p, k) = r
  BY RequestMade
<1> HIDE DEF r
<1>3. /\ visit' \in [Visits -> VisitStates] /\ visit'[v] = r
      /\ \A w \in Visits : w # v => visit'[w] = visit[w]
  BY <1>1, <1>2 DEF IndInv, TypeOK
<1>4. Asked(p, s, v)
  BY <1>1, <1>3 DEF Asked
<1>5. \A w \in Visits : w # v => visit'[w] = visit[w] /\ visit[w].page # p /\ ~Asked(p, s, w)
  BY <1>3 DEF Asked
<1>6. Turned(p, s)
  BY <1>3, <1>4, <1>5 DEF Turned
<1> QED
  BY <1>6, PageStepKeeps

\* The first list of a page.
LEMMA LoadedKeeps ==
  ASSUME IndInv, NEW p \in Pages, NEW v \in Visits, Loaded(p, v)
  PROVE IndInv'
<1> DEFINE l == visit[v].list
           c == IF Len(l.segs) < 2 THEN "closed" ELSE "ready"
           s == [pc |-> c, list |-> l, rotation |-> page[p].rotation, tirage |-> NoTirage, shown |-> NoTirage]
<1>1. page[p] \in PageStates /\ visit[v] \in VisitStates /\ page[p].pc = "loading" /\ visit[v].page = p
  BY DEF IndInv, TypeOK, Loaded, Answered
<1>2. /\ page[p].tirage = NoTirage /\ page[p].shown = NoTirage /\ page[p].rotation \in 0..Circle - 1
      /\ l \in Versions \cup {NoList} /\ NoTirage \in Tirages \cup {NoTirage}
  BY <1>1, PageFields, VisitFields
<1>3. c = "closed" \/ (c = "ready" /\ l # NoList)
  BY NullFacts
<1> HIDE DEF l, c
<1>4. s \in PageStates
  BY <1>2, <1>3, PageMade
<1>5. [page[p] EXCEPT !.pc = c, !.list = l] = s
  <2>1. [page[p] EXCEPT !.pc = c, !.list = l] =
          [pc |-> c, list |-> l, rotation |-> page[p].rotation, tirage |-> page[p].tirage, shown |-> page[p].shown]
    BY <1>1, ListedPage, Zenon
  <2> QED
    BY <1>2, <2>1
<1>6. /\ page' = [page EXCEPT ![p] = s] /\ visit' = [visit EXCEPT ![v] = IdleVisit]
      /\ UNCHANGED <<shared, list, spins, old>>
  BY <1>5 DEF Loaded, l, c
<1>7. s.tirage = NoTirage /\ s.shown = NoTirage /\ s.pc \in {"closed", "ready"}
  BY <1>3
<1> HIDE DEF s
<1> QED
  BY <1>1, <1>4, <1>6, <1>7, EndKeeps

\* The first load has failed.
LEMMA NotLoadedKeeps ==
  ASSUME IndInv, NEW p \in Pages, NEW v \in Visits, NotLoaded(p, v)
  PROVE IndInv'
<1> DEFINE s == [pc |-> "closed", list |-> page[p].list, rotation |-> page[p].rotation,
                 tirage |-> NoTirage, shown |-> NoTirage]
<1>1. page[p] \in PageStates /\ page[p].pc = "loading" /\ visit[v].page = p
  BY DEF IndInv, TypeOK, NotLoaded, Failed
<1>2. /\ page[p].tirage = NoTirage /\ page[p].shown = NoTirage /\ page[p].rotation \in 0..Circle - 1
      /\ page[p].list \in Versions \cup {NoList} /\ NoTirage \in Tirages \cup {NoTirage}
  BY <1>1, PageFields
<1>3. s \in PageStates
  BY <1>2, PageMade
<1>4. [page[p] EXCEPT !.pc = "closed"] = s
  BY <1>1, <1>2, MovedPage
<1>5. /\ page' = [page EXCEPT ![p] = s] /\ visit' = [visit EXCEPT ![v] = IdleVisit]
      /\ UNCHANGED <<shared, list, spins, old>>
  BY <1>4 DEF NotLoaded
<1>6. s.tirage = NoTirage /\ s.shown = NoTirage /\ s.pc = "closed"
  OBVIOUS
<1> HIDE DEF s
<1> QED
  BY <1>1, <1>3, <1>5, <1>6, EndKeeps

\* A spin or a reload has failed.
LEMMA GiveUpKeeps ==
  ASSUME IndInv, NEW p \in Pages, NEW v \in Visits, GiveUp(p, v)
  PROVE IndInv'
<1> DEFINE s == [pc |-> "ready", list |-> page[p].list, rotation |-> page[p].rotation,
                 tirage |-> NoTirage, shown |-> NoTirage]
<1>1. page[p] \in PageStates /\ page[p].pc \in {"posting", "reloading"} /\ visit[v].page = p
  BY DEF IndInv, TypeOK, GiveUp, Failed
<1>2. /\ page[p].shown = NoTirage /\ page[p].rotation \in 0..Circle - 1
      /\ page[p].list \in Versions /\ NoTirage \in Tirages \cup {NoTirage}
  BY <1>1, PageFields
<1>3. page[p].list # NoList
  BY <1>2, VersionFacts
<1>4. s \in PageStates
  BY <1>2, <1>3, PageMade
<1>5. [page[p] EXCEPT !.pc = "ready", !.tirage = NoTirage] = s
  <2>1. [page[p] EXCEPT !.pc = "ready", !.tirage = NoTirage] =
          [pc |-> "ready", list |-> page[p].list, rotation |-> page[p].rotation,
           tirage |-> NoTirage, shown |-> page[p].shown]
    BY <1>1, ToldPage, Zenon
  <2> QED
    BY <1>2, <2>1
<1>6. /\ page' = [page EXCEPT ![p] = s] /\ visit' = [visit EXCEPT ![v] = IdleVisit]
      /\ UNCHANGED <<shared, list, spins, old>>
  BY <1>5 DEF GiveUp
<1>7. s.tirage = NoTirage /\ s.shown = NoTirage /\ s.pc = "ready"
  OBVIOUS
<1> HIDE DEF s
<1> QED
  BY <1>1, <1>4, <1>6, <1>7, EndKeeps

\* A click takes the last announcement away.
LEMMA ClickKeeps ==
  ASSUME IndInv, NEW p \in Pages, NEW v \in Visits, Click(p, v)
  PROVE IndInv'
<1> DEFINE s == [pc |-> "posting", list |-> page[p].list, rotation |-> page[p].rotation,
                 tirage |-> NoTirage, shown |-> NoTirage]
<1>1. page[p] \in PageStates /\ page[p].pc = "ready"
  BY DEF IndInv, TypeOK, Click
<1>2. /\ page[p].tirage = NoTirage /\ page[p].rotation \in 0..Circle - 1
      /\ page[p].list \in Versions /\ NoTirage \in Tirages \cup {NoTirage}
  BY <1>1, PageFields
<1>3. page[p].list # NoList
  BY <1>2, VersionFacts
<1>4. s \in PageStates
  BY <1>2, <1>3, PageMade
<1>5. [page[p] EXCEPT !.pc = "posting", !.shown = NoTirage] = s
  <2>1. [page[p] EXCEPT !.pc = "posting", !.shown = NoTirage] =
          [pc |-> "posting", list |-> page[p].list, rotation |-> page[p].rotation,
           tirage |-> page[p].tirage, shown |-> NoTirage]
    BY <1>1, ClickedPage, Zenon
  <2> QED
    BY <1>2, <2>1
<1>6. /\ page' = [page EXCEPT ![p] = s] /\ visit' = [visit EXCEPT ![v] = Request(p, "spin")]
      /\ UNCHANGED <<shared, list, spins, old>>
  BY <1>5 DEF Click
<1>7. s.tirage = NoTirage /\ s.shown = NoTirage /\ s.pc = "posting"
  OBVIOUS
<1>8. \A w \in Visits : visit[w].page # p
  BY <1>1, Alone
<1> HIDE DEF s
<1> QED
  BY <1>4, <1>6, <1>7, <1>8, AskKeeps

\* The draw has been told to the page that asked for it.
LEMMA ReceiveKeeps ==
  ASSUME IndInv, NEW p \in Pages, NEW v \in Visits, Receive(p, v)
  PROVE IndInv'
<1> DEFINE t == visit[v].tirage
           s(pc) == [pc |-> pc, list |-> page[p].list, rotation |-> page[p].rotation,
                     tirage |-> t, shown |-> NoTirage]
<1>1. /\ page[p] \in PageStates /\ visit[v] \in VisitStates /\ page[p].pc = "posting"
      /\ visit[v].page = p /\ visit[v].pc = "answered"
  BY DEF IndInv, TypeOK, Receive, Answered
<1>2. visit[v].kind = "spin"
  <2>1. visit[v].kind = "load" => page[p].pc \in {"loading", "reloading"}
    BY <1>1, Alone
  <2> QED
    BY <1>1, <2>1, VisitFields
<1>3. /\ page[p].shown = NoTirage /\ page[p].rotation \in 0..Circle - 1
      /\ page[p].list \in Versions /\ t \in Tirages
  BY <1>1, <1>2, PageFields, VisitFields
<1>4. page[p].list # NoList /\ t # NoTirage /\ NoTirage \in Tirages \cup {NoTirage}
  BY <1>3, VersionFacts, NullFacts
<1>5. Recorded(t) /\ Agrees(list, t)
  BY <1>4 DEF IndInv, RecordedInv, VersionsInv
<1> HIDE DEF t
<1>6. ASSUME NEW pc \in {"turning", "reloading"}
      PROVE /\ s(pc) \in PageStates
            /\ [page[p] EXCEPT !.pc = pc, !.tirage = t] = s(pc)
            /\ s(pc).pc = pc /\ s(pc).tirage = t /\ s(pc).shown = NoTirage /\ s(pc).list = page[p].list
  <2>1. s(pc) \in PageStates
    BY <1>3, <1>4, PageMade
  <2>2. [page[p] EXCEPT !.pc = pc, !.tirage = t] =
          [pc |-> pc, list |-> page[p].list, rotation |-> page[p].rotation, tirage |-> t, shown |-> page[p].shown]
    <3>1. page[p] \in PageStates
      BY <1>1
    <3> HIDE DEF s
    <3> QED
      BY <3>1, ToldPage, Zenon
  <2>3. [page[p] EXCEPT !.pc = pc, !.tirage = t] = s(pc)
    BY <1>3, <2>2
  <2>4. s(pc).pc = pc /\ s(pc).tirage = t /\ s(pc).shown = NoTirage /\ s(pc).list = page[p].list
    OBVIOUS
  <2> QED
    BY <2>1, <2>3, <2>4, Zenon
<1>7. CASE SameContent(page[p].list.segs, t)
  <2>1. /\ page' = [page EXCEPT ![p] = s("turning")] /\ visit' = [visit EXCEPT ![v] = IdleVisit]
        /\ UNCHANGED <<shared, list, spins, old>>
    BY <1>6, <1>7 DEF Receive, t
  <2> HIDE DEF s
  <2>2. SameContent(s("turning").list.segs, s("turning").tirage)
    BY <1>6, <1>7
  <2> QED
    BY <1>1, <1>5, <1>6, <2>1, <2>2, EndKeeps
<1>8. CASE ~SameContent(page[p].list.segs, t)
  <2>1. /\ page' = [page EXCEPT ![p] = s("reloading")] /\ visit' = [visit EXCEPT ![v] = Request(p, "load")]
        /\ UNCHANGED <<shared, list, spins, old>>
    BY <1>6, <1>8 DEF Receive, t
  <2>2. \A w \in Visits : w # v => visit[w].page # p
    BY <1>1, Alone
  <2> HIDE DEF s
  <2> QED
    BY <1>5, <1>6, <2>1, <2>2, AskKeeps
<1> QED
  BY <1>7, <1>8

\* What the reload has brought is of the draw's save, or of a later one.
LEMMA ReloadedKeeps ==
  ASSUME IndInv, NEW p \in Pages, NEW v \in Visits, Reloaded(p, v)
  PROVE IndInv'
<1> DEFINE l == visit[v].list
           t == page[p].tirage
           s == [pc |-> "turning", list |-> l, rotation |-> page[p].rotation, tirage |-> t, shown |-> NoTirage]
<1>1. /\ page[p] \in PageStates /\ visit[v] \in VisitStates /\ page[p].pc = "reloading"
      /\ visit[v].page = p /\ Answered(p, v)
  BY DEF IndInv, TypeOK, Reloaded, Answered
<1>2. /\ page[p].shown = NoTirage /\ page[p].rotation \in 0..Circle - 1
      /\ l \in Versions \cup {NoList} /\ t \in Tirages
  BY <1>1, PageFields, VisitFields
<1>3. Agrees(l, t)
  BY <1>1 DEF IndInv, PointerInv
<1>4. l # NoList
  BY <1>2, <1>3, NullFacts, LimitsAssumption DEF Agrees, Tirages
<1>5. t # NoTirage /\ NoTirage \in Tirages \cup {NoTirage}
  BY <1>2, NullFacts
<1>6. Recorded(t)
  BY <1>5 DEF IndInv, RecordedInv
<1> HIDE DEF l, t
<1>7. s \in PageStates
  BY <1>2, <1>4, <1>5, PageMade
<1>8. [page[p] EXCEPT !.pc = "turning", !.list = l] = s
  <2>1. [page[p] EXCEPT !.pc = "turning", !.list = l] =
          [pc |-> "turning", list |-> l, rotation |-> page[p].rotation,
           tirage |-> page[p].tirage, shown |-> page[p].shown]
    BY <1>1, ListedPage, Zenon
  <2> QED
    BY <1>2, <2>1 DEF t
<1>9. /\ page' = [page EXCEPT ![p] = s] /\ visit' = [visit EXCEPT ![v] = IdleVisit]
      /\ UNCHANGED <<shared, list, spins, old>>
  BY <1>8 DEF Reloaded, l
<1>10. /\ s.tirage = t /\ s.shown = NoTirage /\ s.pc = "turning"
       /\ SameContent(s.list.segs, s.tirage) \/ s.list.version > s.tirage.version
  BY <1>3 DEF Agrees
<1> HIDE DEF s
<1> QED
  BY <1>1, <1>6, <1>7, <1>9, <1>10, EndKeeps

\* A step of a page that has no request.
LEMMA RestKeeps ==
  ASSUME IndInv, NEW p \in Pages, NEW s \in PageStates,
         page' = [page EXCEPT ![p] = s],
         UNCHANGED <<shared, list, spins, old, visit>>,
         \A w \in Visits : visit[w].page # p,
         s.tirage = NoTirage, s.pc = "ready",
         s.shown # NoTirage => Recorded(s.shown) /\ Tells(s)
  PROVE IndInv'
<1>1. \A w \in Visits : ~Asked(p, s, w)
  BY DEF Asked
<1>2. visit' \in [Visits -> VisitStates]
  BY DEF IndInv, TypeOK
<1>3. Turned(p, s)
  BY <1>1, <1>2 DEF Turned
<1> QED
  BY <1>3, PageStepKeeps

\* The wheel stops on what the page has received, unless the list is newer.
LEMMA LandKeeps ==
  ASSUME IndInv, NEW p \in Pages, Land(p)
  PROVE IndInv'
<1> DEFINE t == page[p].tirage
           segs == page[p].list.segs
           n == Len(segs)
<1>1. page[p] \in PageStates /\ page[p].pc = "turning"
  BY DEF IndInv, TypeOK, Land
<1>2. /\ page[p].rotation \in 0..Circle - 1 /\ page[p].list \in Versions /\ t \in Tirages
      /\ Circle \in Nat \ {0}
  BY <1>1, PageFields, CircleAssumption
<1>3. /\ t # NoTirage /\ page[p].list # NoList /\ n \in Counts
      /\ t.index \in Nat /\ t.version \in Nat
  BY <1>2, NullFacts, VersionFacts, LimitsAssumption DEF Tirages
<1>4. Recorded(t)
  BY <1>3 DEF IndInv, RecordedInv
<1>5. SameContent(segs, t) \/ page[p].list.version > t.version
  BY <1>1 DEF IndInv, PointerInv
<1>6. \A w \in Visits : visit[w].page # p
  BY <1>1, Alone
<1>7. PICK tours \in Turns :
        page' = [page EXCEPT ![p] =
                   [page[p] EXCEPT !.pc = "ready", !.tirage = NoTirage, !.shown = page[p].tirage,
                                   !.rotation = Landing(page[p].rotation, t.index, n, tours)]]
  BY DEF Land
<1> DEFINE g == Landing(page[p].rotation, t.index, n, tours)
           s == [pc |-> "ready", list |-> page[p].list, rotation |-> g, tirage |-> NoTirage, shown |-> t]
<1>8. page[p].rotation \in Int /\ tours \in Int
  BY <1>2 DEF Turns
<1>9. g \in 0..Circle - 1
  BY <1>3, <1>8, LandingInTurn
<1>10. SameContent(segs, t) => UnderPointer(g, n) = t.index /\ segs[t.index + 1] = t.content
  <2>1. ASSUME SameContent(segs, t)
        PROVE t.index \in 0..n - 1 /\ segs[t.index + 1] = t.content
    <3>1. n \in Nat
      BY <1>3, ArcFacts
    <3> QED
      BY <1>3, <2>1, <3>1 DEF SameContent
  <2>2. t.index \in 0..n - 1 => UnderPointer(g, n) = t.index
    BY <1>3, <1>8, LandsUnderPointer
  <2> QED
    BY <2>1, <2>2
<1>11. [page[p] EXCEPT !.pc = "ready", !.tirage = NoTirage, !.shown = page[p].tirage, !.rotation = g] = s
  <2>1. page[p] \in PageStates
    BY <1>1
  <2> HIDE DEF g, t
  <2>2. [page[p] EXCEPT !.pc = "ready", !.tirage = NoTirage, !.shown = page[p].tirage, !.rotation = g] =
          [pc |-> "ready", list |-> page[p].list, rotation |-> g, tirage |-> NoTirage, shown |-> page[p].tirage]
    BY <2>1, LandedPage, Zenon
  <2> QED
    BY <2>2, Zenon DEF t
<1>12. page' = [page EXCEPT ![p] = s] /\ UNCHANGED <<shared, list, spins, old, visit>>
  BY <1>7, <1>11 DEF Land
<1> HIDE DEF g, t, n, segs
<1>13. s \in PageStates
  <2>1. t \in Tirages \cup {NoTirage}
    BY <1>2
  <2> QED
    BY <1>2, <1>3, <1>9, <2>1, PageMade
<1>14. Tells(s)
  BY <1>5, <1>10 DEF Tells, n, segs
<1>15. s.tirage = NoTirage /\ s.pc = "ready" /\ s.shown = t
  OBVIOUS
<1> HIDE DEF s
<1> QED
  BY <1>4, <1>6, <1>12, <1>13, <1>14, <1>15, RestKeeps

\* An announcement is closed.
LEMMA DismissKeeps ==
  ASSUME IndInv, NEW p \in Pages, Dismiss(p)
  PROVE IndInv'
<1> DEFINE s == [pc |-> "ready", list |-> page[p].list, rotation |-> page[p].rotation,
                 tirage |-> NoTirage, shown |-> NoTirage]
<1>1. page[p] \in PageStates /\ page[p].shown # NoTirage
  BY DEF IndInv, TypeOK, Dismiss
<1>2. /\ page[p].pc = "ready" /\ page[p].tirage = NoTirage /\ page[p].rotation \in 0..Circle - 1
      /\ page[p].list \in Versions /\ NoTirage \in Tirages \cup {NoTirage}
  BY <1>1, PageFields
<1>3. page[p].list # NoList
  BY <1>2, VersionFacts
<1>4. s \in PageStates
  BY <1>2, <1>3, PageMade
<1>5. [page[p] EXCEPT !.shown = NoTirage] = s
  BY <1>1, <1>2, DismissedPage
<1>6. page' = [page EXCEPT ![p] = s] /\ UNCHANGED <<shared, list, spins, old, visit>>
  BY <1>5 DEF Dismiss
<1>7. \A w \in Visits : visit[w].page # p
  BY <1>2, Alone
<1>8. s.tirage = NoTirage /\ s.shown = NoTirage /\ s.pc = "ready"
  OBVIOUS
<1> HIDE DEF s
<1> QED
  BY <1>4, <1>6, <1>7, <1>8, RestKeeps

-----------------------------------------------------------------------------
(* Theorems                                                                *)

\* Nothing is saved, asked or announced at first.
LEMMA StartsRight == Init => IndInv
<1> SUFFICES ASSUME Init PROVE IndInv
  OBVIOUS
<1>1. /\ IdleVisit.pc = "idle" /\ IdleVisit.page = NoPage /\ IdleVisit.tirage = NoTirage
      /\ ClosedPage.pc = "closed" /\ ClosedPage.tirage = NoTirage /\ ClosedPage.shown = NoTirage
  BY DEF IdleVisit, ClosedPage
<1>2. /\ \A v \in Visits : visit[v] = IdleVisit
      /\ \A p \in Pages : page[p] = ClosedPage
  BY DEF Init
<1>3. TypeOK
  BY NullFacts DEF Init, TypeOK
<1>4. RecordedInv /\ RequestsInv
  BY <1>1, <1>2 DEF RecordedInv, AnnouncedIsRecorded, RequestsInv
<1>5. VersionsInv
  BY <1>1, <1>2 DEF VersionsInv
<1>6. PointerInv
  BY <1>1, <1>2 DEF PointerInv, PointerOffOnlyWhenEdited
<1>7. CapInv
  <2>1. Counted = {} /\ Recent = 0
    BY <1>1, <1>2 DEF Counted, Recent, Init
  <2>2. Cardinality(Counted) = 0
    BY <2>1, FS_EmptySet
  <2> QED
    BY <1>3, <2>1, <2>2, CountFacts, LimitsAssumption DEF CapInv
<1> QED
  BY <1>3, <1>4, <1>5, <1>6, <1>7 DEF IndInv

\* One step of any actor, put together from the lemmas.
LEMMA StepsRight == IndInv /\ [Next]_vars => IndInv'
<1> SUFFICES ASSUME IndInv, [Next]_vars PROVE IndInv'
  OBVIOUS
<1>1. CASE OwnerStep
  BY <1>1, SaveKeeps, StillKeeps DEF OwnerStep
<1>2. ASSUME NEW v \in Visits, QuietStep(v)
      PROVE IndInv'
  BY <1>2, QuietSteps, QuietKeeps DEF IndInv
<1>3. CASE \E v \in Visits : VisitStep(v) \/ Drop(v) \/ Break(v)
  BY <1>2, <1>3, InsertKeeps DEF VisitStep, QuietStep
<1>4. CASE GrowOld \/ UNCHANGED vars
  BY <1>4, StillKeeps
<1>5. ASSUME NEW p \in Pages, PageStep(p) \/ Dismiss(p) \/ \E v \in Visits : Open(p, v) \/ Click(p, v)
      PROVE IndInv'
  BY <1>5, LoadedKeeps, NotLoadedKeeps, ReceiveKeeps, ReloadedKeeps, GiveUpKeeps, LandKeeps,
     DismissKeeps, OpenKeeps, ClickKeeps DEF PageStep
<1> QED
  BY <1>1, <1>3, <1>4, <1>5 DEF Next

\* The invariant holds for ever.
LEMMA Invariance == Spec => []IndInv
  BY StartsRight, StepsRight, PTL DEF Spec

\* Whatever is opened, spun, lost, refused, edited or abandoned, the row, the
\* requests and the pages keep their types; a request that draws has a list of
\* two segments or more.
THEOREM TypeCorrect == Spec => []TypeOK
<1>1. IndInv => TypeOK
  BY DEF IndInv
<1> QED
  BY <1>1, Invariance, PTL

\* What a page announces is in the history of the wheel, index and label.
THEOREM AnnouncementsRecorded == Spec => []AnnouncedIsRecorded
<1>1. IndInv => AnnouncedIsRecorded
  BY DEF IndInv, RecordedInv
<1> QED
  BY <1>1, Invariance, PTL

\* The pointer of a page never contradicts what it announces, unless the wheel
\* was saved between the draw and the reload.
THEOREM PointerRight == Spec => []PointerOffOnlyWhenEdited
<1>1. IndInv => PointerOffOnlyWhenEdited
  BY DEF IndInv, PointerInv
<1> QED
  BY <1>1, Invariance, PTL

\* However many spins are in progress when the cap is reached, only the others
\* than the one that reaches it can go past it.
THEOREM CapOvershoot == Spec => []SpinCapOvershoot
<1>1. IndInv => SpinCapOvershoot
  <2> SUFFICES ASSUME IndInv PROVE SpinCapOvershoot
    OBVIOUS
  <2>1. TypeOK /\ CapInv
    BY DEF IndInv
  <2> QED
    BY <2>1, CountFacts, LimitsAssumption DEF CapInv, SpinCapOvershoot
<1> QED
  BY <1>1, Invariance, PTL

(***************************************************************************)
(* The wheel implements Draws. A request keeps its list from the statement *)
(* that reads it to the draw, and what a page is about to announce is with *)
(* its only request or in the page: so that a step of a request changes    *)
(* one list and one draw at most, and a step of a page hands its draw on.  *)
(***************************************************************************)

\* What a step of Draws looks like in terms of requests and pages.
DrawsStep == [Promise!DrawsNext]_(Promise!drawsVars)

SameSeen == \A v \in Visits : Seen(visit'[v]) = Seen(visit[v])

\* A request of a page that may carry a draw is as before.
SameCarried(q) ==
  \A w \in Visits :
    (visit[w].page = q /\ visit[w].tirage # NoTirage) \/ (visit'[w].page = q /\ visit'[w].tirage # NoTirage) =>
      visit'[w].page = visit[w].page /\ visit'[w].tirage = visit[w].tirage

\* What is owed to a page, and after a step.
LEMMA OwedFacts ==
  ASSUME NEW p \in Pages
  PROVE /\ \A t : (t \in Owed(p)) =
             (t # NoTirage /\ (t = page[p].tirage \/ \E w \in Visits : visit[w].page = p /\ visit[w].tirage = t))
        /\ \A t : (t \in Owed(p)') =
             (t # NoTirage /\ (t = page'[p].tirage \/ \E w \in Visits : visit'[w].page = p /\ visit'[w].tirage = t))
  BY DEF Owed

\* Pages whose requests carry the same draws are owed the same.
LEMMA OwedKept ==
  ASSUME NEW q \in Pages, page'[q].tirage = page[q].tirage, SameCarried(q)
  PROVE Owed(q)' = Owed(q)
<1>1. ASSUME NEW t PROVE (t \in Owed(q)') = (t \in Owed(q))
  <2>1. (t \in Owed(q)') => (t \in Owed(q))
    BY OwedFacts DEF SameCarried
  <2>2. (t \in Owed(q)) => (t \in Owed(q)')
    BY OwedFacts DEF SameCarried
  <2> QED
    BY <2>1, <2>2 DEF Owed
<1> QED
  BY <1>1

\* A page that has nothing, and whose requests carry nothing, is owed nothing.
LEMMA NothingOwed ==
  ASSUME NEW p \in Pages
  PROVE /\ page[p].tirage = NoTirage /\ (\A w \in Visits : visit[w].page = p => visit[w].tirage = NoTirage)
             => Owed(p) = {}
        /\ page'[p].tirage = NoTirage /\ (\A w \in Visits : visit'[w].page = p => visit'[w].tirage = NoTirage)
             => Owed(p)' = {}
  BY OwedFacts

\* The variables of Draws that a step leaves alone.
LEMMA SeenKept ==
  ASSUME SameSeen
  PROVE [v \in Visits |-> Seen(visit[v])]' = [v \in Visits |-> Seen(visit[v])]
  BY DEF SameSeen, Seen

LEMMA ShownKept ==
  ASSUME \A q \in Pages : page'[q].shown = page[q].shown
  PROVE [q \in Pages |-> page[q].shown]' = [q \in Pages |-> page[q].shown]
  OBVIOUS

LEMMA OwedAllKept ==
  ASSUME \A q \in Pages : Owed(q)' = Owed(q)
  PROVE [q \in Pages |-> Owed(q)]' = [q \in Pages |-> Owed(q)]
  OBVIOUS

\* A step after which a page is owed nothing and shows nothing is Drop; one
\* after which it shows what it had is Announce; the others do not show.
LEMMA PageDraws ==
  ASSUME TypeOK, NEW p \in Pages, NEW s, page' = [page EXCEPT ![p] = s],
         UNCHANGED <<list, spins>>, SameSeen,
         \A q \in Pages : q # p => SameCarried(q),
         \/ s.tirage = NoTirage /\ s.shown = NoTirage
              /\ \A w \in Visits : visit'[w].page = p => visit'[w].tirage = NoTirage
         \/ s.shown = page[p].shown /\ Owed(p)' = Owed(p)
         \/ s.shown = page[p].tirage /\ page[p].tirage # NoTirage /\ s.tirage = NoTirage
              /\ \A w \in Visits : visit'[w].page = p => visit'[w].tirage = NoTirage
  PROVE DrawsStep
<1> DEFINE seen  == [v \in Visits |-> Seen(visit[v])]
           owed  == [q \in Pages |-> Owed(q)]
           shown == [q \in Pages |-> page[q].shown]
<1>1. /\ page'[p] = s /\ \A q \in Pages : q # p => page'[q] = page[q]
      /\ page' \in [Pages -> {page'[q] : q \in Pages}]
  BY DEF TypeOK
<1>2. \A q \in Pages : q # p => Owed(q)' = Owed(q)
  BY <1>1, OwedKept
<1>3. seen' = seen
  BY SeenKept
<1>4. shown' = [shown EXCEPT ![p] = s.shown]
  BY <1>1
<1>5. owed' = [owed EXCEPT ![p] = Owed(p)']
  BY <1>2
<1>6. CASE s.tirage = NoTirage /\ s.shown = NoTirage
             /\ \A w \in Visits : visit'[w].page = p => visit'[w].tirage = NoTirage
  <2>1. Owed(p)' = {}
    BY <1>1, <1>6, NothingOwed
  <2>2. Promise!Drop(p)
    BY <1>3, <1>4, <1>5, <1>6, <2>1 DEF Promise!Drop
  <2> QED
    BY <2>2 DEF DrawsStep, Promise!DrawsNext
<1>7. CASE s.shown = page[p].shown /\ Owed(p)' = Owed(p)
  <2>1. shown' = shown
    BY <1>1, <1>7, ShownKept
  <2>2. owed' = owed
    BY <1>2, <1>7, OwedAllKept
  <2> QED
    BY <1>3, <2>1, <2>2 DEF DrawsStep, Promise!drawsVars
<1>8. CASE s.shown = page[p].tirage /\ page[p].tirage # NoTirage /\ s.tirage = NoTirage
             /\ \A w \in Visits : visit'[w].page = p => visit'[w].tirage = NoTirage
  <2>1. Owed(p)' = {}
    BY <1>1, <1>8, NothingOwed
  <2>2. page[p].tirage \in owed[p]
    BY <1>8, OwedFacts
  <2>3. Promise!Announce(p)
    BY <1>3, <1>4, <1>5, <1>8, <2>1, <2>2 DEF Promise!Announce
  <2> QED
    BY <2>3 DEF DrawsStep, Promise!DrawsNext
<1> QED
  BY <1>6, <1>7, <1>8

\* A request that reads its list is See, one that gives it up Forget, and one
\* that loses its answer Drop.
LEMMA QuietDraws ==
  ASSUME IndInv, NEW v \in Visits, NEW r, Advanced(v, r)
  PROVE DrawsStep
<1> DEFINE seen  == [w \in Visits |-> Seen(visit[w])]
           owed  == [q \in Pages |-> Owed(q)]
           shown == [q \in Pages |-> page[q].shown]
<1>1. /\ visit[v] \in VisitStates /\ visit \in [Visits -> VisitStates]
      /\ visit'[v] = r /\ \A w \in Visits : w # v => visit'[w] = visit[w]
      /\ UNCHANGED <<list, spins, page>> /\ r.tirage = NoTirage
  BY DEF IndInv, TypeOK, Advanced
<1>2. r.pc \in {"listed", "counted"} =>
        (visit[v].pc = "found" /\ r.list = list) \/ (visit[v].pc = "listed" /\ r.list = visit[v].list)
  BY DEF Advanced
<1>3. seen' = [seen EXCEPT ![v] = Seen(r)]
  BY <1>1 DEF Seen
<1>4. shown' = shown
  BY <1>1, ShownKept
<1>5. CASE visit[v].tirage # NoTirage
  <2>0. visit[v].pc = "answered" /\ visit[v].kind = "spin" /\ visit[v].page \in Pages
    BY <1>1, <1>5, VisitFields DEF IdleVisit
  <2>1. PICK p \in Pages : p = visit[v].page
    BY <2>0
  <2>2. page[p].pc = "posting" /\ \A w \in Visits : w # v => visit[w].page # p
    BY <2>0, <2>1, Alone
  <2>3. page[p] \in PageStates
    BY <2>1 DEF IndInv, TypeOK
  <2>4. page[p].shown = NoTirage /\ page[p].tirage = NoTirage
    BY <2>2, <2>3, PageFields
  <2>5. SameSeen
    BY <1>1, <1>2, <2>0 DEF SameSeen, Seen
  <2>6. \A q \in Pages : q # p => SameCarried(q)
    BY <1>1, <2>1 DEF SameCarried
  <2>7. page' = [page EXCEPT ![p] = page[p]]
    BY <1>1 DEF IndInv, TypeOK
  <2>8. \A w \in Visits : visit'[w].page = p => visit'[w].tirage = NoTirage
    BY <1>1, <2>2
  <2> QED
    BY <1>1, <2>4, <2>5, <2>6, <2>7, <2>8, PageDraws DEF IndInv
<1>6. CASE visit[v].tirage = NoTirage
  <2>1. \A q \in Pages : SameCarried(q)
    BY <1>1, <1>6 DEF SameCarried
  <2>2. owed' = owed
    BY <1>1, <2>1, OwedKept, OwedAllKept
  <2>3. CASE Seen(r) = Seen(visit[v])
    <3>1. SameSeen
      BY <1>1, <2>3 DEF SameSeen
    <3> QED
      BY <1>1, <1>4, <2>2, <3>1, SeenKept DEF DrawsStep, Promise!drawsVars
  <2>4. CASE Seen(r) # Seen(visit[v]) /\ r.pc \in {"listed", "counted"}
    <3>1. Seen(visit[v]) = NoList /\ Seen(r) = list
      BY <1>2, <2>4 DEF Seen
    <3>2. Promise!See(v)
      BY <1>1, <1>3, <1>4, <2>2, <3>1 DEF Promise!See
    <3> QED
      BY <3>2 DEF DrawsStep, Promise!DrawsNext
  <2>5. CASE r.pc \notin {"listed", "counted"}
    <3>1. Seen(r) = NoList
      BY <2>5 DEF Seen
    <3>2. Promise!Forget(v)
      BY <1>1, <1>3, <1>4, <2>2, <3>1 DEF Promise!Forget
    <3> QED
      BY <3>2 DEF DrawsStep, Promise!DrawsNext
  <2> QED
    BY <2>3, <2>4, <2>5
<1> QED
  BY <1>5, <1>6

\* The draw of a request is Draw, from the list it has read, for its page or
\* for nobody.
LEMMA InsertDraws ==
  ASSUME IndInv, NEW v \in Visits, InsertSpin(v)
  PROVE DrawsStep
<1> DEFINE seen  == [w \in Visits |-> Seen(visit[w])]
           owed  == [q \in Pages |-> Owed(q)]
           shown == [q \in Pages |-> page[q].shown]
           p     == visit[v].page
<1>1. /\ visit \in [Visits -> VisitStates] /\ visit[v] \in VisitStates /\ visit[v].pc = "counted"
      /\ UNCHANGED <<list, page>>
  BY DEF IndInv, TypeOK, InsertSpin
<1>2. /\ visit[v].list \in Versions /\ visit[v].list # NoList /\ visit[v].kind = "spin"
      /\ visit[v].tirage = NoTirage /\ p \in Pages \cup {NoPage}
  BY <1>1, VisitFields, VersionFacts DEF Visitors
<1>3. PICK i \in 0..Len(visit[v].list.segs) - 1 :
        spins' = Append(spins, Drawn(v, i)) /\ visit' = Tell(v, Drawn(v, i))
  BY DEF InsertSpin
<1> DEFINE t    == Drawn(v, i)
           told == [pc |-> "answered", page |-> p, kind |-> "spin", list |-> NoList, tirage |-> t]
           r    == Kept(told)
<1>4. [visit[v] EXCEPT !.pc = "answered", !.list = NoList, !.tirage = t] = told
  <2> HIDE DEF t
  <2>1. [visit[v] EXCEPT !.pc = "answered", !.list = NoList, !.tirage = t] =
          [pc |-> "answered", page |-> visit[v].page, kind |-> visit[v].kind, list |-> NoList, tirage |-> t]
    BY <1>1, SettledVisit, Zenon
  <2> QED
    BY <1>2, <2>1
<1>5. visit' = [visit EXCEPT ![v] = r]
  BY <1>3, <1>4 DEF Tell, t
<1>6. t # NoTirage
  <2>1. t.id = Len(spins) + 1
    BY DEF Drawn
  <2>2. Len(spins) \in Nat /\ NoTirage.id = 0
    BY DEF IndInv, TypeOK, NoTirage
  <2> QED
    BY <2>1, <2>2
<1>7. /\ p = NoPage => r = IdleVisit
      /\ p # NoPage => r = told
  BY DEF Kept
<1>8. seen[v] = visit[v].list
  BY <1>1 DEF Seen
<1>9. Seen(r) = NoList
  <2>1. Seen(told) = NoList /\ Seen(IdleVisit) = NoList
    BY DEF Seen, IdleVisit
  <2> HIDE DEF told, r
  <2> QED
    BY <1>7, <2>1
<1>10. t = [id |-> Len(spins) + 1, index |-> i,
            content |-> seen[v].segs[i + 1], version |-> seen[v].version]
  BY <1>8 DEF Drawn
<1> HIDE DEF t, r
<1>11. visit'[v] = r /\ \A w \in Visits : w # v => visit'[w] = visit[w]
  BY <1>1, <1>5
<1>12. seen' = [seen EXCEPT ![v] = NoList]
  BY <1>9, <1>11 DEF Seen
<1>13. shown' = shown
  BY <1>1, ShownKept
<1>14. \/ owed' = owed
       \/ \E q \in Pages : owed[q] = {} /\ shown[q] = NoTirage /\ owed' = [owed EXCEPT ![q] = {t}]
  <2>1. CASE p = NoPage
    <3>1. r.page = NoPage /\ r.tirage = NoTirage
      BY <1>7, <2>1 DEF IdleVisit
    <3>2. \A q \in Pages : SameCarried(q)
      BY <1>2, <1>11, <3>1 DEF SameCarried
    <3> QED
      BY <1>1, <3>2, OwedKept, OwedAllKept
  <2>2. CASE p # NoPage
    <3>0. PICK q \in Pages : q = p
      BY <1>2, <2>2
    <3>1. visit[v].page = q /\ r.page = q /\ r.tirage = t
      BY <1>7, <2>2, <3>0
    <3>2. page[q].pc = "posting" /\ \A w \in Visits : w # v => visit[w].page # q
      BY <1>2, <3>1, Alone
    <3>3. page[q] \in PageStates
      BY DEF IndInv, TypeOK
    <3>4. page[q].shown = NoTirage /\ page[q].tirage = NoTirage
      BY <3>2, <3>3, PageFields
    <3>5. Owed(q) = {}
      BY <1>2, <3>1, <3>2, <3>4, NothingOwed
    <3>6. ASSUME NEW u PROVE (u \in Owed(q)') = (u = t)
      <4>1. (u \in Owed(q)') => u = t
        BY <1>1, <1>11, <3>1, <3>2, <3>4, OwedFacts
      <4>2. t \in Owed(q)'
        BY <1>1, <1>6, <1>11, <3>1, OwedFacts
      <4> QED
        BY <4>1, <4>2
    <3>7. Owed(q)' = {t}
      BY <3>6
    <3>8. \A o \in Pages : o # q => SameCarried(o)
      BY <1>2, <1>11, <3>1 DEF SameCarried
    <3>9. \A o \in Pages : o # q => Owed(o)' = Owed(o)
      BY <1>1, <3>8, OwedKept
    <3>10. owed' = [owed EXCEPT ![q] = {t}]
      BY <3>7, <3>9
    <3> QED
      BY <3>1, <3>4, <3>5, <3>10
  <2> QED
    BY <2>1, <2>2
<1>15. Promise!Draw(v, i)
  BY <1>1, <1>2, <1>3, <1>8, <1>10, <1>12, <1>13, <1>14 DEF Promise!Draw, t
<1>16. i \in 0..Len(seen[v].segs) - 1
  BY <1>8
<1> QED
  BY <1>15, <1>16 DEF DrawsStep, Promise!DrawsNext

\* The end of a request of a page, which draws from nothing any more.
LEMMA EndSeen ==
  ASSUME IndInv, NEW v \in Visits, NEW p \in Pages, visit[v].page = p,
         visit[v].pc \in {"answered", "failed"},
         visit' = [visit EXCEPT ![v] = IdleVisit]
  PROVE /\ SameSeen
        /\ \A q \in Pages : q # p => SameCarried(q)
        /\ \A w \in Visits : visit'[w].page # p
<1>1. /\ visit'[v] = IdleVisit /\ \A w \in Visits : w # v => visit'[w] = visit[w]
  BY DEF IndInv, TypeOK
<1>2. IdleVisit.page = NoPage /\ IdleVisit.pc = "idle" /\ IdleVisit.tirage = NoTirage
  BY DEF IdleVisit
<1>3. SameSeen
  BY <1>1, <1>2 DEF SameSeen, Seen
<1>4. \A q \in Pages : q # p => SameCarried(q)
  BY <1>1, <1>2 DEF SameCarried
<1>5. \A w \in Visits : visit'[w].page # p
  BY <1>1, <1>2, Alone, PagesAssumption
<1> QED
  BY <1>3, <1>4, <1>5

\* A page asks for a list or a draw when it has no request.
LEMMA AskSeen ==
  ASSUME IndInv, NEW v \in Visits, NEW p \in Pages, NEW k \in {"load", "spin"},
         visit[v].pc \in {"idle", "answered"}, visit[v].page \in {NoPage, p},
         visit' = [visit EXCEPT ![v] = Request(p, k)]
  PROVE /\ SameSeen
        /\ \A q \in Pages : q # p => SameCarried(q)
        /\ visit'[v].tirage = NoTirage /\ visit'[v].page = p
        /\ \A w \in Visits : w # v => visit'[w] = visit[w]
<1>1. visit'[v] = [pc |-> "arrived", page |-> p, kind |-> k, list |-> NoList, tirage |-> NoTirage]
  BY RequestMade DEF IndInv, TypeOK
<1>2. \A w \in Visits : w # v => visit'[w] = visit[w]
  BY DEF IndInv, TypeOK
<1>3. visit'[v].pc = "arrived" /\ visit'[v].page = p /\ visit'[v].tirage = NoTirage
  BY <1>1
<1>4. SameSeen
  BY <1>2, <1>3 DEF SameSeen, Seen
<1>5. \A q \in Pages : q # p => SameCarried(q)
  BY <1>2, <1>3, PagesAssumption DEF SameCarried
<1> QED
  BY <1>2, <1>3, <1>4, <1>5

\* The steps after which a page has nothing to announce.
LEMMA LoadedDraws ==
  ASSUME IndInv, NEW p \in Pages, NEW v \in Visits, Loaded(p, v)
  PROVE DrawsStep
<1> DEFINE l == visit[v].list
           c == IF Len(l.segs) < 2 THEN "closed" ELSE "ready"
           s == [page[p] EXCEPT !.pc = c, !.list = l]
<1>1. /\ page[p] \in PageStates /\ page[p].pc = "loading"
      /\ visit[v].page = p /\ visit[v].pc = "answered"
      /\ page' = [page EXCEPT ![p] = s] /\ visit' = [visit EXCEPT ![v] = IdleVisit]
      /\ UNCHANGED <<list, spins>>
  BY DEF IndInv, TypeOK, Loaded, Answered
<1> HIDE DEF c, l
<1>2. s = [pc |-> c, list |-> l, rotation |-> page[p].rotation, tirage |-> page[p].tirage, shown |-> page[p].shown]
  BY <1>1, ListedPage, Zenon
<1>3. s.tirage = NoTirage /\ s.shown = NoTirage
  BY <1>1, <1>2, PageFields
<1> HIDE DEF s
<1> QED
  BY <1>1, <1>3, EndSeen, PageDraws DEF IndInv

LEMMA NotLoadedDraws ==
  ASSUME IndInv, NEW p \in Pages, NEW v \in Visits, NotLoaded(p, v)
  PROVE DrawsStep
<1> DEFINE s == [page[p] EXCEPT !.pc = "closed"]
<1>1. /\ page[p] \in PageStates /\ page[p].pc = "loading"
      /\ visit[v].page = p /\ visit[v].pc = "failed"
      /\ page' = [page EXCEPT ![p] = s] /\ visit' = [visit EXCEPT ![v] = IdleVisit]
      /\ UNCHANGED <<list, spins>>
  BY DEF IndInv, TypeOK, NotLoaded, Failed
<1>2. s = [pc |-> "closed", list |-> page[p].list, rotation |-> page[p].rotation,
           tirage |-> page[p].tirage, shown |-> page[p].shown]
  BY <1>1, MovedPage, Zenon
<1>3. s.tirage = NoTirage /\ s.shown = NoTirage
  BY <1>1, <1>2, PageFields
<1> HIDE DEF s
<1> QED
  BY <1>1, <1>3, EndSeen, PageDraws DEF IndInv

LEMMA GiveUpDraws ==
  ASSUME IndInv, NEW p \in Pages, NEW v \in Visits, GiveUp(p, v)
  PROVE DrawsStep
<1> DEFINE s == [page[p] EXCEPT !.pc = "ready", !.tirage = NoTirage]
<1>0. page[p] \in PageStates
  BY DEF IndInv, TypeOK
<1>1. /\ page[p].pc \in {"posting", "reloading"}
      /\ visit[v].page = p /\ visit[v].pc = "failed"
      /\ page' = [page EXCEPT ![p] = s] /\ visit' = [visit EXCEPT ![v] = IdleVisit]
      /\ UNCHANGED <<list, spins>>
  BY DEF GiveUp, Failed
<1>2. s = [pc |-> "ready", list |-> page[p].list, rotation |-> page[p].rotation,
           tirage |-> NoTirage, shown |-> page[p].shown]
  BY <1>0, ToldPage, Zenon
<1>3. s.tirage = NoTirage /\ s.shown = NoTirage
  BY <1>0, <1>1, <1>2, PageFields
<1> HIDE DEF s
<1> QED
  BY <1>1, <1>3, EndSeen, PageDraws DEF IndInv

LEMMA ClickDraws ==
  ASSUME IndInv, NEW p \in Pages, NEW v \in Visits, Click(p, v)
  PROVE DrawsStep
<1> DEFINE s == [page[p] EXCEPT !.pc = "posting", !.shown = NoTirage]
<1>1. /\ page[p] \in PageStates /\ page[p].pc = "ready"
      /\ visit[v] \in VisitStates /\ visit[v].pc = "idle"
      /\ page' = [page EXCEPT ![p] = s] /\ visit' = [visit EXCEPT ![v] = Request(p, "spin")]
      /\ UNCHANGED <<list, spins>>
  BY DEF IndInv, TypeOK, Click
<1>2. s = [pc |-> "posting", list |-> page[p].list, rotation |-> page[p].rotation,
           tirage |-> page[p].tirage, shown |-> NoTirage]
  BY <1>1, ClickedPage, Zenon
<1>3. s.tirage = NoTirage /\ s.shown = NoTirage
  BY <1>1, <1>2, PageFields
<1> HIDE DEF s
<1>4. visit[v].page = NoPage
  BY <1>1, VisitFields DEF IdleVisit
<1>5. /\ SameSeen /\ \A q \in Pages : q # p => SameCarried(q)
      /\ visit'[v].tirage = NoTirage /\ \A w \in Visits : w # v => visit'[w] = visit[w]
  BY <1>1, <1>4, AskSeen
<1>6. \A w \in Visits : visit'[w].page = p => visit'[w].tirage = NoTirage
  BY <1>1, <1>5, Alone
<1> QED
  BY <1>1, <1>3, <1>5, <1>6, PageDraws DEF IndInv

LEMMA DismissDraws ==
  ASSUME IndInv, NEW p \in Pages, Dismiss(p)
  PROVE DrawsStep
<1> DEFINE s == [page[p] EXCEPT !.shown = NoTirage]
<1>1. /\ page[p] \in PageStates /\ page[p].shown # NoTirage
      /\ page' = [page EXCEPT ![p] = s] /\ UNCHANGED <<list, spins, visit>>
  BY DEF IndInv, TypeOK, Dismiss
<1>2. s = [pc |-> page[p].pc, list |-> page[p].list, rotation |-> page[p].rotation,
           tirage |-> page[p].tirage, shown |-> NoTirage]
  BY <1>1, DismissedPage, Zenon
<1>3. s.tirage = NoTirage /\ s.shown = NoTirage /\ page[p].pc = "ready"
  BY <1>1, <1>2, PageFields
<1>4. \A w \in Visits : visit'[w].page # p
  BY <1>1, <1>3, Alone
<1>5. SameSeen /\ \A q \in Pages : SameCarried(q)
  BY <1>1 DEF SameSeen, SameCarried
<1> HIDE DEF s
<1> QED
  BY <1>1, <1>3, <1>4, <1>5, PageDraws DEF IndInv

\* A page that is opened again takes nothing from its former requests, which
\* draw from their lists all the same, for nobody.
LEMMA OpenDraws ==
  ASSUME IndInv, NEW p \in Pages, NEW v \in Visits, Open(p, v)
  PROVE DrawsStep
<1> DEFINE s == [ClosedPage EXCEPT !.pc = "loading"]
           o(w) == Kept([visit[w] EXCEPT !.page = NoPage])
<1>1. /\ page' = [page EXCEPT ![p] = s] /\ UNCHANGED <<list, spins>> /\ visit[v].pc = "idle"
      /\ s.tirage = NoTirage /\ s.shown = NoTirage
  BY DEF Open, ClosedPage
<1> HIDE DEF s
<1>2. /\ visit'[v].pc = "arrived" /\ visit'[v].tirage = NoTirage
      /\ \A w \in Visits : w # v => visit'[w] = IF visit[w].page = p THEN o(w) ELSE visit[w]
  BY RequestMade DEF Open
<1>3. ASSUME NEW w \in Visits, visit[w].page = p
      PROVE o(w).page = NoPage /\ o(w).tirage = NoTirage /\ Seen(o(w)) = Seen(visit[w])
  <2>1. visit[w] \in VisitStates /\ visit[w].pc # "idle"
    BY <1>3, VisitFields, PagesAssumption DEF IndInv, TypeOK, IdleVisit
  <2>2. /\ o(w).page = NoPage /\ o(w).tirage = NoTirage
        /\ o(w).pc \in {"listed", "counted"} => visit[w].pc \in {"listed", "counted"} /\ o(w).list = visit[w].list
    BY <2>1, Orphaned
  <2>3. visit[w].pc \in {"listed", "counted"} => o(w).pc \in {"listed", "counted"}
    <3> DEFINE x == [pc |-> visit[w].pc, page |-> NoPage, kind |-> visit[w].kind,
                     list |-> visit[w].list, tirage |-> visit[w].tirage]
    <3>1. [visit[w] EXCEPT !.page = NoPage] = x
      BY <2>1, OrphanVisit, Zenon
    <3>2. visit[w].pc \in {"listed", "counted"} => visit[w].kind = "spin"
      BY <2>1, VisitFields
    <3>3. visit[w].pc \in {"listed", "counted"} => Kept(x) = x
      BY <3>2 DEF Kept
    <3>4. x.pc = visit[w].pc
      OBVIOUS
    <3> HIDE DEF x
    <3> QED
      BY <3>1, <3>3, <3>4
  <2> HIDE DEF o
  <2> QED
    BY <2>2, <2>3 DEF Seen
<1> HIDE DEF o
<1>4. visit[v].tirage = NoTirage /\ visit[v].page = NoPage /\ visit'[v].page = p
  <2>1. visit[v] = IdleVisit
    BY <1>1, VisitFields DEF IndInv, TypeOK
  <2> QED
    BY <2>1, RequestMade DEF IdleVisit, Open
<1>5. SameSeen
  <2>1. Seen(visit'[v]) = NoList /\ Seen(visit[v]) = NoList
    BY <1>1, <1>2 DEF Seen
  <2> QED
    BY <1>2, <1>3, <2>1 DEF SameSeen
<1>6. \A q \in Pages : q # p => SameCarried(q)
  BY <1>2, <1>3, <1>4 DEF SameCarried
<1>7. \A w \in Visits : visit'[w].page = p => visit'[w].tirage = NoTirage
  BY <1>2, <1>3
<1> QED
  BY <1>1, <1>5, <1>6, <1>7, PageDraws DEF IndInv

\* The draw goes from the answer to the page, which is owed what it was.
LEMMA ReceiveDraws ==
  ASSUME IndInv, NEW p \in Pages, NEW v \in Visits, Receive(p, v)
  PROVE DrawsStep
<1> DEFINE t == visit[v].tirage
           c == IF SameContent(page[p].list.segs, t) THEN "turning" ELSE "reloading"
           s == [page[p] EXCEPT !.pc = c, !.tirage = t]
<1>1. /\ page[p].pc = "posting" /\ visit[v].page = p /\ visit[v].pc = "answered"
      /\ page' = [page EXCEPT ![p] = s] /\ UNCHANGED <<list, spins>>
      /\ visit' = [visit EXCEPT ![v] = IdleVisit] \/ visit' = [visit EXCEPT ![v] = Request(p, "load")]
  BY DEF Receive, Answered
<1>2. page[p] \in PageStates
  BY DEF IndInv, TypeOK
<1> HIDE DEF c, t
<1>3. s = [pc |-> c, list |-> page[p].list, rotation |-> page[p].rotation, tirage |-> t, shown |-> page[p].shown]
  BY <1>2, ToldPage, Zenon
<1>4. s.tirage = t /\ s.shown = page[p].shown
  BY <1>3
<1>5. page[p].tirage = NoTirage
  BY <1>1, <1>2, PageFields
<1> HIDE DEF s
<1>6. page'[p].tirage = t
  BY <1>1, <1>4 DEF IndInv, TypeOK
<1>7. /\ SameSeen /\ \A q \in Pages : q # p => SameCarried(q)
      /\ \A w \in Visits : visit'[w].page = p => visit'[w].tirage = NoTirage
  <2>1. CASE visit' = [visit EXCEPT ![v] = IdleVisit]
    <3>1. SameSeen /\ (\A q \in Pages : q # p => SameCarried(q)) /\ \A w \in Visits : visit'[w].page # p
      BY <1>1, <2>1, EndSeen
    <3> QED
      BY <3>1
  <2>2. CASE visit' = [visit EXCEPT ![v] = Request(p, "load")]
    <3>1. /\ SameSeen /\ \A q \in Pages : q # p => SameCarried(q)
          /\ visit'[v].tirage = NoTirage /\ \A w \in Visits : w # v => visit'[w] = visit[w]
      BY <1>1, <2>2, AskSeen
    <3>2. \A w \in Visits : w # v => visit[w].page # p
      BY <1>1, Alone
    <3> QED
      BY <3>1, <3>2
  <2> QED
    BY <1>1, <2>1, <2>2
<1>8. Owed(p)' = Owed(p)
  <2>1. \A w \in Visits : w # v => visit[w].page # p
    BY <1>1, Alone
  <2>2. ASSUME NEW u PROVE (u \in Owed(p)) = (u # NoTirage /\ u = t)
    BY <1>1, <1>5, <2>1, OwedFacts DEF t
  <2>3. ASSUME NEW u PROVE (u \in Owed(p)') = (u # NoTirage /\ u = t)
    BY <1>6, <1>7, OwedFacts
  <2>4. ASSUME NEW u PROVE (u \in Owed(p)') = (u \in Owed(p))
    BY <2>2, <2>3
  <2> QED
    BY <2>4
<1> QED
  BY <1>1, <1>4, <1>7, <1>8, PageDraws DEF IndInv

\* A reload changes the list of a page, not what it is owed.
LEMMA ReloadedDraws ==
  ASSUME IndInv, NEW p \in Pages, NEW v \in Visits, Reloaded(p, v)
  PROVE DrawsStep
<1> DEFINE l == visit[v].list
           s == [page[p] EXCEPT !.pc = "turning", !.list = l]
<1>1. /\ page[p].pc = "reloading" /\ visit[v].page = p /\ visit[v].pc = "answered"
      /\ page' = [page EXCEPT ![p] = s] /\ UNCHANGED <<list, spins>>
      /\ visit' = [visit EXCEPT ![v] = IdleVisit]
  BY DEF Reloaded, Answered
<1>2. page[p] \in PageStates /\ visit[v] \in VisitStates
  BY DEF IndInv, TypeOK
<1> HIDE DEF l
<1>3. s = [pc |-> "turning", list |-> l, rotation |-> page[p].rotation,
           tirage |-> page[p].tirage, shown |-> page[p].shown]
  BY <1>2, ListedPage, Zenon
<1>4. s.tirage = page[p].tirage /\ s.shown = page[p].shown
  BY <1>3
<1> HIDE DEF s
<1>5. page'[p].tirage = page[p].tirage
  BY <1>1, <1>4 DEF IndInv, TypeOK
<1>6. /\ SameSeen /\ \A q \in Pages : q # p => SameCarried(q)
      /\ \A w \in Visits : visit'[w].page # p
  BY <1>1, EndSeen
<1>7. visit[v].tirage = NoTirage
  <2>1. visit[v].kind # "spin"
    BY <1>1, Alone
  <2> QED
    BY <1>1, <1>2, <2>1, VisitFields
<1>8. SameCarried(p)
  <2>1. \A w \in Visits : visit[w].page = p => w = v
    BY <1>1, Alone
  <2> QED
    BY <1>6, <1>7, <2>1 DEF SameCarried
<1>9. Owed(p)' = Owed(p)
  BY <1>5, <1>8, OwedKept
<1> QED
  BY <1>1, <1>4, <1>6, <1>9, PageDraws DEF IndInv

\* The wheel has stopped: what the page was owed is announced.
LEMMA LandDraws ==
  ASSUME IndInv, NEW p \in Pages, Land(p)
  PROVE DrawsStep
<1>1. page[p].pc = "turning" /\ UNCHANGED <<list, spins, visit>>
  BY DEF Land
<1>2. page[p] \in PageStates
  BY DEF IndInv, TypeOK
<1>3. PICK tours \in Turns :
        page' = [page EXCEPT ![p] =
                   [page[p] EXCEPT !.pc = "ready", !.tirage = NoTirage, !.shown = page[p].tirage,
                                   !.rotation = Landing(page[p].rotation, page[p].tirage.index,
                                                        Len(page[p].list.segs), tours)]]
  BY DEF Land
<1> DEFINE g == Landing(page[p].rotation, page[p].tirage.index, Len(page[p].list.segs), tours)
           s == [page[p] EXCEPT !.pc = "ready", !.tirage = NoTirage, !.shown = page[p].tirage, !.rotation = g]
<1>4. page' = [page EXCEPT ![p] = s]
  BY <1>3
<1> HIDE DEF g
<1>5. s = [pc |-> "ready", list |-> page[p].list, rotation |-> g, tirage |-> NoTirage, shown |-> page[p].tirage]
  BY <1>2, LandedPage, Zenon
<1>6. s.tirage = NoTirage /\ s.shown = page[p].tirage
  BY <1>5
<1> HIDE DEF s
<1>7. page[p].tirage # NoTirage
  BY <1>1, <1>2, PageFields, NullFacts
<1>8. \A w \in Visits : visit'[w].page # p
  BY <1>1, Alone
<1>9. SameSeen /\ \A q \in Pages : SameCarried(q)
  BY <1>1 DEF SameSeen, SameCarried
<1> QED
  BY <1>1, <1>4, <1>6, <1>7, <1>8, <1>9, PageDraws DEF IndInv

\* The owner and the hours: a save shows, the rest does not.
LEMMA StillDraws ==
  ASSUME UNCHANGED <<spins, visit, page>>
  PROVE /\ list' = list => DrawsStep
        /\ \A l \in Lists : Save(l) => DrawsStep
<1> DEFINE seen  == [w \in Visits |-> Seen(visit[w])]
           owed  == [q \in Pages |-> Owed(q)]
           shown == [q \in Pages |-> page[q].shown]
<1>1. seen' = seen
  BY DEF Seen
<1>2. owed' = owed
  BY DEF Owed
<1>3. shown' = shown
  OBVIOUS
<1>4. ASSUME list' = list PROVE DrawsStep
  BY <1>1, <1>2, <1>3, <1>4 DEF DrawsStep, Promise!drawsVars
<1>5. ASSUME NEW l \in Lists, Save(l) PROVE DrawsStep
  <2>1. Promise!Save(l)
    BY <1>1, <1>2, <1>3, <1>5 DEF Promise!Save, Save
  <2> QED
    BY <2>1 DEF DrawsStep, Promise!DrawsNext
<1> QED
  BY <1>4, <1>5

\* Every step of any actor, put together from the lemmas.
LEMMA StepDraws == IndInv /\ [Next]_vars => DrawsStep
<1> SUFFICES ASSUME IndInv, [Next]_vars PROVE DrawsStep
  OBVIOUS
<1>1. CASE OwnerStep \/ GrowOld \/ UNCHANGED vars
  BY <1>1, StillDraws DEF OwnerStep, Save, Publish, Unpublish, GrowOld, vars
<1>2. ASSUME NEW v \in Visits, QuietStep(v)
      PROVE DrawsStep
  BY <1>2, QuietSteps, QuietDraws DEF IndInv
<1>3. CASE \E v \in Visits : VisitStep(v) \/ Drop(v) \/ Break(v)
  BY <1>2, <1>3, InsertDraws DEF VisitStep, QuietStep
<1>4. ASSUME NEW p \in Pages, PageStep(p) \/ Dismiss(p) \/ \E v \in Visits : Open(p, v) \/ Click(p, v)
      PROVE DrawsStep
  BY <1>4, LoadedDraws, NotLoadedDraws, ReceiveDraws, ReloadedDraws, GiveUpDraws, LandDraws,
     DismissDraws, OpenDraws, ClickDraws DEF PageStep
<1> QED
  BY <1>1, <1>3, <1>4 DEF Next

LEMMA InitDraws == Init => Promise!DrawsInit
<1> SUFFICES ASSUME Init PROVE Promise!DrawsInit
  OBVIOUS
<1>1. /\ \A v \in Visits : Seen(visit[v]) = NoList /\ visit[v].tirage = NoTirage
      /\ \A p \in Pages : page[p].tirage = NoTirage /\ page[p].shown = NoTirage
  BY DEF Init, Seen, IdleVisit, ClosedPage
<1>2. \A p \in Pages : Owed(p) = {}
  BY <1>1, NothingOwed
<1> QED
  BY <1>1, <1>2 DEF Init, Promise!DrawsInit

\* The requests, pages, reloads and failures of embed.go and embed.js as a whole
\* keep what Draws promises the visitors, for any numbers of pages, requests,
\* lists and draws.
THEOREM WheelImplementsDraws == Spec => ImplementsDraws
<1>1. Init => Promise!DrawsInit
  BY InitDraws
<1>2. IndInv /\ [Next]_vars => [Promise!DrawsNext]_(Promise!drawsVars)
  BY StepDraws DEF DrawsStep
<1> QED
  BY <1>1, <1>2, Invariance, PTL DEF Spec, ImplementsDraws, Promise!DrawsSpec

=============================================================================
