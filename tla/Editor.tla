------------------------------- MODULE Editor --------------------------------
(***************************************************************************)
(* One wheel and the pages in which its owner edits it: several tabs, each *)
(* with its own copy of the list (frontend/static/js/edit.js), against the *)
(* requests of api/wheels.go.                                              *)
(*                                                                         *)
(* A list is told by its length and by the edits that made it: what an     *)
(* edit does to the segments matters to no property, whether it is there   *)
(* does. A save is a PATCH of the title and the publication, then a PUT of *)
(* the segments.                                                           *)
(***************************************************************************)
EXTENDS Integers, FiniteSets

CONSTANTS
  Pages,        \* the tabs
  NoPage,       \* the page of a request that nobody waits for any more
  Requests,     \* the requests that can be in progress together
  MaxSegments,  \* MAX_SEGMENTS (64), the server's own limit as well
  MaxEdits,     \* bound: the edits of all pages, uploaded images included
  MaxSaves      \* bound: the clicks on Enregistrer

ASSUME PagesAssumption == NoPage \notin Pages

\* A browser has a bounded number of requests in progress.
ASSUME RequestsAssumption == IsFiniteSet(Requests)

ASSUME LimitsAssumption ==
  /\ MaxSegments \in Nat /\ MaxSegments >= 2
  /\ MaxEdits \in Nat /\ MaxSaves \in Nat

VARIABLES
  deleted,  \* wheels.deleted_at
  row,      \* the save whose title and publication are in the table
  list,     \* segments: their number, their edits, and the save they come from
  page,     \* the tabs, each with its local list
  request,  \* the requests in progress
  edits,    \* the edits made so far
  saves,    \* the saves begun so far
  mixed     \* history: saves that ran beside another one, or failed

vars == <<deleted, row, list, page, request, edits, saves, mixed>>

-----------------------------------------------------------------------------
(* Types                                                                   *)

\* edit.js:229 and api/wheels.go:243.
MinSegments == 2

Local == [len : 0..MaxSegments, edits : SUBSET (1..MaxEdits)]
Stored == [len : 0..MaxSegments, edits : SUBSET (1..MaxEdits), save : 0..MaxSaves]

NoList == [len |-> 0, edits |-> {}, save |-> 0]
NoLocal == [len |-> 0, edits |-> {}]

\* arg is the number of a save, or the index an image was chosen for; had is
\* what the page showed when it sent a PUT.
IdleRequest ==
  [pc |-> "idle", page |-> NoPage, kind |-> "load", arg |-> 0, list |-> NoList, had |-> {}]

RequestStates ==
  [pc : {"idle", "arrived", "found", "replaced", "answered", "failed"},
   page : Pages \cup {NoPage}, kind : {"load", "patch", "put", "delete", "upload"},
   arg : 0..MaxSaves + MaxSegments, list : Stored, had : SUBSET (1..MaxEdits)]

Request(e, kind, arg) == [IdleRequest EXCEPT !.pc = "arrived", !.page = e, !.kind = kind, !.arg = arg]

\* A request whose page is gone goes on. It is forgotten when nothing is left
\* of it but an answer that reaches nobody.
Kept(r) ==
  IF r.page = NoPage /\ (r.kind \in {"load", "upload"} \/ r.pc \in {"replaced", "answered", "failed"})
    THEN IdleRequest
    ELSE r

\* The page waits for an answer of this kind.
Busy(e, kind) == \E v \in Requests : request[v].page = e /\ request[v].kind = kind

\* The button Enregistrer is disabled (edit.js:234, :262).
Saving(e) == Busy(e, "patch") \/ Busy(e, "put")

IsSave(v) == request[v].kind \in {"patch", "put"}

\* The saves that these requests are about.
SavesOf(reqs) == {request[v].arg : v \in {u \in reqs : IsSave(u)}}

Uploading == {v \in Requests : request[v].kind = "upload"}

\* Bound: every upload in progress has an edit left.
EditLeft == edits + Cardinality(Uploading) < MaxEdits

\* The local list of a page after one more edit.
Edited(e, len) == [len |-> len, edits |-> page[e].local.edits \cup {edits + 1}]

-----------------------------------------------------------------------------
(* The server                                                              *)

Reply(v, pc, l) == request' = [request EXCEPT ![v] = Kept([@ EXCEPT !.pc = pc, !.list = l])]

\* GetWheelOwned (store/wheels.go:88-103), the first statement of getWheel and
\* of patchWheel.
GetWheelOwned(v) ==
  /\ request[v].pc = "arrived" /\ request[v].kind \in {"load", "patch"}
  /\ Reply(v, IF deleted THEN "failed" ELSE "found", NoList)
  /\ UNCHANGED <<deleted, row, list, page, edits, saves, mixed>>

\* api/wheels.go:117-128. The list may be of a later save than the row.
ListSegments(v) ==
  /\ request[v].pc = "found" /\ request[v].kind = "load"
  /\ Reply(v, "answered", list)
  /\ UNCHANGED <<deleted, row, list, page, edits, saves, mixed>>

UpdateAnyWheel(v) ==
  /\ request[v].pc = "found" /\ request[v].kind = "patch"
  /\ row' = request[v].arg
  /\ Reply(v, "answered", NoList)
  /\ UNCHANGED <<deleted, list, page, edits, saves, mixed>>

\* api/wheels.go:161-188 and store/wheels.go:106-123. The editor sends both
\* fields, so that nothing is left of the row that was read.
UpdateWheel(v) ==
  /\ request[v].pc = "found" /\ request[v].kind = "patch"
  /\ IF deleted
       THEN Reply(v, "failed", NoList) /\ UNCHANGED row
       ELSE Reply(v, "answered", NoList) /\ row' = request[v].arg
  /\ UNCHANGED <<deleted, list, page, edits, saves, mixed>>

AcceptedAnyMin(len) == len <= MaxSegments

\* api/wheels.go:243-250.
Accepted(len) == len \in MinSegments..MaxSegments

ReplaceSegmentsSwallowingErrors(v) ==
  /\ request[v].pc = "arrived" /\ request[v].kind = "put"
  /\ Reply(v, "replaced", NoList)
  /\ list' = IF deleted \/ ~Accepted(request[v].list.len) THEN list
             ELSE [request[v].list EXCEPT !.save = request[v].arg]
  /\ UNCHANGED <<deleted, row, page, edits, saves, mixed>>

ReadThenReplaceSegments(v) ==
  /\ request[v].pc = "arrived" /\ request[v].kind = "put"
  /\ IF deleted \/ ~Accepted(request[v].list.len)
       THEN Reply(v, "failed", NoList) /\ UNCHANGED list
       ELSE Reply(v, "answered", list) /\ list' = [request[v].list EXCEPT !.save = request[v].arg]
  /\ UNCHANGED <<deleted, row, page, edits, saves, mixed>>

\* api/wheels.go:243-282 and store/wheels.go:179-230: the checks, then the whole
\* list in one transaction. An image that is refused is a Break.
ReplaceSegments(v) ==
  /\ request[v].pc = "arrived" /\ request[v].kind = "put"
  /\ IF deleted \/ ~Accepted(request[v].list.len)
       THEN Reply(v, "failed", NoList) /\ UNCHANGED list
       ELSE Reply(v, "replaced", NoList) /\ list' = [request[v].list EXCEPT !.save = request[v].arg]
  /\ UNCHANGED <<deleted, row, page, edits, saves, mixed>>

\* api/wheels.go:285-296: read again, after the transaction and outside of it.
ReadSaved(v) ==
  /\ request[v].pc = "replaced"
  /\ Reply(v, "answered", list)
  /\ UNCHANGED <<deleted, row, list, page, edits, saves, mixed>>

\* api/wheels.go:192-214 and store/wheels.go:127-138.
SoftDeleteWheel(v) ==
  /\ request[v].pc = "arrived" /\ request[v].kind = "delete"
  /\ Reply(v, IF deleted THEN "failed" ELSE "answered", NoList)
  /\ deleted' = TRUE
  /\ UNCHANGED <<row, list, page, edits, saves, mixed>>

\* The upload itself is in module ImageStore.
UploadImage(v) ==
  /\ request[v].pc = "arrived" /\ request[v].kind = "upload"
  /\ Reply(v, "answered", NoList)
  /\ UNCHANGED <<deleted, row, list, page, edits, saves, mixed>>

\* A statement fails or the request is refused: what it has done stays done.
Break(v) ==
  /\ request[v].pc \notin {"idle", "failed"}
  /\ Reply(v, "failed", NoList)
  /\ UNCHANGED <<deleted, row, list, page, edits, saves, mixed>>

-----------------------------------------------------------------------------
(* The page                                                                *)

Here(e) == page[e].pc = "here"
Answered(e, v, kind) == request[v].page = e /\ request[v].kind = kind /\ request[v].pc = "answered"
Free(v) == request' = [request EXCEPT ![v] = IdleRequest]

\* edit.js:327-347. The buttons work from now on, before the answer.
Open(e, v) ==
  /\ page[e].pc = "closed"
  /\ request[v].pc = "idle"
  /\ page' = [page EXCEPT ![e].pc = "here"]
  /\ request' = [request EXCEPT ![v] = Request(e, "load", 0)]
  /\ UNCHANGED <<deleted, row, list, edits, saves, mixed>>

\* edit.js:353-365. A wheel without segments starts with two empty ones.
Loaded(e, v) ==
  /\ Here(e) /\ Answered(e, v, "load")
  /\ page' = [page EXCEPT ![e].local =
                [len |-> IF request[v].list.len = 0 THEN MinSegments ELSE request[v].list.len,
                 edits |-> request[v].list.edits]]
  /\ Free(v)
  /\ UNCHANGED <<deleted, row, list, edits, saves, mixed>>

Edit(e, len) ==
  /\ Here(e) /\ EditLeft
  /\ page' = [page EXCEPT ![e].local = Edited(e, len)]
  /\ edits' = edits + 1
  /\ UNCHANGED <<deleted, row, list, request, saves, mixed>>

AjouterUnbounded(e) == Edit(e, page[e].local.len + 1)

\* edit.js:333-337.
AjouterSegment(e) == page[e].local.len < MaxSegments /\ Edit(e, page[e].local.len + 1)

\* edit.js:78-81.
Supprimer(e) == page[e].local.len > 0 /\ Edit(e, page[e].local.len - 1)

\* edit.js:70-76, :140-145, :164-181: moves, labels, colours, images taken away.
Modifier(e) == page[e].local.len > 0 /\ Edit(e, page[e].local.len)

\* edit.js:83-95. The index is kept, whatever happens to the list.
Televerser(e, v) ==
  /\ Here(e) /\ EditLeft
  /\ request[v].pc = "idle"
  /\ \E index \in 1..page[e].local.len :
       request' = [request EXCEPT ![v] = Request(e, "upload", index)]
  /\ UNCHANGED <<deleted, row, list, page, edits, saves, mixed>>

\* edit.js:95-102. An index that is no longer there raises an exception.
Televerse(e, v) ==
  /\ Here(e) /\ Answered(e, v, "upload")
  /\ IF request[v].arg <= page[e].local.len
       THEN page' = [page EXCEPT ![e].local = Edited(e, @.len)] /\ edits' = edits + 1
       ELSE UNCHANGED <<page, edits>>
  /\ Free(v)
  /\ UNCHANGED <<deleted, row, list, saves, mixed>>

\* edit.js:223-241. The title and the publication are read now.
Enregistrer(e, v) ==
  /\ Here(e) /\ ~Saving(e)
  /\ page[e].local.len >= MinSegments
  /\ saves < MaxSaves
  /\ request[v].pc = "idle"
  /\ saves' = saves + 1
  /\ request' = [request EXCEPT ![v] = Request(e, "patch", saves + 1)]
  /\ mixed' = IF SavesOf(Requests) = {} THEN mixed
              ELSE mixed \cup SavesOf(Requests) \cup {saves + 1}
  /\ UNCHANGED <<deleted, row, list, page, edits>>

\* edit.js:243-249. The segments are read now.
SendSegments(e, v) ==
  /\ Here(e) /\ Answered(e, v, "patch")
  /\ request' = [request EXCEPT ![v] =
                   [Request(e, "put", request[v].arg) EXCEPT
                      !.list = [len |-> page[e].local.len, edits |-> page[e].local.edits, save |-> 0],
                      !.had = page[e].local.edits]]
  /\ UNCHANGED <<deleted, row, list, page, edits, saves, mixed>>

\* edit.js:251-258. The answer replaces the local list.
Saved(e, v) ==
  /\ Here(e) /\ Answered(e, v, "put")
  /\ page' = [page EXCEPT ![e].local = [len |-> request[v].list.len, edits |-> request[v].list.edits]]
  /\ Free(v)
  /\ UNCHANGED <<deleted, row, list, edits, saves, mixed>>

\* edit.js:266-274.
SupprimerRoue(e, v) ==
  /\ Here(e) /\ ~Busy(e, "delete")
  /\ request[v].pc = "idle"
  /\ request' = [request EXCEPT ![v] = Request(e, "delete", 0)]
  /\ UNCHANGED <<deleted, row, list, page, edits, saves, mixed>>

\* edit.js:275, or the tab is closed. Its requests go on, its script does not.
Leave(e) ==
  /\ Here(e)
  /\ LET own == {v \in Requests : request[v].page = e}
     IN  /\ request' = [v \in Requests |-> IF v \in own THEN Kept([request[v] EXCEPT !.page = NoPage]) ELSE request[v]]
         /\ mixed' = mixed \cup SavesOf(own)
  /\ page' = [page EXCEPT ![e] = [pc |-> "gone", local |-> NoLocal]]
  /\ UNCHANGED <<deleted, row, list, edits, saves>>

\* edit.js:100-102, :259-263, :276-279 and :367-373: a message, and the buttons
\* are enabled again. Whatever the page shows stays as it is, and may be saved.
Failure(e, v) ==
  /\ Here(e) /\ request[v].page = e /\ request[v].pc = "failed"
  /\ Free(v)
  /\ mixed' = mixed \cup SavesOf({v})
  /\ UNCHANGED <<deleted, row, list, page, edits, saves>>

\* The connection breaks: for the page the request has failed, on the server it
\* goes on.
Lose(v) ==
  /\ request[v].page # NoPage
  /\ request' = [request EXCEPT ![v] = Kept([@ EXCEPT !.page = NoPage])]
  /\ mixed' = mixed \cup SavesOf({v})
  /\ UNCHANGED <<deleted, row, list, page, edits, saves>>

-----------------------------------------------------------------------------
(* The specification                                                       *)

\* The wheel has just been created (api/wheels.go:71-97, store/wheels.go:43-55).
Init ==
  /\ deleted = FALSE
  /\ row = 0 /\ list = NoList
  /\ page = [e \in Pages |-> [pc |-> "closed", local |-> NoLocal]]
  /\ request = [v \in Requests |-> IdleRequest]
  /\ edits = 0 /\ saves = 0 /\ mixed = {}

ServerStep(v) ==
  \/ GetWheelOwned(v) \/ ListSegments(v) \/ UpdateWheel(v) \/ ReplaceSegments(v)
  \/ ReadSaved(v) \/ SoftDeleteWheel(v) \/ UploadImage(v)

Callback(e, v) ==
  Loaded(e, v) \/ Televerse(e, v) \/ SendSegments(e, v) \/ Saved(e, v) \/ Failure(e, v)

Click(e) ==
  \/ AjouterSegment(e) \/ Supprimer(e) \/ Modifier(e)
  \/ \E v \in Requests : Open(e, v) \/ Televerser(e, v) \/ Enregistrer(e, v) \/ SupprimerRoue(e, v)

Next ==
  \/ \E v \in Requests : ServerStep(v) \/ Break(v) \/ Lose(v)
  \/ \E e \in Pages : Click(e) \/ Leave(e) \/ \E v \in Requests : Callback(e, v)

Spec == Init /\ [][Next]_vars

-----------------------------------------------------------------------------
(* Properties                                                              *)

\* Every variable has the type its table, page or request gives it.
TypeOK ==
  /\ deleted \in BOOLEAN
  /\ row \in 0..MaxSaves /\ list \in Stored
  /\ page \in [Pages -> [pc : {"closed", "here", "gone"}, local : Local]]
  /\ request \in [Requests -> RequestStates]
  /\ edits \in 0..MaxEdits /\ saves \in 0..MaxSaves
  /\ mixed \subseteq 1..MaxSaves

\* A wheel has no segments, before its first save, or a number the README
\* allows: the page checks it before the PATCH, and the list may have shrunk
\* when the PUT is sent (edit.js:229, :243).
StoredListComplete == list.len \in {0} \cup (MinSegments..MaxSegments)

\* No request under way brings a deleted wheel back or changes it, a PATCH that
\* read it before included (api/wheels.go:151-173).
DeletedForGood ==
  [][deleted => deleted' /\ row' = row /\ list' = list]_vars

\* When a save answers, nothing the page showed when it sent the segments goes
\* away, the edits made while the PATCH was under way included, unless another
\* save ran beside this one.
SavedKeepsEdits ==
  \A v \in Requests :
    (request[v].kind = "put" /\ request[v].pc = "answered" /\ request[v].arg \notin mixed)
      => request[v].had \subseteq request[v].list.edits

\* A save is a PATCH and a PUT, and no transaction holds them together: when
\* none is under way, the title and the segments in the tables come from the
\* same save, unless one of the two failed or ran beside another.
TornOnlyWhenMixed ==
  SavesOf(Requests) = {} => row = list.save \/ row \in mixed \/ list.save \in mixed

-----------------------------------------------------------------------------
(* Inductive strengthenings                                                *)

\* Every upload in progress has an edit left.
EditsReserved == edits + Cardinality(Uploading) <= MaxEdits

\* A save under way that neither failed nor ran beside another one.
Clean(v) == IsSave(v) /\ request[v].arg \notin mixed

\* A save under way is one that was begun. One that runs beside another, or
\* that no page follows any more, is mixed.
SavesInv ==
  /\ mixed \subseteq 1..saves
  /\ \A v \in Requests :
       /\ request[v].pc = "idle" => request[v].kind = "load"
       /\ request[v].pc = "replaced" => request[v].kind = "put"
       /\ IsSave(v) => request[v].arg \in 1..saves
       /\ Clean(v) => request[v].page # NoPage
  /\ \A v, w \in Requests : Clean(v) /\ IsSave(w) => v = w

\* How far a clean save has come, and what is in the tables by then: its title
\* once the PATCH has answered, its segments once the PUT has replaced them.
CleanSaves ==
  \A v \in {w \in Requests : Clean(w)} :
    LET r == request[v]
    IN  /\ r.kind = "put" \/ r.pc = "answered" => row = r.arg
        /\ r.kind = "put" /\ r.pc = "arrived" => r.had \subseteq r.list.edits
        /\ r.kind = "put" /\ r.pc = "replaced" => list.save = r.arg /\ r.had \subseteq list.edits
        /\ r.kind = "put" /\ r.pc = "answered" => list.save = r.arg /\ r.had \subseteq r.list.edits

\* The tables hold the title of one save and the segments of another only while
\* a clean save is between the two, or because of a mixed one.
TornInv ==
  \/ row = list.save \/ row \in mixed \/ list.save \in mixed
  \/ \E v \in Requests : Clean(v) /\ row = request[v].arg
=============================================================================
