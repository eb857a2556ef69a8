---------------------------- MODULE EditorProofs -----------------------------
(***************************************************************************)
(* Theorems about Editor, for every set of tabs, every finite set of       *)
(* requests and every bound on segments, edits and saves.                  *)
(***************************************************************************)
EXTENDS Editor, FiniteSetTheorems, TLAPS

(***************************************************************************)
(* What a step does to the requests.                                       *)
(***************************************************************************)

Stages == {"idle", "arrived", "found", "replaced", "answered", "failed"}
Kinds == {"load", "patch", "put", "delete", "upload"}
Args == 0..MaxSaves + MaxSegments

LEMMA IdleFacts ==
  /\ IdleRequest \in RequestStates
  /\ IdleRequest.pc = "idle" /\ IdleRequest.kind = "load" /\ IdleRequest.page = NoPage
<1>1. NoList \in Stored
  BY LimitsAssumption DEF NoList, Stored
<1>2. 0 \in Args
  BY LimitsAssumption DEF Args
<1> QED
  BY <1>1, <1>2 DEF IdleRequest, RequestStates, Args

\* A new request is in its first stage.
LEMMA RequestFacts ==
  ASSUME NEW e \in Pages, NEW kind \in Kinds, NEW arg \in Args
  PROVE  /\ Request(e, kind, arg) \in RequestStates
         /\ Request(e, kind, arg).pc = "arrived"
         /\ Request(e, kind, arg).page = e
         /\ Request(e, kind, arg).kind = kind
         /\ Request(e, kind, arg).arg = arg
<1> DEFINE new == [pc |-> "arrived", page |-> e, kind |-> kind, arg |-> arg,
                   list |-> NoList, had |-> {}]
<1>1. Request(e, kind, arg) = new
  <2> DEFINE a == [IdleRequest EXCEPT !.pc = "arrived"]
             b == [a EXCEPT !.page = e]
             c == [b EXCEPT !.kind = kind]
             d == [c EXCEPT !.arg = arg]
  <2>1. a = [pc |-> "arrived", page |-> NoPage, kind |-> "load", arg |-> 0,
             list |-> NoList, had |-> {}]
    BY DEF IdleRequest
  <2>2. Request(e, kind, arg) = d
    BY DEF Request
  <2> HIDE DEF a
  <2>3. b = [pc |-> "arrived", page |-> e, kind |-> "load", arg |-> 0,
             list |-> NoList, had |-> {}]
    BY <2>1
  <2> HIDE DEF b
  <2>4. c = [pc |-> "arrived", page |-> e, kind |-> kind, arg |-> 0,
             list |-> NoList, had |-> {}]
    BY <2>3
  <2> HIDE DEF c
  <2>5. d = new
    BY <2>4
  <2> QED
    BY <2>2, <2>5
<1>2. NoList \in Stored
  BY LimitsAssumption DEF NoList, Stored
<1>3. new \in RequestStates
  BY <1>2 DEF RequestStates, Kinds, Args
<1> QED
  BY <1>1, <1>3

\* The request v ends and the others stay as they are.
Forgotten(v) == request'[v] = IdleRequest
Others(v) == \A w \in Requests \ {v} : request'[w] = request[w]

\* The request v goes on to another stage, with another list.
Moved(v, pc, l) ==
  /\ request'[v].pc = pc /\ request'[v].list = l
  /\ request'[v].page = request[v].page /\ request'[v].kind = request[v].kind
  /\ request'[v].arg = request[v].arg /\ request'[v].had = request[v].had

\* The request v goes on without its page.
Abandoned(v) ==
  /\ request'[v].page = NoPage
  /\ request'[v].pc = request[v].pc /\ request'[v].list = request[v].list
  /\ request'[v].kind = request[v].kind
  /\ request'[v].arg = request[v].arg /\ request'[v].had = request[v].had

LEMMA WithoutPage ==
  ASSUME NEW r \in RequestStates
  PROVE  LET s == [r EXCEPT !.page = NoPage]
         IN  /\ s \in RequestStates /\ s.page = NoPage
             /\ s.pc = r.pc /\ s.list = r.list /\ s.kind = r.kind
             /\ s.arg = r.arg /\ s.had = r.had
<1> DEFINE s == [r EXCEPT !.page = NoPage]
<1>1. s = [pc |-> r.pc, page |-> NoPage, kind |-> r.kind, arg |-> r.arg,
           list |-> r.list, had |-> r.had]
  BY DEF RequestStates
<1> QED
  BY <1>1 DEF RequestStates

\* An answer moves one request to its next stage, or ends it when its page is
\* gone.
LEMMA ReplyEffects ==
  ASSUME TypeOK, NEW v \in Requests, NEW pc \in Stages, NEW l \in Stored, Reply(v, pc, l)
  PROVE  /\ request' \in [Requests -> RequestStates]
         /\ Others(v)
         /\ Moved(v, pc, l) \/ (Forgotten(v) /\ request[v].page = NoPage)
<1> DEFINE t == [request[v] EXCEPT !.pc = pc]
           s == [t EXCEPT !.list = l]
<1>0. request \in [Requests -> RequestStates]
  BY DEF TypeOK
<1>1. request' = [request EXCEPT ![v] = Kept(s)]
  BY DEF Reply
<1>2. request[v] \in RequestStates
  BY <1>0
<1>3. /\ s \in RequestStates /\ s.page = request[v].page
      /\ s.pc = pc /\ s.list = l /\ s.kind = request[v].kind
      /\ s.arg = request[v].arg /\ s.had = request[v].had
  <2> DEFINE r == request[v]
  <2>1. t = [pc |-> pc, page |-> r.page, kind |-> r.kind, arg |-> r.arg,
             list |-> r.list, had |-> r.had]
    BY <1>2 DEF RequestStates
  <2>2. t \in RequestStates
    BY <1>2, <2>1 DEF RequestStates, Stages
  <2>3. /\ t.page = r.page /\ t.pc = pc /\ t.kind = r.kind
        /\ t.arg = r.arg /\ t.had = r.had
    BY <2>1
  <2> HIDE DEF t
  <2>4. s = [pc |-> t.pc, page |-> t.page, kind |-> t.kind, arg |-> t.arg,
             list |-> l, had |-> t.had]
    BY <2>2 DEF RequestStates
  <2>5. s \in RequestStates
    BY <2>2, <2>4 DEF RequestStates
  <2> QED
    BY <2>3, <2>4, <2>5
<1> HIDE DEF t, s
<1>4. Kept(s) = s \/ (Kept(s) = IdleRequest /\ s.page = NoPage)
  BY DEF Kept
<1>5. Kept(s) \in RequestStates
  BY <1>3, <1>4, IdleFacts
<1>6. request'[v] = Kept(s)
  BY <1>0, <1>1
<1>7. Others(v)
  BY <1>0, <1>1 DEF Others
<1>8. request' \in [Requests -> RequestStates]
  BY <1>0, <1>1, <1>5
<1> QED
  BY <1>3, <1>4, <1>6, <1>7, <1>8 DEF Moved, Forgotten

\* One request is replaced by another one.
LEMMA NewRequest ==
  ASSUME TypeOK, NEW v \in Requests, NEW r \in RequestStates,
         request' = [request EXCEPT ![v] = r]
  PROVE  /\ request' \in [Requests -> RequestStates]
         /\ Others(v)
         /\ request'[v] = r
<1>0. request \in [Requests -> RequestStates]
  BY DEF TypeOK
<1> QED
  BY <1>0 DEF Others

LEMMA FreeEffects ==
  ASSUME TypeOK, NEW v \in Requests, Free(v)
  PROVE  /\ request' \in [Requests -> RequestStates]
         /\ Others(v) /\ Forgotten(v)
BY NewRequest, IdleFacts DEF Free, Forgotten

LEMMA LoseEffects ==
  ASSUME TypeOK, NEW v \in Requests, Lose(v)
  PROVE  /\ request' \in [Requests -> RequestStates]
         /\ Others(v)
         /\ Abandoned(v) \/ Forgotten(v)
<1> DEFINE s == [request[v] EXCEPT !.page = NoPage]
<1>0. request \in [Requests -> RequestStates]
  BY DEF TypeOK
<1>1. request' = [request EXCEPT ![v] = Kept(s)]
  BY DEF Lose
<1>2. request[v] \in RequestStates
  BY <1>0
<1>3. /\ s \in RequestStates /\ s.page = NoPage
      /\ s.pc = request[v].pc /\ s.list = request[v].list /\ s.kind = request[v].kind
      /\ s.arg = request[v].arg /\ s.had = request[v].had
  BY <1>2, WithoutPage
<1> HIDE DEF s
<1>4. Kept(s) = s \/ Kept(s) = IdleRequest
  BY DEF Kept
<1>5. Kept(s) \in RequestStates
  BY <1>3, <1>4, IdleFacts
<1>6. Others(v) /\ request'[v] = Kept(s) /\ request' \in [Requests -> RequestStates]
  BY <1>1, <1>5, NewRequest
<1> QED
  BY <1>3, <1>4, <1>6 DEF Abandoned, Forgotten

\* A page that goes leaves all of its requests, and no other one.
LEMMA LeaveEffects ==
  ASSUME TypeOK, NEW e \in Pages, Leave(e)
  PROVE  /\ request' \in [Requests -> RequestStates]
         /\ \A w \in Requests :
              IF request[w].page = e THEN Abandoned(w) \/ Forgotten(w)
                                     ELSE request'[w] = request[w]
<1> DEFINE s(w) == [request[w] EXCEPT !.page = NoPage]
<1>0. request \in [Requests -> RequestStates]
  BY DEF TypeOK
<1>1. request' = [w \in Requests |-> IF request[w].page = e THEN Kept(s(w)) ELSE request[w]]
  BY DEF Leave
<1>2. ASSUME NEW w \in Requests
      PROVE  /\ Kept(s(w)) \in RequestStates
             /\ request'[w] = Kept(s(w)) => Abandoned(w) \/ Forgotten(w)
  <2>1. request[w] \in RequestStates
    BY <1>0
  <2>2. /\ s(w) \in RequestStates /\ s(w).page = NoPage
        /\ s(w).pc = request[w].pc /\ s(w).list = request[w].list
        /\ s(w).kind = request[w].kind
        /\ s(w).arg = request[w].arg /\ s(w).had = request[w].had
    BY <2>1, WithoutPage
  <2> HIDE DEF s
  <2>3. Kept(s(w)) = s(w) \/ Kept(s(w)) = IdleRequest
    BY DEF Kept
  <2> QED
    BY <2>2, <2>3, IdleFacts DEF Abandoned, Forgotten
<1>3. request' \in [Requests -> RequestStates]
  BY <1>0, <1>1, <1>2
<1>4. ASSUME NEW w \in Requests
      PROVE  IF request[w].page = e THEN Abandoned(w) \/ Forgotten(w)
                                    ELSE request'[w] = request[w]
  <2>1. request'[w] = IF request[w].page = e THEN Kept(s(w)) ELSE request[w]
    BY <1>1
  <2> HIDE DEF s
  <2> QED
    BY <2>1, <1>2
<1> QED
  BY <1>3, <1>4

(***************************************************************************)
(* Types.                                                                  *)
(***************************************************************************)

PageStates == [pc : {"closed", "here", "gone"}, local : Local]

LEMMA RequestTypes == TypeOK => request \in [Requests -> RequestStates]
BY DEF TypeOK

\* The fields of a request, and of the list it carries.
LEMMA RequestFields ==
  ASSUME TypeOK, NEW v \in Requests
  PROVE  /\ request[v].pc \in Stages /\ request[v].kind \in Kinds
         /\ request[v].arg \in Args
         /\ request[v].list \in Stored
         /\ request[v].list.len \in 0..MaxSegments
         /\ request[v].list.edits \in SUBSET (1..MaxEdits)
BY RequestTypes DEF RequestStates, Stages, Kinds, Args, Stored

LEMMA LocalFields ==
  ASSUME TypeOK, NEW e \in Pages
  PROVE  /\ page[e] \in PageStates
         /\ page[e].local \in Local
         /\ page[e].local.len \in 0..MaxSegments
         /\ page[e].local.edits \in SUBSET (1..MaxEdits)
BY DEF TypeOK, PageStates, Local

LEMMA ListTypes ==
  /\ NoList \in Stored /\ NoLocal \in Local
  /\ TypeOK => list \in Stored
BY LimitsAssumption DEF NoList, NoLocal, Stored, Local, TypeOK

\* A page shows another list.
LEMMA ShownTypes ==
  ASSUME TypeOK, NEW e \in Pages, NEW l \in Local,
         page' = [page EXCEPT ![e].local = l]
  PROVE  page' \in [Pages -> PageStates]
BY DEF TypeOK, PageStates

\* Every upload in progress has an edit left, so that an edit that is made has
\* a number.
LEMMA UploadsFinite ==
  ASSUME TypeOK
  PROVE  IsFiniteSet(Uploading) /\ Cardinality(Uploading) \in Nat
<1>1. Uploading \subseteq Requests
  BY DEF Uploading
<1> QED
  BY <1>1, RequestsAssumption, FS_Subset, FS_CardinalityType

LEMMA EditHasNumber ==
  ASSUME TypeOK, EditLeft
  PROVE  edits + 1 \in 1..MaxEdits
BY UploadsFinite, LimitsAssumption DEF EditLeft, TypeOK

LEMMA UploadHasNumber ==
  ASSUME TypeOK, EditsReserved, NEW v \in Uploading
  PROVE  edits + 1 \in 1..MaxEdits
<1>1. Cardinality(Uploading) \in Nat /\ IsFiniteSet(Uploading)
  BY UploadsFinite
<1>2. Cardinality(Uploading) # 0
  BY <1>1, FS_EmptySet
<1> QED
  BY <1>1, <1>2, LimitsAssumption DEF EditsReserved, TypeOK

LEMMA EditedTypes ==
  ASSUME TypeOK, NEW e \in Pages, edits + 1 \in 1..MaxEdits, NEW len \in 0..MaxSegments
  PROVE  Edited(e, len) \in Local
BY LocalFields DEF Edited, Local

LEMMA InitTypes == Init => TypeOK
<1> SUFFICES ASSUME Init PROVE TypeOK
  OBVIOUS
<1>1. request \in [Requests -> RequestStates]
  BY IdleFacts DEF Init
<1>2. page \in [Pages -> PageStates]
  BY ListTypes DEF Init, PageStates
<1>3. row \in 0..MaxSaves /\ edits \in 0..MaxEdits /\ saves \in 0..MaxSaves
  BY LimitsAssumption DEF Init
<1>4. deleted \in BOOLEAN /\ list \in Stored /\ mixed \subseteq 1..MaxSaves
  BY ListTypes DEF Init
<1> QED
  BY <1>1, <1>2, <1>3, <1>4 DEF TypeOK, PageStates

(***************************************************************************)
(* What every step but the start of a save does to the saves under way,    *)
(* and what a step that leaves the tables alone does to them.              *)
(***************************************************************************)

\* A save after the step is the same save before it, with its page or mixed.
Going(w) ==
  /\ request'[w].pc = "idle" => request'[w].kind = "load"
  /\ request'[w].pc = "replaced" => request'[w].kind = "put"
  /\ request'[w].kind \in {"patch", "put"} =>
       /\ IsSave(w)
       /\ request'[w].arg = request[w].arg
       /\ request'[w].page = request[w].page \/ request[w].arg \in mixed'

\* No save begins, and only those under way can become mixed.
Lasting ==
  /\ saves' = saves
  /\ mixed \subseteq mixed' /\ mixed' \subseteq mixed \cup SavesOf(Requests)
  /\ \A w \in Requests : Going(w)

NoUploadBegun ==
  /\ edits' = edits
  /\ \A w \in Requests : request'[w].kind = "upload" => request[w].kind = "upload"

\* The save of w keeps what it has reached, or has failed, or has not reached
\* the tables yet.
Unmoved(w) ==
  \/ /\ request'[w].kind = "patch"
     /\ request'[w].pc # "answered"
  \/ /\ request'[w].kind = request[w].kind
     /\ request'[w].arg = request[w].arg
     /\ request'[w].had = request[w].had
     /\ \/ request'[w].pc = "failed"
        \/ request'[w].pc = request[w].pc /\ request'[w].list = request[w].list

\* The save of w goes on, or is mixed, or has answered.
NotLost(w) ==
  \/ request'[w].kind \in {"patch", "put"} /\ request'[w].arg = request[w].arg
  \/ request[w].arg \in mixed'
  \/ request[w].kind = "put" /\ request[w].pc = "answered"

Quiet(w) ==
  /\ request'[w].kind \in {"patch", "put"} => Unmoved(w)
  /\ IsSave(w) => NotLost(w)

\* The tables stay as they are.
Silent ==
  /\ row' = row /\ list' = list
  /\ mixed \subseteq mixed'
  /\ \A w \in Requests : Quiet(w)

LEMMA SameGoes ==
  ASSUME TypeOK, SavesInv, NEW w \in Requests, request'[w] = request[w]
  PROVE  Going(w) /\ Quiet(w)
BY DEF Going, Quiet, Unmoved, NotLost, IsSave, SavesInv

LEMMA ForgottenGoes ==
  ASSUME NEW w \in Requests, Forgotten(w)
  PROVE  /\ Going(w)
         /\ (IsSave(w) => NotLost(w)) => Quiet(w)
         /\ request'[w].kind # "upload"
BY IdleFacts DEF Forgotten, Going, Quiet

LEMMA AbandonedGoes ==
  ASSUME TypeOK, SavesInv, NEW w \in Requests, Abandoned(w),
         IsSave(w) => request[w].arg \in mixed'
  PROVE  Going(w) /\ Quiet(w) /\ request'[w].kind = request[w].kind
BY DEF Abandoned, Going, Quiet, Unmoved, NotLost, IsSave, SavesInv

LEMMA MovedGoes ==
  ASSUME TypeOK, NEW w \in Requests, NEW pc \in Stages, NEW l, Moved(w, pc, l),
         pc # "idle", pc = "replaced" => request[w].kind = "put"
  PROVE  /\ Going(w)
         /\ request'[w].kind = request[w].kind
         /\ \/ pc = "failed" \/ ~IsSave(w)
            \/ pc = "found" /\ request[w].kind = "patch"
            => Quiet(w)
BY DEF Moved, Going, Quiet, Unmoved, NotLost, IsSave

\* An answer that concerns no save, refuses one or has only read for it is
\* silent.
LEMMA AnswerEffects ==
  ASSUME TypeOK, SavesInv, NEW v \in Requests, NEW pc \in Stages, NEW l \in Stored,
         Reply(v, pc, l), pc # "idle", pc = "replaced" => request[v].kind = "put",
         edits' = edits, saves' = saves, mixed' = mixed
  PROVE  /\ request' \in [Requests -> RequestStates]
         /\ Lasting /\ NoUploadBegun
         /\ \/ pc = "failed" \/ ~IsSave(v)
            \/ pc = "found" /\ request[v].kind = "patch"
            => \A w \in Requests : Quiet(w)
<1>1. /\ request' \in [Requests -> RequestStates]
      /\ Others(v)
      /\ Moved(v, pc, l) \/ (Forgotten(v) /\ request[v].page = NoPage)
  BY ReplyEffects
<1>2. ASSUME NEW w \in Requests \ {v}
      PROVE  Going(w) /\ Quiet(w) /\ request'[w].kind = request[w].kind
  BY <1>1, SameGoes DEF Others
<1>3. /\ Going(v)
      /\ request'[v].kind = "upload" => request[v].kind = "upload"
      /\ \/ pc = "failed" \/ ~IsSave(v)
         \/ pc = "found" /\ request[v].kind = "patch"
         => Quiet(v)
  <2>1. CASE Moved(v, pc, l)
    BY <2>1, MovedGoes
  <2>2. CASE Forgotten(v) /\ request[v].page = NoPage
    <3>1. IsSave(v) => request[v].arg \in mixed'
      BY <2>2 DEF SavesInv, Clean
    <3> QED
      BY <2>2, <3>1, ForgottenGoes DEF NotLost
  <2> QED
    BY <1>1, <2>1, <2>2
<1> QED
  BY <1>1, <1>2, <1>3 DEF Lasting, NoUploadBegun

(***************************************************************************)
(* The handlers.                                                           *)
(***************************************************************************)

\* What most steps keep: all but an edit, the choice of an image, its arrival
\* and the start of a save.
Ordinary == TypeOK' /\ Lasting /\ NoUploadBegun

LEMMA NotASave ==
  ASSUME NEW v \in Requests, request[v].kind \in {"load", "delete", "upload"}
  PROVE  ~IsSave(v)
BY DEF IsSave

LEMMA GetWheelOwnedEffects ==
  ASSUME TypeOK, SavesInv, NEW v \in Requests, GetWheelOwned(v)
  PROVE  Ordinary /\ Silent
<1>1. CASE deleted
  <2>1. Reply(v, "failed", NoList)
    BY <1>1 DEF GetWheelOwned
  <2>2. /\ request' \in [Requests -> RequestStates]
        /\ Lasting /\ NoUploadBegun /\ \A w \in Requests : Quiet(w)
    BY <2>1, AnswerEffects, ListTypes DEF GetWheelOwned, Stages
  <2> QED
    BY <2>2 DEF GetWheelOwned, TypeOK, Ordinary, Silent
<1>2. CASE ~deleted
  <2>1. Reply(v, "found", NoList)
    BY <1>2 DEF GetWheelOwned
  <2>2. request[v].kind \in {"load", "patch"}
    BY DEF GetWheelOwned
  <2>3. /\ request' \in [Requests -> RequestStates]
        /\ Lasting /\ NoUploadBegun /\ \A w \in Requests : Quiet(w)
    BY <2>1, <2>2, NotASave, AnswerEffects, ListTypes DEF GetWheelOwned, Stages
  <2> QED
    BY <2>3 DEF GetWheelOwned, TypeOK, Ordinary, Silent
<1> QED
  BY <1>1, <1>2

LEMMA ListSegmentsEffects ==
  ASSUME TypeOK, SavesInv, NEW v \in Requests, ListSegments(v)
  PROVE  Ordinary /\ Silent
<1>1. /\ request' \in [Requests -> RequestStates]
      /\ Lasting /\ NoUploadBegun /\ \A w \in Requests : Quiet(w)
  BY AnswerEffects, NotASave, ListTypes DEF ListSegments, Stages
<1> QED
  BY <1>1 DEF ListSegments, TypeOK, Ordinary, Silent

LEMMA UploadImageEffects ==
  ASSUME TypeOK, SavesInv, NEW v \in Requests, UploadImage(v)
  PROVE  Ordinary /\ Silent
<1>1. /\ request' \in [Requests -> RequestStates]
      /\ Lasting /\ NoUploadBegun /\ \A w \in Requests : Quiet(w)
  BY AnswerEffects, NotASave, ListTypes DEF UploadImage, Stages
<1> QED
  BY <1>1 DEF UploadImage, TypeOK, Ordinary, Silent

LEMMA BreakEffects ==
  ASSUME TypeOK, SavesInv, NEW v \in Requests, Break(v)
  PROVE  Ordinary /\ Silent
<1>1. /\ request' \in [Requests -> RequestStates]
      /\ Lasting /\ NoUploadBegun /\ \A w \in Requests : Quiet(w)
  BY AnswerEffects, ListTypes DEF Break, Stages
<1> QED
  BY <1>1 DEF Break, TypeOK, Ordinary, Silent

LEMMA SoftDeleteEffects ==
  ASSUME TypeOK, SavesInv, NEW v \in Requests, SoftDeleteWheel(v)
  PROVE  Ordinary /\ Silent
<1>1. PICK pc \in {"failed", "answered"} : Reply(v, pc, NoList)
  BY DEF SoftDeleteWheel
<1>2. /\ request' \in [Requests -> RequestStates]
      /\ Lasting /\ NoUploadBegun /\ \A w \in Requests : Quiet(w)
  BY <1>1, AnswerEffects, NotASave, ListTypes DEF SoftDeleteWheel, Stages
<1> QED
  BY <1>2 DEF SoftDeleteWheel, TypeOK, Ordinary, Silent

\* The title and the publication are written.
Titled(v) ==
  /\ request[v].kind = "patch" /\ ~deleted
  /\ row' = request[v].arg /\ list' = list /\ mixed' = mixed
  /\ Others(v)
  /\ \/ Moved(v, "answered", NoList)
     \/ Forgotten(v) /\ request[v].page = NoPage

LEMMA UpdateWheelEffects ==
  ASSUME TypeOK, SavesInv, NEW v \in Requests, UpdateWheel(v)
  PROVE  Ordinary /\ (Silent \/ Titled(v))
<1>0. request[v].kind = "patch" /\ IsSave(v)
  BY DEF UpdateWheel, IsSave
<1>1. CASE deleted
  <2>1. Reply(v, "failed", NoList) /\ row' = row
    BY <1>1 DEF UpdateWheel
  <2>2. /\ request' \in [Requests -> RequestStates]
        /\ Lasting /\ NoUploadBegun /\ \A w \in Requests : Quiet(w)
    BY <2>1, AnswerEffects, ListTypes DEF UpdateWheel, Stages
  <2> QED
    BY <2>1, <2>2 DEF UpdateWheel, TypeOK, Ordinary, Silent
<1>2. CASE ~deleted
  <2>1. Reply(v, "answered", NoList) /\ row' = request[v].arg
    BY <1>2 DEF UpdateWheel
  <2>2. /\ request' \in [Requests -> RequestStates]
        /\ Lasting /\ NoUploadBegun
    BY <2>1, AnswerEffects, ListTypes DEF UpdateWheel, Stages
  <2>3. /\ Others(v)
        /\ Moved(v, "answered", NoList) \/ (Forgotten(v) /\ request[v].page = NoPage)
    BY <2>1, ReplyEffects, ListTypes DEF Stages
  <2>4. row' \in 0..MaxSaves
    BY <1>0, <2>1, LimitsAssumption DEF SavesInv, TypeOK
  <2>5. TypeOK'
    BY <2>2, <2>4 DEF UpdateWheel, TypeOK
  <2> QED
    BY <1>0, <1>2, <2>1, <2>2, <2>3, <2>5 DEF UpdateWheel, Ordinary, Titled
<1> QED
  BY <1>1, <1>2

\* The whole list is replaced.
Replaced(v) ==
  /\ request[v].kind = "put" /\ request[v].pc = "arrived"
  /\ ~deleted /\ Accepted(request[v].list.len)
  /\ row' = row /\ mixed' = mixed
  /\ list'.save = request[v].arg
  /\ list'.len = request[v].list.len /\ list'.edits = request[v].list.edits
  /\ Others(v)
  /\ \/ Moved(v, "replaced", NoList)
     \/ Forgotten(v) /\ request[v].page = NoPage

LEMMA ReplaceSegmentsEffects ==
  ASSUME TypeOK, SavesInv, NEW v \in Requests, ReplaceSegments(v)
  PROVE  Ordinary /\ (Silent \/ Replaced(v))
<1>0. request[v].kind = "put" /\ IsSave(v) /\ request[v].pc = "arrived"
  BY DEF ReplaceSegments, IsSave
<1>1. CASE deleted \/ ~Accepted(request[v].list.len)
  <2>1. Reply(v, "failed", NoList) /\ list' = list
    BY <1>1 DEF ReplaceSegments
  <2>2. /\ request' \in [Requests -> RequestStates]
        /\ Lasting /\ NoUploadBegun /\ \A w \in Requests : Quiet(w)
    BY <2>1, AnswerEffects, ListTypes DEF ReplaceSegments, Stages
  <2> QED
    BY <2>1, <2>2 DEF ReplaceSegments, TypeOK, Ordinary, Silent
<1>2. CASE ~(deleted \/ ~Accepted(request[v].list.len))
  <2>1. /\ Reply(v, "replaced", NoList)
        /\ list' = [request[v].list EXCEPT !.save = request[v].arg]
    BY <1>2 DEF ReplaceSegments
  <2>2. /\ request' \in [Requests -> RequestStates]
        /\ Lasting /\ NoUploadBegun
    BY <1>0, <2>1, AnswerEffects, ListTypes DEF ReplaceSegments, Stages
  <2>3. /\ Others(v)
        /\ Moved(v, "replaced", NoList) \/ (Forgotten(v) /\ request[v].page = NoPage)
    BY <2>1, ReplyEffects, ListTypes DEF Stages
  <2>4. request[v].arg \in 0..MaxSaves
    BY <1>0, LimitsAssumption DEF SavesInv, TypeOK
  <2>5. list' = [len |-> request[v].list.len, edits |-> request[v].list.edits,
                 save |-> request[v].arg]
    BY <2>1, RequestFields DEF Stored
  <2>6. list' \in Stored
    BY <2>4, <2>5, RequestFields DEF Stored
  <2>7. TypeOK'
    BY <2>2, <2>6 DEF ReplaceSegments, TypeOK
  <2>8. Replaced(v)
    BY <1>0, <1>2, <2>3, <2>5 DEF ReplaceSegments, Replaced
  <2> QED
    BY <2>2, <2>7, <2>8 DEF Ordinary
<1> QED
  BY <1>1, <1>2

\* The list is read for the answer.
Read(v) ==
  /\ request[v].kind = "put" /\ request[v].pc = "replaced"
  /\ row' = row /\ list' = list /\ mixed' = mixed
  /\ Others(v)
  /\ \/ Moved(v, "answered", list)
     \/ Forgotten(v) /\ request[v].page = NoPage

LEMMA ReadSavedEffects ==
  ASSUME TypeOK, SavesInv, NEW v \in Requests, ReadSaved(v)
  PROVE  Ordinary /\ Read(v)
<1>1. /\ request' \in [Requests -> RequestStates]
      /\ Lasting /\ NoUploadBegun
  BY AnswerEffects, ListTypes DEF ReadSaved, Stages
<1>2. /\ Others(v)
      /\ Moved(v, "answered", list) \/ (Forgotten(v) /\ request[v].page = NoPage)
  BY ReplyEffects, ListTypes DEF ReadSaved, Stages
<1>3. request[v].kind = "put"
  BY DEF ReadSaved, SavesInv
<1> QED
  BY <1>1, <1>2, <1>3 DEF ReadSaved, TypeOK, Ordinary, Read

(***************************************************************************)
(* The page.                                                               *)
(***************************************************************************)

\* Requests that are asked about are saves under way, and saves that were begun.
LEMMA SavesOfFacts ==
  ASSUME SavesInv, NEW reqs \in SUBSET Requests
  PROVE  /\ SavesOf(reqs) \subseteq SavesOf(Requests)
         /\ SavesOf(reqs) \subseteq 1..saves
         /\ \A v \in reqs : IsSave(v) => request[v].arg \in SavesOf(reqs)
BY DEF SavesOf, SavesInv

LEMMA BegunSaves ==
  ASSUME TypeOK
  PROVE  1..saves \subseteq 1..MaxSaves
BY LimitsAssumption DEF TypeOK

\* A request that is not a save begins where none was.
LEMMA BegunEffects ==
  ASSUME TypeOK, SavesInv, NEW v \in Requests, request[v].pc = "idle",
         NEW e \in Pages, NEW kind \in {"load", "delete", "upload"}, NEW arg \in Args,
         request' = [request EXCEPT ![v] = Request(e, kind, arg)],
         saves' = saves, mixed' = mixed
  PROVE  /\ request' \in [Requests -> RequestStates]
         /\ Lasting
         /\ \A w \in Requests : Quiet(w)
         /\ Others(v) /\ request'[v].kind = kind
<1>1. /\ Request(e, kind, arg) \in RequestStates
      /\ Request(e, kind, arg).pc = "arrived"
      /\ Request(e, kind, arg).kind = kind
  BY RequestFacts DEF Kinds
<1>2. /\ request' \in [Requests -> RequestStates]
      /\ Others(v)
      /\ request'[v] = Request(e, kind, arg)
  BY <1>1, NewRequest
<1>3. ASSUME NEW w \in Requests \ {v}
      PROVE  Going(w) /\ Quiet(w)
  BY <1>2, SameGoes DEF Others
<1>4. ~IsSave(v)
  BY DEF IsSave, SavesInv
<1>5. Going(v) /\ Quiet(v)
  BY <1>1, <1>2, <1>4 DEF Going, Quiet
<1> QED
  BY <1>1, <1>2, <1>3, <1>5 DEF Lasting

LEMMA OpenEffects ==
  ASSUME TypeOK, SavesInv, NEW e \in Pages, NEW v \in Requests, Open(e, v)
  PROVE  Ordinary /\ Silent
<1>1. 0 \in Args
  BY LimitsAssumption DEF Args
<1>2. /\ request' \in [Requests -> RequestStates]
      /\ Lasting /\ \A w \in Requests : Quiet(w)
      /\ Others(v) /\ request'[v].kind = "load"
  BY <1>1, BegunEffects DEF Open
<1>3. page' \in [Pages -> PageStates]
  BY DEF Open, TypeOK, PageStates
<1> QED
  BY <1>2, <1>3
  DEF Open, TypeOK, PageStates, Ordinary, Silent, NoUploadBegun, Others

LEMMA SupprimerRoueEffects ==
  ASSUME TypeOK, SavesInv, NEW e \in Pages, NEW v \in Requests, SupprimerRoue(e, v)
  PROVE  Ordinary /\ Silent
<1>1. 0 \in Args
  BY LimitsAssumption DEF Args
<1>2. /\ request' \in [Requests -> RequestStates]
      /\ Lasting /\ \A w \in Requests : Quiet(w)
      /\ Others(v) /\ request'[v].kind = "delete"
  BY <1>1, BegunEffects DEF SupprimerRoue
<1> QED
  BY <1>2 DEF SupprimerRoue, TypeOK, Ordinary, Silent, NoUploadBegun, Others

\* An upload begins while an edit is left for it.
UploadBegun(v) ==
  /\ edits' = edits /\ EditLeft
  /\ Uploading' \subseteq Uploading \cup {v}

LEMMA TeleverserEffects ==
  ASSUME TypeOK, SavesInv, NEW e \in Pages, NEW v \in Requests, Televerser(e, v)
  PROVE  TypeOK' /\ Lasting /\ Silent /\ UploadBegun(v)
<1>1. PICK index \in 1..page[e].local.len :
        request' = [request EXCEPT ![v] = Request(e, "upload", index)]
  BY DEF Televerser
<1>2. index \in Args
  BY LocalFields, LimitsAssumption DEF Args
<1>3. /\ request' \in [Requests -> RequestStates]
      /\ Lasting /\ \A w \in Requests : Quiet(w)
      /\ Others(v)
  BY <1>1, <1>2, BegunEffects DEF Televerser
<1>4. Uploading' \subseteq Uploading \cup {v}
  BY <1>3 DEF Uploading, Others
<1> QED
  BY <1>3, <1>4 DEF Televerser, TypeOK, Silent, UploadBegun

\* An edit that has no request.
EditMade ==
  /\ edits' = edits + 1 /\ EditLeft
  /\ Uploading' = Uploading

LEMMA EditEffects ==
  ASSUME TypeOK, SavesInv, NEW e \in Pages, NEW len \in 0..MaxSegments, Edit(e, len)
  PROVE  TypeOK' /\ Lasting /\ Silent /\ EditMade
<1>1. request' = request /\ EditLeft /\ edits' = edits + 1 /\ saves' = saves /\ mixed' = mixed
  BY DEF Edit
<1>2. edits + 1 \in 1..MaxEdits
  BY <1>1, EditHasNumber
<1>3. page' \in [Pages -> PageStates]
  BY <1>2, EditedTypes, ShownTypes DEF Edit
<1>4. \A w \in Requests : Going(w) /\ Quiet(w)
  BY <1>1, SameGoes
<1>5. edits' \in 0..MaxEdits
  BY <1>1, <1>2, LimitsAssumption
<1>6. TypeOK'
  BY <1>1, <1>3, <1>5 DEF Edit, TypeOK, PageStates
<1> QED
  BY <1>1, <1>4, <1>6 DEF Edit, Lasting, Silent, EditMade, Uploading

LEMMA ClickEffects ==
  ASSUME TypeOK, SavesInv, NEW e \in Pages,
         AjouterSegment(e) \/ Supprimer(e) \/ Modifier(e)
  PROVE  TypeOK' /\ Lasting /\ Silent /\ EditMade
<1>0. page[e].local.len \in 0..MaxSegments
  BY LocalFields
<1>1. CASE AjouterSegment(e)
  <2>1. page[e].local.len + 1 \in 0..MaxSegments
    BY <1>0, <1>1, LimitsAssumption DEF AjouterSegment
  <2> QED
    BY <1>1, <2>1, EditEffects DEF AjouterSegment
<1>2. CASE Supprimer(e)
  <2>1. page[e].local.len - 1 \in 0..MaxSegments
    BY <1>0, <1>2, LimitsAssumption DEF Supprimer
  <2> QED
    BY <1>2, <2>1, EditEffects DEF Supprimer
<1>3. CASE Modifier(e)
  BY <1>0, <1>3, EditEffects DEF Modifier
<1> QED
  BY <1>1, <1>2, <1>3

\* A request that is answered to its page ends. It is a save only when the PUT
\* has answered.
LEMMA EndedEffects ==
  ASSUME TypeOK, SavesInv, NEW v \in Requests, Free(v),
         IsSave(v) => NotLost(v),
         saves' = saves, mixed \subseteq mixed', mixed' \subseteq mixed \cup SavesOf(Requests)
  PROVE  /\ request' \in [Requests -> RequestStates]
         /\ Lasting /\ \A w \in Requests : Quiet(w)
         /\ Uploading' = Uploading \ {v}
<1>1. /\ request' \in [Requests -> RequestStates]
      /\ Others(v) /\ Forgotten(v)
  BY FreeEffects
<1>2. ASSUME NEW w \in Requests \ {v}
      PROVE  Going(w) /\ Quiet(w)
  BY <1>1, SameGoes DEF Others
<1>3. Going(v) /\ Quiet(v) /\ request'[v].kind # "upload"
  BY <1>1, ForgottenGoes
<1>4. Uploading' = Uploading \ {v}
  BY <1>1, <1>3 DEF Uploading, Others
<1> QED
  BY <1>1, <1>2, <1>3, <1>4 DEF Lasting

LEMMA EndedUploads ==
  ASSUME NEW v \in Requests, edits' = edits, Uploading' = Uploading \ {v}
  PROVE  NoUploadBegun
BY DEF NoUploadBegun, Uploading

LEMMA LoadedEffects ==
  ASSUME TypeOK, SavesInv, NEW e \in Pages, NEW v \in Requests, Loaded(e, v)
  PROVE  Ordinary /\ Silent
<1>1. ~IsSave(v)
  BY DEF Loaded, Answered, IsSave
<1>2. /\ request' \in [Requests -> RequestStates]
      /\ Lasting /\ \A w \in Requests : Quiet(w)
      /\ Uploading' = Uploading \ {v}
  BY <1>1, EndedEffects DEF Loaded
<1> DEFINE len == IF request[v].list.len = 0 THEN MinSegments ELSE request[v].list.len
           shown == [len |-> len, edits |-> request[v].list.edits]
<1>3. len \in 0..MaxSegments
  BY RequestFields, LimitsAssumption DEF MinSegments
<1>4. shown \in Local
  <2> HIDE DEF len
  <2> QED
    BY <1>3, RequestFields DEF Local
<1>5. page' \in [Pages -> PageStates]
  <2>1. page' = [page EXCEPT ![e].local = shown]
    BY DEF Loaded
  <2> HIDE DEF shown
  <2> QED
    BY <1>4, <2>1, ShownTypes
<1>6. NoUploadBegun
  BY <1>2, EndedUploads DEF Loaded
<1> QED
  BY <1>2, <1>5, <1>6 DEF Loaded, TypeOK, PageStates, Ordinary, Silent

LEMMA SavedEffects ==
  ASSUME TypeOK, SavesInv, NEW e \in Pages, NEW v \in Requests, Saved(e, v)
  PROVE  Ordinary /\ Silent
<1>1. NotLost(v)
  BY DEF Saved, Answered, NotLost
<1>2. /\ request' \in [Requests -> RequestStates]
      /\ Lasting /\ \A w \in Requests : Quiet(w)
      /\ Uploading' = Uploading \ {v}
  BY <1>1, EndedEffects DEF Saved
<1> DEFINE shown == [len |-> request[v].list.len, edits |-> request[v].list.edits]
<1>4. shown \in Local
  BY RequestFields DEF Local
<1>5. page' \in [Pages -> PageStates]
  <2>1. page' = [page EXCEPT ![e].local = shown]
    BY DEF Saved
  <2> HIDE DEF shown
  <2> QED
    BY <1>4, <2>1, ShownTypes
<1>6. NoUploadBegun
  BY <1>2, EndedUploads DEF Saved
<1> QED
  BY <1>2, <1>5, <1>6 DEF Saved, TypeOK, PageStates, Ordinary, Silent

LEMMA FailureEffects ==
  ASSUME TypeOK, SavesInv, NEW e \in Pages, NEW v \in Requests, Failure(e, v)
  PROVE  Ordinary /\ Silent
<1>1. /\ Free(v) /\ mixed' = mixed \cup SavesOf({v})
      /\ UNCHANGED <<deleted, row, list, page, edits, saves>>
  BY DEF Failure
<1>2. /\ SavesOf({v}) \subseteq SavesOf(Requests) /\ SavesOf({v}) \subseteq 1..saves
      /\ IsSave(v) => request[v].arg \in SavesOf({v})
  BY SavesOfFacts
<1>3. IsSave(v) => NotLost(v)
  BY <1>1, <1>2 DEF NotLost
<1>4. /\ request' \in [Requests -> RequestStates]
      /\ Lasting /\ \A w \in Requests : Quiet(w)
      /\ Uploading' = Uploading \ {v}
  BY <1>1, <1>2, <1>3, EndedEffects
<1>5. mixed' \subseteq 1..MaxSaves
  BY <1>1, <1>2, BegunSaves DEF TypeOK
<1>6. NoUploadBegun
  BY <1>1, <1>4, EndedUploads
<1> QED
  BY <1>1, <1>4, <1>5, <1>6 DEF TypeOK, Ordinary, Silent

\* An upload ends, and may be the edit that was left for it.
UploadEnded(v) ==
  /\ v \in Uploading /\ Uploading' = Uploading \ {v}
  /\ edits' \in {edits, edits + 1}

LEMMA TeleverseEffects ==
  ASSUME TypeOK, EditsReserved, SavesInv, NEW e \in Pages, NEW v \in Requests, Televerse(e, v)
  PROVE  TypeOK' /\ Lasting /\ Silent /\ UploadEnded(v)
<1>1. ~IsSave(v) /\ v \in Uploading
  BY DEF Televerse, Answered, IsSave, Uploading
<1>2. /\ request' \in [Requests -> RequestStates]
      /\ Lasting /\ \A w \in Requests : Quiet(w)
      /\ Uploading' = Uploading \ {v}
  BY <1>1, EndedEffects DEF Televerse
<1>3. /\ page' \in [Pages -> PageStates]
      /\ edits' \in 0..MaxEdits /\ edits' \in {edits, edits + 1}
  <2>1. CASE request[v].arg <= page[e].local.len
    <3>1. edits + 1 \in 1..MaxEdits
      BY <1>1, UploadHasNumber
    <3>2. page' = [page EXCEPT ![e].local = Edited(e, page[e].local.len)] /\ edits' = edits + 1
      BY <2>1 DEF Televerse, TypeOK
    <3>3. Edited(e, page[e].local.len) \in Local
      BY <3>1, EditedTypes, LocalFields
    <3>4. page' \in [Pages -> PageStates]
      BY <3>2, <3>3, ShownTypes
    <3> QED
      BY <3>1, <3>2, <3>4, LimitsAssumption
  <2>2. CASE ~(request[v].arg <= page[e].local.len)
    BY <2>2 DEF Televerse, TypeOK, PageStates
  <2> QED
    BY <2>1, <2>2
<1> QED
  BY <1>1, <1>2, <1>3 DEF Televerse, TypeOK, PageStates, Silent, UploadEnded

LEMMA LoseStepEffects ==
  ASSUME TypeOK, SavesInv, NEW v \in Requests, Lose(v)
  PROVE  Ordinary /\ Silent
<1>1. /\ mixed' = mixed \cup SavesOf({v})
      /\ UNCHANGED <<deleted, row, list, page, edits, saves>>
  BY DEF Lose
<1>2. /\ SavesOf({v}) \subseteq SavesOf(Requests) /\ SavesOf({v}) \subseteq 1..saves
      /\ IsSave(v) => request[v].arg \in SavesOf({v})
  BY SavesOfFacts
<1>3. /\ request' \in [Requests -> RequestStates]
      /\ Others(v)
      /\ Abandoned(v) \/ Forgotten(v)
  BY LoseEffects
<1>4. ASSUME NEW w \in Requests \ {v}
      PROVE  Going(w) /\ Quiet(w) /\ request'[w].kind = request[w].kind
  BY <1>3, SameGoes DEF Others
<1>5. /\ Going(v) /\ Quiet(v)
      /\ request'[v].kind = "upload" => request[v].kind = "upload"
  BY <1>1, <1>2, <1>3, AbandonedGoes, ForgottenGoes DEF NotLost
<1>6. mixed' \subseteq 1..MaxSaves
  BY <1>1, <1>2, BegunSaves DEF TypeOK
<1>7. Lasting
  BY <1>1, <1>2, <1>4, <1>5 DEF Lasting
<1> QED
  BY <1>1, <1>3, <1>4, <1>5, <1>6, <1>7 DEF TypeOK, Ordinary, Silent, NoUploadBegun

LEMMA LeaveStepEffects ==
  ASSUME TypeOK, SavesInv, NEW e \in Pages, Leave(e)
  PROVE  Ordinary /\ Silent
<1> DEFINE own == {v \in Requests : request[v].page = e}
<1>1. /\ mixed' = mixed \cup SavesOf(own)
      /\ UNCHANGED <<deleted, row, list, edits, saves>>
  BY DEF Leave
<1>2. own \in SUBSET Requests
  OBVIOUS
<1>3. /\ SavesOf(own) \subseteq SavesOf(Requests) /\ SavesOf(own) \subseteq 1..saves
      /\ \A v \in own : IsSave(v) => request[v].arg \in SavesOf(own)
  <2> HIDE DEF own
  <2> QED
    BY <1>2, SavesOfFacts
<1>4. /\ request' \in [Requests -> RequestStates]
      /\ \A w \in Requests :
           IF request[w].page = e THEN Abandoned(w) \/ Forgotten(w)
                                  ELSE request'[w] = request[w]
  BY LeaveEffects
<1>5. ASSUME NEW w \in Requests
      PROVE  /\ Going(w) /\ Quiet(w)
             /\ request'[w].kind = "upload" => request[w].kind = "upload"
  <2>1. CASE request[w].page = e
    <3>1. Abandoned(w) \/ Forgotten(w)
      BY <1>4, <2>1
    <3>2. IsSave(w) => request[w].arg \in mixed'
      BY <1>1, <1>3, <2>1
    <3> QED
      BY <3>1, <3>2, AbandonedGoes, ForgottenGoes DEF NotLost
  <2>2. CASE request[w].page # e
    BY <1>4, <2>2, SameGoes
  <2> QED
    BY <2>1, <2>2
<1>6. page' \in [Pages -> PageStates]
  BY ListTypes DEF Leave, TypeOK, PageStates
<1>7. mixed' \subseteq 1..MaxSaves
  <2> HIDE DEF own
  <2> QED
    BY <1>1, <1>3, BegunSaves DEF TypeOK
<1>8. Lasting
  <2> HIDE DEF own
  <2> QED
    BY <1>1, <1>3, <1>5 DEF Lasting
<1> HIDE DEF own
<1> QED
  BY <1>1, <1>4, <1>5, <1>6, <1>7, <1>8
  DEF TypeOK, PageStates, Ordinary, Silent, NoUploadBegun

\* The PATCH has answered, and the PUT goes out with what the page shows.
Sent(v) ==
  /\ request[v].kind = "patch" /\ request[v].pc = "answered"
  /\ row' = row /\ list' = list /\ mixed' = mixed
  /\ Others(v)
  /\ request'[v].kind = "put" /\ request'[v].pc = "arrived"
  /\ request'[v].arg = request[v].arg
  /\ request'[v].had = request'[v].list.edits

LEMMA SendSegmentsEffects ==
  ASSUME TypeOK, SavesInv, NEW e \in Pages, NEW v \in Requests, SendSegments(e, v)
  PROVE  Ordinary /\ Sent(v)
<1> DEFINE new == Request(e, "put", request[v].arg)
           shown == [len |-> page[e].local.len, edits |-> page[e].local.edits, save |-> 0]
           t == [new EXCEPT !.list = shown]
           s == [t EXCEPT !.had = page[e].local.edits]
<1>1. /\ request[v].page = e /\ request[v].kind = "patch" /\ request[v].pc = "answered"
      /\ UNCHANGED <<deleted, row, list, page, edits, saves, mixed>>
  BY DEF SendSegments, Answered
<1>2. request' = [request EXCEPT ![v] = s]
  BY DEF SendSegments
<1>3. request[v].arg \in Args
  BY RequestFields
<1>4. /\ new \in RequestStates
      /\ new.pc = "arrived" /\ new.page = e /\ new.kind = "put" /\ new.arg = request[v].arg
  BY <1>3, RequestFacts DEF Kinds
<1>5. shown \in Stored /\ shown.edits = page[e].local.edits
  BY LocalFields, LimitsAssumption DEF Stored
<1>6. page[e].local.edits \in SUBSET (1..MaxEdits)
  BY LocalFields
<1> HIDE DEF new, shown
<1>7. t = [pc |-> new.pc, page |-> new.page, kind |-> new.kind, arg |-> new.arg,
           list |-> shown, had |-> new.had]
  BY <1>4 DEF RequestStates
<1>8. t \in RequestStates
  BY <1>4, <1>5, <1>7 DEF RequestStates
<1>9. /\ t.pc = "arrived" /\ t.page = e /\ t.kind = "put" /\ t.arg = request[v].arg
      /\ t.list = shown
  BY <1>4, <1>7
<1> HIDE DEF t
<1>10. s = [pc |-> t.pc, page |-> t.page, kind |-> t.kind, arg |-> t.arg,
            list |-> t.list, had |-> page[e].local.edits]
  BY <1>8 DEF RequestStates
<1>11. s \in RequestStates
  BY <1>6, <1>8, <1>10 DEF RequestStates
<1>12. /\ s.pc = "arrived" /\ s.page = e /\ s.kind = "put" /\ s.arg = request[v].arg
       /\ s.had = s.list.edits
  BY <1>5, <1>9, <1>10
<1> HIDE DEF s
<1>13. /\ request' \in [Requests -> RequestStates]
       /\ Others(v) /\ request'[v] = s
  BY <1>2, <1>11, NewRequest
<1>14. Sent(v)
  BY <1>1, <1>12, <1>13 DEF Sent
<1>15. ASSUME NEW w \in Requests \ {v}
       PROVE  Going(w) /\ request'[w].kind = request[w].kind
  BY <1>13, SameGoes DEF Others
<1>16. Going(v) /\ request'[v].kind # "upload"
  BY <1>1, <1>12, <1>13 DEF Going, IsSave
<1>17. Lasting /\ NoUploadBegun
  BY <1>1, <1>15, <1>16 DEF Lasting, NoUploadBegun
<1>18. TypeOK'
  BY <1>1, <1>13 DEF TypeOK
<1> QED
  BY <1>14, <1>17, <1>18 DEF Ordinary

\* A save begins, alone or beside others.
Started(v) ==
  /\ request[v].pc = "idle"
  /\ Others(v)
  /\ request'[v].kind = "patch" /\ request'[v].pc = "arrived"
  /\ request'[v].arg = saves + 1 /\ request'[v].page # NoPage
  /\ saves' = saves + 1
  /\ mixed' = IF SavesOf(Requests) = {} THEN mixed
              ELSE mixed \cup SavesOf(Requests) \cup {saves + 1}

LEMMA EnregistrerEffects ==
  ASSUME TypeOK, SavesInv, NEW e \in Pages, NEW v \in Requests, Enregistrer(e, v)
  PROVE  TypeOK' /\ NoUploadBegun /\ Silent /\ Started(v)
<1>1. /\ request[v].pc = "idle" /\ saves < MaxSaves /\ saves' = saves + 1
      /\ request' = [request EXCEPT ![v] = Request(e, "patch", saves + 1)]
      /\ mixed' = IF SavesOf(Requests) = {} THEN mixed
                  ELSE mixed \cup SavesOf(Requests) \cup {saves + 1}
      /\ UNCHANGED <<deleted, row, list, page, edits>>
  BY DEF Enregistrer
<1>2. saves \in 0..MaxSaves
  BY DEF TypeOK
<1>3. saves + 1 \in Args /\ saves + 1 \in 0..MaxSaves /\ saves + 1 \in 1..MaxSaves
  BY <1>1, <1>2, LimitsAssumption DEF Args
<1>4. /\ Request(e, "patch", saves + 1) \in RequestStates
      /\ Request(e, "patch", saves + 1).pc = "arrived"
      /\ Request(e, "patch", saves + 1).page = e
      /\ Request(e, "patch", saves + 1).kind = "patch"
      /\ Request(e, "patch", saves + 1).arg = saves + 1
  BY <1>3, RequestFacts DEF Kinds
<1>5. /\ request' \in [Requests -> RequestStates]
      /\ Others(v) /\ request'[v] = Request(e, "patch", saves + 1)
  BY <1>1, <1>4, NewRequest
<1>6. SavesOf(Requests) \subseteq 1..saves
  BY SavesOfFacts
<1>7. mixed' \subseteq 1..MaxSaves /\ mixed \subseteq mixed'
  BY <1>1, <1>3, <1>6, BegunSaves DEF TypeOK
<1>8. e # NoPage
  BY PagesAssumption
<1>9. Started(v)
  BY <1>1, <1>4, <1>5, <1>8 DEF Started
<1>10. ASSUME NEW w \in Requests \ {v}
       PROVE  Quiet(w) /\ request'[w].kind = request[w].kind
  BY <1>5, SameGoes DEF Others
<1>11. ~IsSave(v)
  BY <1>1 DEF IsSave, SavesInv
<1>12. Quiet(v) /\ request'[v].kind # "upload"
  BY <1>4, <1>5, <1>11 DEF Quiet, Unmoved
<1>13. Silent /\ NoUploadBegun
  BY <1>1, <1>7, <1>10, <1>12 DEF Silent, NoUploadBegun
<1>14. TypeOK'
  BY <1>1, <1>3, <1>5, <1>7 DEF TypeOK
<1> QED
  BY <1>9, <1>13, <1>14

(***************************************************************************)
(* The invariants from these effects.                                      *)
(***************************************************************************)

\* A step that begins no save keeps those under way apart.
LEMMA SavesStayApart ==
  ASSUME SavesInv, Lasting
  PROVE  SavesInv'
<1>1. SavesOf(Requests) \subseteq 1..saves
  BY SavesOfFacts
<1>2. mixed' \subseteq 1..saves'
  BY <1>1 DEF Lasting, SavesInv
<1>3. ASSUME NEW v \in Requests
      PROVE  /\ IsSave(v)' => IsSave(v) /\ request'[v].arg = request[v].arg
             /\ Clean(v)' => Clean(v) /\ request'[v].page = request[v].page
             /\ request'[v].pc = "idle" => request'[v].kind = "load"
             /\ request'[v].pc = "replaced" => request'[v].kind = "put"
  BY DEF Lasting, Going, Clean, IsSave
<1>4. ASSUME NEW v \in Requests
      PROVE  /\ IsSave(v)' => request'[v].arg \in 1..saves'
             /\ Clean(v)' => request'[v].page # NoPage
  BY <1>3 DEF Lasting, SavesInv
<1>5. ASSUME NEW v \in Requests, NEW w \in Requests, Clean(v)', IsSave(w)'
      PROVE  v = w
  BY <1>3, <1>5 DEF SavesInv
<1> QED
  BY <1>2, <1>3, <1>4, <1>5 DEF SavesInv

\* A save that begins beside others is mixed, and so are they.
LEMMA StartKeepsApart ==
  ASSUME TypeOK, SavesInv, NEW v \in Requests, Started(v)
  PROVE  SavesInv'
<1>0. saves \in Nat /\ 1..saves \subseteq 1..(saves + 1) /\ saves + 1 \in 1..(saves + 1)
  BY LimitsAssumption DEF TypeOK
<1>1. /\ SavesOf(Requests) \subseteq 1..saves
      /\ \A w \in Requests : IsSave(w) => request[w].arg \in SavesOf(Requests)
  BY SavesOfFacts
<1>2. mixed' \subseteq 1..saves'
  BY <1>0, <1>1 DEF Started, SavesInv
<1>3. ASSUME NEW w \in Requests, w # v
      PROVE  /\ request'[w] = request[w]
             /\ IsSave(w)' => IsSave(w) /\ request'[w].arg \in mixed'
  BY <1>1, <1>3 DEF Started, Others, IsSave
<1>4. ASSUME NEW w \in Requests
      PROVE  /\ request'[w].pc = "idle" => request'[w].kind = "load"
             /\ request'[w].pc = "replaced" => request'[w].kind = "put"
             /\ IsSave(w)' => request'[w].arg \in 1..saves'
             /\ Clean(w)' => request'[w].page # NoPage
  <2>1. CASE w = v
    BY <1>0, <2>1 DEF Started, Clean
  <2>2. CASE w # v
    <3>1. request'[w] = request[w]
      BY <1>3, <2>2
    <3>2. ~(Clean(w)')
      BY <1>3, <2>2 DEF Clean
    <3>3. IsSave(w)' => request'[w].arg \in 1..saves
      BY <1>3, <2>2, <3>1 DEF SavesInv
    <3> QED
      BY <1>0, <3>1, <3>2, <3>3 DEF SavesInv, Started
  <2> QED
    BY <2>1, <2>2
<1>5. ASSUME NEW w \in Requests, NEW x \in Requests, Clean(w)', IsSave(x)'
      PROVE  w = x
  <2>1. w = v
    BY <1>3, <1>5 DEF Clean
  <2>2. CASE x = v
    BY <2>1, <2>2
  <2>3. CASE x # v
    <3>1. IsSave(x)
      BY <1>3, <1>5, <2>3
    <3>2. SavesOf(Requests) # {}
      BY <1>1, <3>1
    <3>3. request'[v].arg \in mixed'
      BY <3>2 DEF Started
    <3> QED
      BY <1>5, <2>1, <3>3 DEF Clean
  <2> QED
    BY <2>2, <2>3
<1> QED
  BY <1>2, <1>4, <1>5 DEF SavesInv

\* What a step does to the uploads keeps an edit for each of them.
LEMMA EditsStayReserved ==
  ASSUME TypeOK, TypeOK', EditsReserved, NEW v,
         NoUploadBegun \/ UploadBegun(v) \/ EditMade \/ UploadEnded(v)
  PROVE  EditsReserved'
<1>1. IsFiniteSet(Uploading) /\ Cardinality(Uploading) \in Nat /\ Cardinality(Uploading') \in Nat
  <2>1. Uploading' \subseteq Requests
    BY DEF Uploading
  <2>2. IsFiniteSet(Uploading')
    BY <2>1, RequestsAssumption, FS_Subset
  <2> QED
    BY <2>2, UploadsFinite, FS_CardinalityType
<1>2. edits \in Nat /\ edits' \in Nat /\ MaxEdits \in Nat
  BY LimitsAssumption DEF TypeOK
<1>3. edits + Cardinality(Uploading) <= MaxEdits
  BY DEF EditsReserved
<1>4. edits' + Cardinality(Uploading') <= MaxEdits
  <2>1. CASE NoUploadBegun
    <3>1. Uploading' \subseteq Uploading /\ edits' = edits
      BY <2>1 DEF NoUploadBegun, Uploading
    <3>2. Cardinality(Uploading') <= Cardinality(Uploading)
      BY <1>1, <3>1, FS_Subset
    <3> QED
      BY <1>1, <1>2, <1>3, <3>1, <3>2
  <2>2. CASE UploadBegun(v)
    <3>1. /\ IsFiniteSet(Uploading \cup {v})
          /\ \/ Cardinality(Uploading \cup {v}) = Cardinality(Uploading)
             \/ Cardinality(Uploading \cup {v}) = Cardinality(Uploading) + 1
      BY <1>1, FS_AddElement
    <3>2. Cardinality(Uploading') <= Cardinality(Uploading \cup {v})
      BY <2>2, <3>1, FS_Subset DEF UploadBegun
    <3>3. edits + Cardinality(Uploading) < MaxEdits /\ edits' = edits
      BY <2>2 DEF UploadBegun, EditLeft
    <3> QED
      BY <1>1, <1>2, <3>1, <3>2, <3>3
  <2>3. CASE EditMade
    BY <1>1, <1>2, <2>3 DEF EditMade, EditLeft
  <2>4. CASE UploadEnded(v)
    <3>1. Cardinality(Uploading') = Cardinality(Uploading) - 1
      BY <1>1, <2>4, FS_RemoveElement DEF UploadEnded
    <3> QED
      BY <1>1, <1>2, <1>3, <2>4, <3>1 DEF UploadEnded
  <2> QED
    BY <2>1, <2>2, <2>3, <2>4
<1> QED
  BY <1>4 DEF EditsReserved

\* The clauses of CleanSaves for one save.
Reached(v) ==
  /\ request[v].kind = "put" \/ request[v].pc = "answered" => row = request[v].arg
  /\ request[v].kind = "put" /\ request[v].pc = "arrived"
       => request[v].had \subseteq request[v].list.edits
  /\ request[v].kind = "put" /\ request[v].pc = "replaced"
       => list.save = request[v].arg /\ request[v].had \subseteq list.edits
  /\ request[v].kind = "put" /\ request[v].pc = "answered"
       => list.save = request[v].arg /\ request[v].had \subseteq request[v].list.edits

LEMMA CleanSavesReach == CleanSaves <=> \A v \in Requests : Clean(v) => Reached(v)
BY DEF CleanSaves, Reached

\* A step that leaves the tables alone, whatever it does to the saves.
LEMMA SilentKeeps ==
  ASSUME CleanSaves, TornInv, Silent
  PROVE  CleanSaves' /\ TornInv'
<1>1. ASSUME NEW v \in Requests, Clean(v)'
      PROVE  Reached(v)'
  <2>1. Quiet(v) /\ request'[v].kind \in {"patch", "put"} /\ row' = row /\ list' = list
    BY <1>1 DEF Silent, Clean, IsSave
  <2>2. CASE request'[v].kind = "patch" /\ request'[v].pc # "answered"
    BY <2>2 DEF Reached
  <2>3. CASE /\ request'[v].kind = request[v].kind
             /\ request'[v].arg = request[v].arg
             /\ request'[v].had = request[v].had
             /\ \/ request'[v].pc = "failed"
                \/ request'[v].pc = request[v].pc /\ request'[v].list = request[v].list
    <3>1. Clean(v)
      BY <1>1, <2>3 DEF Silent, Clean, IsSave
    <3>2. Reached(v)
      BY <3>1, CleanSavesReach
    <3> QED
      BY <2>1, <2>3, <3>2 DEF Reached
  <2> QED
    BY <2>1, <2>2, <2>3 DEF Quiet, Unmoved
<1>2. TornInv'
  <2>1. CASE row = list.save \/ row \in mixed \/ list.save \in mixed
    BY <2>1 DEF TornInv, Silent
  <2>2. CASE \E v \in Requests : Clean(v) /\ row = request[v].arg
    <3>1. PICK v \in Requests : Clean(v) /\ row = request[v].arg
      BY <2>2
    <3>2. NotLost(v) /\ row' = row /\ list' = list
      BY <3>1 DEF Silent, Quiet, Clean
    <3>3. CASE request'[v].kind \in {"patch", "put"} /\ request'[v].arg = request[v].arg
      BY <3>1, <3>2, <3>3 DEF TornInv, Clean, IsSave
    <3>4. CASE request[v].arg \in mixed'
      BY <3>1, <3>2, <3>4 DEF TornInv
    <3>5. CASE request[v].kind = "put" /\ request[v].pc = "answered"
      <4>1. list.save = request[v].arg
        BY <3>1, <3>5, CleanSavesReach DEF Reached
      <4> QED
        BY <3>1, <3>2, <4>1 DEF TornInv
    <3> QED
      BY <3>2, <3>3, <3>4, <3>5 DEF NotLost
  <2> QED
    BY <2>1, <2>2 DEF TornInv
<1> QED
  BY <1>1, <1>2, CleanSavesReach DEF CleanSaves, Reached

\* A step of a save leaves the others alone, and none of those is clean.
LEMMA OnlyThisOneClean ==
  ASSUME SavesInv, NEW v \in Requests, IsSave(v), Others(v), mixed' = mixed,
         Clean(v)' => Reached(v)'
  PROVE  CleanSaves'
<1>1. ASSUME NEW w \in Requests, w # v
      PROVE  ~(Clean(w)')
  <2>1. ~Clean(w)
    BY <1>1 DEF SavesInv
  <2> QED
    BY <1>1, <2>1 DEF Others, Clean, IsSave
<1>2. ASSUME NEW w \in Requests, Clean(w)'
      PROVE  Reached(w)'
  BY <1>1, <1>2
<1> QED
  BY <1>2 DEF CleanSaves, Reached

LEMMA TitledKeeps ==
  ASSUME SavesInv, NEW v \in Requests, Titled(v)
  PROVE  CleanSaves' /\ TornInv'
<1>1. IsSave(v) /\ Others(v) /\ mixed' = mixed
  BY DEF Titled, IsSave
<1>2. ASSUME Clean(v)' PROVE Reached(v)'
  <2>1. Moved(v, "answered", NoList)
    BY <1>2, IdleFacts DEF Titled, Forgotten, Clean, IsSave
  <2> QED
    BY <2>1 DEF Titled, Moved, Reached
<1>3. TornInv'
  <2>1. CASE request[v].arg \in mixed
    BY <2>1 DEF Titled, TornInv
  <2>2. CASE request[v].arg \notin mixed
    <3>1. request[v].page # NoPage
      BY <1>1, <2>2 DEF Clean, SavesInv
    <3>2. Moved(v, "answered", NoList)
      BY <3>1 DEF Titled
    <3> QED
      BY <2>2, <3>2 DEF Titled, Moved, TornInv, Clean, IsSave
  <2> QED
    BY <2>1, <2>2
<1> QED
  BY <1>1, <1>2, <1>3, OnlyThisOneClean

LEMMA ReplacedKeeps ==
  ASSUME SavesInv, CleanSaves, NEW v \in Requests, Replaced(v)
  PROVE  CleanSaves' /\ TornInv'
<1>1. IsSave(v) /\ Others(v) /\ mixed' = mixed
  BY DEF Replaced, IsSave
<1>2. Clean(v) => Reached(v)
  BY CleanSavesReach
<1>3. ASSUME Clean(v)' PROVE Reached(v)'
  <2>1. Moved(v, "replaced", NoList)
    BY <1>3, IdleFacts DEF Replaced, Forgotten, Clean, IsSave
  <2>2. Reached(v)
    BY <1>1, <1>2, <1>3, <2>1 DEF Moved, Clean, IsSave
  <2> QED
    BY <2>1, <2>2 DEF Replaced, Moved, Reached
<1>4. TornInv'
  <2>1. CASE request[v].arg \in mixed
    BY <2>1 DEF Replaced, TornInv
  <2>2. CASE request[v].arg \notin mixed
    <3>1. row = request[v].arg
      BY <1>1, <1>2, <2>2 DEF Clean, Reached, Replaced
    <3> QED
      BY <3>1 DEF Replaced, TornInv
  <2> QED
    BY <2>1, <2>2
<1> QED
  BY <1>1, <1>3, <1>4, OnlyThisOneClean

\* A clean save that goes on is still clean, and no other one was.
LEMMA TornWhileGoing ==
  ASSUME SavesInv, TornInv, NEW v \in Requests, IsSave(v), Others(v),
         row' = row, list' = list, mixed' = mixed,
         Clean(v) => Clean(v)' /\ request'[v].arg = request[v].arg
  PROVE  TornInv'
<1>1. CASE row = list.save \/ row \in mixed \/ list.save \in mixed
  BY <1>1 DEF TornInv
<1>2. CASE \E w \in Requests : Clean(w) /\ row = request[w].arg
  <2>1. Clean(v) /\ row = request[v].arg
    BY <1>2 DEF SavesInv
  <2> QED
    BY <2>1 DEF TornInv
<1> QED
  BY <1>1, <1>2 DEF TornInv

LEMMA ReadKeeps ==
  ASSUME SavesInv, CleanSaves, TornInv, NEW v \in Requests, Read(v)
  PROVE  CleanSaves' /\ TornInv'
<1>1. IsSave(v) /\ Others(v) /\ row' = row /\ list' = list /\ mixed' = mixed
  BY DEF Read, IsSave
<1>2. Clean(v) => Reached(v)
  BY CleanSavesReach
<1>3. ASSUME Clean(v)' PROVE Reached(v)'
  <2>1. Moved(v, "answered", list)
    BY <1>3, IdleFacts DEF Read, Forgotten, Clean, IsSave
  <2>2. Reached(v)
    BY <1>1, <1>2, <1>3, <2>1 DEF Moved, Clean, IsSave
  <2> QED
    BY <2>1, <2>2 DEF Read, Moved, Reached
<1>4. ASSUME Clean(v) PROVE Clean(v)' /\ request'[v].arg = request[v].arg
  <2>1. Moved(v, "answered", list)
    BY <1>4 DEF Read, SavesInv
  <2> QED
    BY <1>1, <1>4, <2>1 DEF Moved, Clean, IsSave
<1> QED
  BY <1>1, <1>3, <1>4, OnlyThisOneClean, TornWhileGoing

LEMMA SentKeeps ==
  ASSUME SavesInv, CleanSaves, TornInv, NEW v \in Requests, Sent(v)
  PROVE  CleanSaves' /\ TornInv'
<1>1. IsSave(v) /\ Others(v) /\ row' = row /\ list' = list /\ mixed' = mixed
  BY DEF Sent, IsSave
<1>2. Clean(v) => Reached(v)
  BY CleanSavesReach
<1>3. ASSUME Clean(v)' PROVE Reached(v)'
  <2>1. Reached(v)
    BY <1>1, <1>2, <1>3 DEF Sent, Clean
  <2> QED
    BY <2>1 DEF Sent, Reached
<1>4. Clean(v) => Clean(v)' /\ request'[v].arg = request[v].arg
  BY <1>1 DEF Sent, Clean, IsSave
<1> QED
  BY <1>1, <1>3, <1>4, OnlyThisOneClean, TornWhileGoing

(***************************************************************************)
(* The theorems.                                                           *)
(***************************************************************************)

EditorInv == TypeOK /\ EditsReserved /\ SavesInv /\ CleanSaves /\ TornInv

LEMMA InitEditor == Init => EditorInv
<1> SUFFICES ASSUME Init PROVE EditorInv
  OBVIOUS
<1>1. TypeOK
  BY InitTypes
<1>2. ASSUME NEW v \in Requests
      PROVE  /\ request[v].pc = "idle" /\ request[v].kind = "load" /\ ~IsSave(v)
  BY IdleFacts DEF Init, IsSave
<1>3. Uploading = {}
  BY <1>2 DEF Uploading
<1>4. EditsReserved
  BY <1>3, FS_EmptySet, LimitsAssumption DEF Init, EditsReserved
<1>5. SavesInv
  BY <1>2 DEF Init, SavesInv, Clean
<1>6. CleanSaves
  BY <1>2 DEF CleanSaves, Clean
<1>7. TornInv
  BY DEF Init, NoList, TornInv
<1> QED
  BY <1>1, <1>4, <1>5, <1>6, <1>7 DEF EditorInv

\* Every step is one of these.
Effects ==
  /\ TypeOK'
  /\ Lasting \/ \E v \in Requests : Started(v)
  /\ NoUploadBegun \/ EditMade \/ \E v \in Requests : UploadBegun(v) \/ UploadEnded(v)
  /\ Silent \/ \E v \in Requests : Titled(v) \/ Replaced(v) \/ Read(v) \/ Sent(v)

LEMMA StepEffects ==
  ASSUME TypeOK, EditsReserved, SavesInv, Next
  PROVE  Effects
<1>1. ASSUME NEW v \in Requests, ServerStep(v) \/ Break(v) \/ Lose(v)
      PROVE  Effects
  <2>1. CASE GetWheelOwned(v)
    BY <2>1, GetWheelOwnedEffects DEF Effects, Ordinary
  <2>2. CASE ListSegments(v)
    BY <2>2, ListSegmentsEffects DEF Effects, Ordinary
  <2>3. CASE UpdateWheel(v)
    BY <2>3, UpdateWheelEffects DEF Effects, Ordinary
  <2>4. CASE ReplaceSegments(v)
    BY <2>4, ReplaceSegmentsEffects DEF Effects, Ordinary
  <2>5. CASE ReadSaved(v)
    BY <2>5, ReadSavedEffects DEF Effects, Ordinary
  <2>6. CASE SoftDeleteWheel(v)
    BY <2>6, SoftDeleteEffects DEF Effects, Ordinary
  <2>7. CASE UploadImage(v)
    BY <2>7, UploadImageEffects DEF Effects, Ordinary
  <2>8. CASE Break(v)
    BY <2>8, BreakEffects DEF Effects, Ordinary
  <2>9. CASE Lose(v)
    BY <2>9, LoseStepEffects DEF Effects, Ordinary
  <2> QED
    BY <1>1, <2>1, <2>2, <2>3, <2>4, <2>5, <2>6, <2>7, <2>8, <2>9 DEF ServerStep
<1>2. ASSUME NEW e \in Pages, Click(e) \/ Leave(e)
      PROVE  Effects
  <2>1. CASE AjouterSegment(e) \/ Supprimer(e) \/ Modifier(e)
    BY <2>1, ClickEffects DEF Effects
  <2>2. ASSUME NEW v \in Requests, Open(e, v)
        PROVE  Effects
    BY <2>2, OpenEffects DEF Effects, Ordinary
  <2>3. ASSUME NEW v \in Requests, Televerser(e, v)
        PROVE  Effects
    BY <2>3, TeleverserEffects DEF Effects
  <2>4. ASSUME NEW v \in Requests, Enregistrer(e, v)
        PROVE  Effects
    BY <2>4, EnregistrerEffects DEF Effects
  <2>5. ASSUME NEW v \in Requests, SupprimerRoue(e, v)
        PROVE  Effects
    BY <2>5, SupprimerRoueEffects DEF Effects, Ordinary
  <2>6. CASE Leave(e)
    BY <2>6, LeaveStepEffects DEF Effects, Ordinary
  <2> QED
    BY <1>2, <2>1, <2>2, <2>3, <2>4, <2>5, <2>6 DEF Click
<1>3. ASSUME NEW e \in Pages, NEW v \in Requests, Callback(e, v)
      PROVE  Effects
  <2>1. CASE Loaded(e, v)
    BY <2>1, LoadedEffects DEF Effects, Ordinary
  <2>2. CASE Televerse(e, v)
    BY <2>2, TeleverseEffects DEF Effects
  <2>3. CASE SendSegments(e, v)
    BY <2>3, SendSegmentsEffects DEF Effects, Ordinary
  <2>4. CASE Saved(e, v)
    BY <2>4, SavedEffects DEF Effects, Ordinary
  <2>5. CASE Failure(e, v)
    BY <2>5, FailureEffects DEF Effects, Ordinary
  <2> QED
    BY <1>3, <2>1, <2>2, <2>3, <2>4, <2>5 DEF Callback
<1> QED
  BY <1>1, <1>2, <1>3 DEF Next

\* A step that changes nothing.
LEMMA StutterEditor == ASSUME EditorInv, UNCHANGED vars PROVE EditorInv'
<1>1. TypeOK'
  BY DEF vars, EditorInv, TypeOK
<1>2. EditsReserved'
  BY DEF vars, EditorInv, EditsReserved, Uploading
<1>3. SavesInv'
  BY DEF vars, EditorInv, SavesInv, Clean, IsSave
<1>4. CleanSaves'
  BY DEF vars, EditorInv, CleanSaves, Clean, IsSave
<1>5. TornInv'
  BY DEF vars, EditorInv, TornInv, Clean, IsSave
<1> QED
  BY <1>1, <1>2, <1>3, <1>4, <1>5 DEF EditorInv

LEMMA StepEditor == ASSUME EditorInv, [Next]_vars PROVE EditorInv'
<1>1. CASE Next
  <2>0. TypeOK /\ EditsReserved /\ SavesInv /\ CleanSaves /\ TornInv
    BY DEF EditorInv
  <2>1. Effects
    BY <1>1, <2>0, StepEffects
  <2>2. EditsReserved'
    BY <2>0, <2>1, EditsStayReserved DEF Effects
  <2>3. SavesInv'
    BY <2>0, <2>1, SavesStayApart, StartKeepsApart DEF Effects
  <2>4. CleanSaves' /\ TornInv'
    BY <2>0, <2>1, SilentKeeps, TitledKeeps, ReplacedKeeps, ReadKeeps, SentKeeps DEF Effects
  <2> QED
    BY <2>1, <2>2, <2>3, <2>4 DEF EditorInv, Effects
<1>2. CASE UNCHANGED vars
  BY <1>2, StutterEditor
<1> QED
  BY <1>1, <1>2

LEMMA EditorInvariant == Spec => []EditorInv
<1>1. EditorInv /\ [Next]_vars => EditorInv'
  BY StepEditor
<1> QED
  BY InitEditor, <1>1, PTL DEF Spec

\* The tables, the pages and the requests keep their types, whatever the
\* interleaving of clicks, callbacks and handlers.
THEOREM EditorTypesInvariant == Spec => []TypeOK
<1>1. EditorInv => TypeOK
  BY DEF EditorInv
<1> QED
  BY <1>1, EditorInvariant, PTL

\* When a save answers its page, what the page showed when it sent the segments
\* is in the answer, unless another save ran beside this one.
THEOREM AnswersKeepEdits == Spec => []SavedKeepsEdits
<1>1. ASSUME EditorInv PROVE SavedKeepsEdits
  <2>1. SUFFICES ASSUME NEW v \in Requests, request[v].kind = "put",
                        request[v].pc = "answered", request[v].arg \notin mixed
                 PROVE  request[v].had \subseteq request[v].list.edits
    BY DEF SavedKeepsEdits
  <2>2. Clean(v) /\ CleanSaves
    BY <1>1, <2>1 DEF Clean, IsSave, EditorInv
  <2>3. Reached(v)
    BY <2>2, CleanSavesReach
  <2> QED
    BY <2>1, <2>3 DEF Reached
<1> QED
  BY <1>1, EditorInvariant, PTL

\* When no save is under way, the title and the segments in the tables are of
\* the same save, unless one of the two failed or ran beside another.
THEOREM TornSavesAreMixed == Spec => []TornOnlyWhenMixed
<1>1. ASSUME EditorInv PROVE TornOnlyWhenMixed
  <2>1. TornInv
    BY <1>1 DEF EditorInv
  <2>2. ASSUME SavesOf(Requests) = {}, NEW v \in Requests
        PROVE  ~Clean(v)
    BY <2>2 DEF SavesOf, Clean
  <2> QED
    BY <2>1, <2>2 DEF TornInv, TornOnlyWhenMixed
<1> QED
  BY <1>1, EditorInvariant, PTL

\* A step replaces the stored list by one of an allowed length, or leaves it.
LEMMA StepStoresCompleteList ==
  ASSUME EditorInv, StoredListComplete, [Next]_vars
  PROVE  StoredListComplete'
<1>1. CASE Next
  <2>1. Effects
    BY <1>1, StepEffects DEF EditorInv
  <2>2. list' = list \/ Accepted(list'.len)
    BY <2>1 DEF Effects, Silent, Titled, Replaced, Read, Sent
  <2> QED
    BY <2>2 DEF StoredListComplete, Accepted
<1>2. CASE UNCHANGED vars
  BY <1>2 DEF vars, StoredListComplete
<1> QED
  BY <1>1, <1>2

\* The table holds no segments or a number of them the README allows, though
\* the page reads its list for the PUT long after it has counted it.
THEOREM StoredListsComplete == Spec => []StoredListComplete
<1>1. Init => StoredListComplete
  BY DEF Init, NoList, StoredListComplete
<1>2. EditorInv /\ StoredListComplete /\ [Next]_vars => StoredListComplete'
  BY StepStoresCompleteList
<1> QED
  BY <1>1, <1>2, EditorInvariant, PTL DEF Spec

\* No step brings a deleted wheel back.
LEMMA StepKeepsDeleted ==
  ASSUME Next, deleted
  PROVE  deleted'
<1>1. ASSUME NEW v \in Requests, ServerStep(v) \/ Break(v) \/ Lose(v)
      PROVE  deleted'
  BY <1>1
  DEF ServerStep, GetWheelOwned, ListSegments, UpdateWheel, ReplaceSegments, ReadSaved,
      SoftDeleteWheel, UploadImage, Break, Lose
<1>2. ASSUME NEW e \in Pages, Click(e) \/ Leave(e)
      PROVE  deleted'
  BY <1>2
  DEF Click, Open, AjouterSegment, Supprimer, Modifier, Edit, Televerser, Enregistrer,
      SupprimerRoue, Leave
<1>3. ASSUME NEW e \in Pages, NEW v \in Requests, Callback(e, v)
      PROVE  deleted'
  BY <1>3 DEF Callback, Loaded, Televerse, SendSegments, Saved, Failure
<1> QED
  BY <1>1, <1>2, <1>3 DEF Next

\* A deleted wheel stays deleted, and no request under way changes its row or
\* its segments, a PATCH that had read it before included.
THEOREM DeletedWheelsStay == Spec => DeletedForGood
<1>1. ASSUME EditorInv, [Next]_vars
      PROVE  [deleted => deleted' /\ row' = row /\ list' = list]_vars
  <2>1. CASE Next
    <3>1. Effects
      BY <1>1, <2>1, StepEffects DEF EditorInv
    <3>2. deleted => row' = row /\ list' = list
      BY <3>1 DEF Effects, Silent, Titled, Replaced, Read, Sent
    <3> QED
      BY <2>1, <3>2, StepKeepsDeleted
  <2>2. CASE UNCHANGED vars
    BY <2>2
  <2> QED
    BY <1>1, <2>1, <2>2
<1> QED
  BY <1>1, EditorInvariant, PTL DEF Spec, DeletedForGood
=============================================================================
