----------------------------- MODULE ImageStore -----------------------------
(***************************************************************************)
(* The image library of Spin the Wheel: the table `images`, the files of   *)
(* the image volume, the segments that reference images, and the three     *)
(* kinds of activity that change them concurrently:                        *)
(*   - upload requests          (api/images.go, uploadImage)               *)
(*   - segment saves            (store/wheels.go, ReplaceSegments)         *)
(*   - the hourly janitor       (api/images.go, PurgeOrphanImages)         *)
(* together with the creation and the soft deletion of wheels.             *)
(*                                                                         *)
(* Each action is one step between two points where another goroutine or   *)
(* another PostgreSQL session can run: a statement of a transaction, an    *)
(* autocommitted statement, or a call on the file system. PostgreSQL runs  *)
(* at its default isolation level, READ COMMITTED.                         *)
(***************************************************************************)
EXTENDS Integers, Sequences, FiniteSets

CONSTANTS
  Images,           \* the identifiers uid.New can draw, ordered by value
  NoImage,          \* a segment without an image (image_id IS NULL)
  Users,            \* the accounts
  NoUser,           \* no account: an idle upload
  Wheels,           \* the wheels
  NoWheel,          \* no wheel: an idle save
  WheelOwner,       \* wheels.owner_id, which never changes
  Uploaders,        \* upload requests that can be in progress together
  Savers,           \* segment saves that can be in progress together
  MinSegments,      \* fewest segments a save may hold (2 in the code)
  MaxSegments,      \* most segments a save may hold (64 in the code)
  MaxImagesPerDay,  \* maxImagesParJour (300 in the code)
  Window,           \* the span of the upload quota (24 h in the code)
  Grace,            \* the janitor's grace period (24 h in the code)
  MaxAge,           \* bound: ages are not told apart beyond it
  PurgeLimit,       \* images one janitor pass handles (200 in the code)
  InsertOutcomes,   \* what INSERT INTO images may do, see CreateImage
  MaxFaults         \* bound: how many of the faults below may happen

\* Identifiers are UUIDv7 values, compared by the janitor's ORDER BY id.
ASSUME ImagesAssumption == Images \subseteq Nat /\ NoImage \notin Images

ASSUME UsersAssumption ==
  /\ NoUser \notin Users
  /\ NoWheel \notin Wheels
  /\ WheelOwner \in [Wheels -> Users]

ASSUME BoundsAssumption ==
  /\ MinSegments \in Nat /\ MaxSegments \in Nat
  /\ MaxImagesPerDay \in Nat
  /\ PurgeLimit \in Nat
  /\ MaxFaults \in Nat

\* A process handles finitely many requests at once.
ASSUME UploadersAssumption == IsFiniteSet(Uploaders) /\ Uploaders # {}

\* main.go:145 keeps an orphan for 24 hours and images.go:99 counts the
\* uploads of the last 24 hours.
ASSUME AgesAssumption ==
  /\ Window \in Nat /\ Grace \in Nat /\ MaxAge \in Nat
  /\ Window <= Grace /\ Grace < MaxAge

ASSUME OutcomesAssumption == InsertOutcomes \subseteq {"inserted", "refused", "lost"}

VARIABLES
  wheel,    \* wheels: absent, live, or soft deleted
  segs,     \* segments: the committed list of each wheel, image by image
  row,      \* images: unborn, pending (id drawn), present, deleted
  owner,    \* images.owner_id
  age,      \* now() - images.created_at, up to MaxAge
  file,     \* the volume: none, tmp (<id>.png.tmp) or published (<id>.png)
  upload,   \* the upload requests in progress
  save,     \* the segment saves in progress
  purge,    \* the janitor
  faults    \* faults, cancelled saves and failed deletions so far

vars == <<wheel, segs, row, owner, age, file, upload, save, purge, faults>>

-----------------------------------------------------------------------------
(* Tables and types                                                        *)

ImageRef == Images \cup {NoImage}

\* What api.putSegments accepts: between two and 64 segments.
Lists == UNION {[1..n -> ImageRef] : n \in MinSegments..MaxSegments}

\* What a wheel may hold: nothing before its first save, then what it was sent.
StoredLists == UNION {[1..n -> ImageRef] : n \in {0} \cup (MinSegments..MaxSegments)}

IdleUpload == [pc |-> "idle", img |-> NoImage, user |-> NoUser]
IdleSave   == [pc |-> "idle", wheel |-> NoWheel, want |-> <<>>, done |-> 0]
IdlePurge  == [pc |-> "idle", batch |-> {}, cur |-> NoImage, raced |-> {}]

UploadStates ==
  {IdleUpload}
    \cup [pc : {"counted"}, img : {NoImage}, user : Users]
    \cup [pc : {"written", "renamed", "undoing"}, img : Images, user : Users]

SaveStates ==
  {IdleSave} \cup [pc : {"tx"}, wheel : Wheels, want : Lists, done : Nat]

PurgeStates ==
  {IdlePurge}
    \cup [pc : {"scan"}, batch : SUBSET Images, cur : {NoImage}, raced : {{}}]
    \cup [pc : {"waiting", "locked", "unlink"},
          batch : SUBSET Images, cur : Images, raced : SUBSET Wheels]

\* The images a list of segments references.
Refs(list) == {list[k] : k \in DOMAIN list} \ {NoImage}

\* The row of an image that was inserted, whether or not it is there still.
Inserted(i) == row[i] \in {"present", "deleted"}

\* A segment of a live wheel references the image.
LiveReferenced(i) ==
  \E w \in Wheels : wheel[w] = "live" /\ i \in Refs(segs[w])

\* A transaction that has locked the wheel and is not finished.
Saving(s, w) == save[s].pc = "tx" /\ save[s].wheel = w

\* The FOR UPDATE lock of a wheel is held.
WheelLocked(w) == \E s \in Savers : Saving(s, w)

\* Without the foreign key of segments.image_id.
KeySharedByNobody(i) == FALSE

\* The foreign-key check of an inserted segment holds FOR KEY SHARE on the
\* row of its image until the transaction ends.
KeyShared(i) ==
  \E s \in Savers : /\ save[s].pc = "tx"
                    /\ \E k \in 1..save[s].done : save[s].want[k] = i

\* The running DELETE of the janitor holds the row of the image.
LockedByPurge(i) == purge.pc = "locked" /\ purge.cur = i

\* One more fault, up to the bound.
Fault == faults < MaxFaults /\ faults' = faults + 1

-----------------------------------------------------------------------------
(* Uploads: POST /api/images                                               *)

\* Images of an account created within the quota's window.
Recent(u) == {i \in Images : row[i] = "present" /\ owner[i] = u /\ age[i] < Window}

QuotaLeftOffByOne(u) == Cardinality(Recent(u)) <= MaxImagesPerDay

QuotaLeft(u) == Cardinality(Recent(u)) < MaxImagesPerDay

\* images.go:99-148. The count and, when the quota is not reached, the
\* decoding. Any refusal on the way ends the request and changes nothing.
UploadCount(p, u) ==
  /\ upload[p].pc = "idle"
  /\ QuotaLeft(u)
  /\ upload' = [upload EXCEPT ![p] = [pc |-> "counted", img |-> NoImage, user |-> u]]
  /\ UNCHANGED <<wheel, segs, row, owner, age, file, save, purge, faults>>

\* images.go:150-165. A fresh identifier and the temporary file.
UploadWrite(p) ==
  /\ upload[p].pc = "counted"
  /\ \E i \in Images :
       /\ row[i] = "unborn"
       /\ row' = [row EXCEPT ![i] = "pending"]
       /\ owner' = [owner EXCEPT ![i] = upload[p].user]
       /\ file' = [file EXCEPT ![i] = "tmp"]
       /\ upload' = [upload EXCEPT ![p].pc = "written", ![p].img = i]
  /\ UNCHANGED <<wheel, segs, age, save, purge, faults>>

\* images.go:160-169. Writing or renaming fails: the deferred Remove takes
\* the temporary file away, and the request ends.
UploadFail(p) ==
  /\ upload[p].pc = "written"
  /\ file' = [file EXCEPT ![upload[p].img] = "none"]
  /\ upload' = [upload EXCEPT ![p] = IdleUpload]
  /\ UNCHANGED <<wheel, segs, row, owner, age, save, purge, faults>>

\* images.go:166. The rename publishes the file under its final name.
UploadRename(p) ==
  /\ upload[p].pc = "written"
  /\ file' = [file EXCEPT ![upload[p].img] = "published"]
  /\ upload' = [upload EXCEPT ![p].pc = "renamed"]
  /\ UNCHANGED <<wheel, segs, row, owner, age, save, purge, faults>>

CreateImageBeforeRename(p) ==
  /\ upload[p].pc = "written"
  /\ row' = [row EXCEPT ![upload[p].img] = "present"]
  /\ age' = [age EXCEPT ![upload[p].img] = 0]
  /\ upload' = [upload EXCEPT ![p] = IdleUpload]
  /\ UNCHANGED <<wheel, segs, owner, file, save, purge, faults>>

\* images.go:171 and store/images.go:22-33. The INSERT either commits and
\* answers, or fails and inserts nothing, or commits while its answer is
\* lost: the connection drops, or the context of the request is cancelled,
\* between the commit and the Scan.
CreateImage(p) ==
  /\ upload[p].pc = "renamed"
  /\ \E out \in InsertOutcomes :
       /\ IF out = "refused"
            THEN UNCHANGED <<row, age>>
            ELSE /\ row' = [row EXCEPT ![upload[p].img] = "present"]
                 /\ age' = [age EXCEPT ![upload[p].img] = 0]
       /\ upload' = [upload EXCEPT ![p] =
                       IF out = "inserted" THEN IdleUpload
                                           ELSE [@ EXCEPT !.pc = "undoing"]]
  /\ UNCHANGED <<wheel, segs, owner, file, save, purge, faults>>

\* images.go:172-178. CreateImage reported an error: the file is removed.
UploadUndoForgotten(p) ==
  /\ upload[p].pc = "undoing"
  /\ upload' = [upload EXCEPT ![p] = IdleUpload]
  /\ UNCHANGED <<wheel, segs, row, owner, age, file, save, purge, faults>>

UploadUndo(p) ==
  /\ upload[p].pc = "undoing"
  /\ file' = [file EXCEPT ![upload[p].img] = "none"]
  /\ upload' = [upload EXCEPT ![p] = IdleUpload]
  /\ UNCHANGED <<wheel, segs, row, owner, age, save, purge, faults>>

-----------------------------------------------------------------------------
(* Wheels and their segments                                               *)

\* store/wheels.go:43-55. A new wheel has no segments.
CreateWheel(w) ==
  /\ wheel[w] = "absent"
  /\ wheel' = [wheel EXCEPT ![w] = "live"]
  /\ UNCHANGED <<segs, row, owner, age, file, upload, save, purge, faults>>

\* store/wheels.go:127-138. The UPDATE waits for the FOR UPDATE lock of a
\* save; the segments stay.
SoftDeleteWithoutWaiting(w) ==
  /\ wheel[w] = "live"
  /\ wheel' = [wheel EXCEPT ![w] = "deleted"]
  /\ UNCHANGED <<segs, row, owner, age, file, upload, save, purge, faults>>

SoftDeleteWheel(w) ==
  /\ wheel[w] = "live"
  /\ ~WheelLocked(w)
  /\ wheel' = [wheel EXCEPT ![w] = "deleted"]
  /\ UNCHANGED <<segs, row, owner, age, file, upload, save, purge, faults>>

\* store/wheels.go:180-200. BEGIN, SELECT ... FOR UPDATE on the live wheel of
\* the caller, DELETE of its segments: the transaction sees them gone, the
\* others do not. Only another save can hold the lock, so that nothing can
\* come between the SELECT and the DELETE. A client names images it was
\* given: those of its uploads, of the library, or of a published wheel.
SaveBegin(s, w, list) ==
  /\ save[s].pc = "idle"
  /\ wheel[w] = "live"
  /\ ~WheelLocked(w)
  /\ \A i \in Refs(list) : Inserted(i)
  /\ save' = [save EXCEPT ![s] = [pc |-> "tx", wheel |-> w, want |-> list, done |-> 0]]
  /\ UNCHANGED <<wheel, segs, row, owner, age, file, upload, purge, faults>>

\* The image the next segment of a save asks for.
Wanted(s) == save[s].want[save[s].done + 1]

MoreToInsert(s) == save[s].pc = "tx" /\ save[s].done < Len(save[s].want)

\* store/wheels.go:204-216: the image exists and belongs to the caller.
UsableOfAnybody(s) == Wanted(s) # NoImage => row[Wanted(s)] = "present"

Usable(s) ==
  Wanted(s) # NoImage => /\ row[Wanted(s)] = "present"
                         /\ owner[Wanted(s)] = WheelOwner[save[s].wheel]

\* store/wheels.go:204-222. The EXISTS test and the INSERT of one segment.
\* The INSERT's foreign-key check waits while a DELETE holds the image.
SaveInsert(s) ==
  /\ MoreToInsert(s)
  /\ Usable(s)
  /\ ~LockedByPurge(Wanted(s))
  /\ save' = [save EXCEPT ![s].done = @ + 1]
  /\ UNCHANGED <<wheel, segs, row, owner, age, file, upload, purge, faults>>

\* store/wheels.go:213 (404) when the EXISTS test finds nothing, or :221
\* (500) when the image vanishes between the test and the INSERT: the
\* deferred Rollback undoes the transaction and frees its locks.
SaveRefuseWithoutRollback(s) ==
  /\ MoreToInsert(s)
  /\ ~Usable(s)
  /\ UNCHANGED vars

SaveRefuse(s) ==
  /\ MoreToInsert(s)
  /\ ~Usable(s)
  /\ save' = [save EXCEPT ![s] = IdleSave]
  /\ UNCHANGED <<wheel, segs, row, owner, age, file, upload, purge, faults>>

\* Any statement of the save fails, or its request is cancelled: Rollback.
SaveAbort(s) ==
  /\ save[s].pc = "tx"
  /\ Fault
  /\ save' = [save EXCEPT ![s] = IdleSave]
  /\ UNCHANGED <<wheel, segs, row, owner, age, file, upload, purge>>

\* store/wheels.go:225-229. COMMIT: the new list becomes visible.
SaveCommit(s) ==
  /\ save[s].pc = "tx"
  /\ save[s].done = Len(save[s].want)
  /\ segs' = [segs EXCEPT ![save[s].wheel] = save[s].want]
  /\ save' = [save EXCEPT ![s] = IdleSave]
  /\ purge' = [purge EXCEPT !.raced =
                 IF purge.pc \in {"waiting", "locked"} THEN @ \cup {save[s].wheel} ELSE @]
  /\ UNCHANGED <<wheel, row, owner, age, file, upload, faults>>

-----------------------------------------------------------------------------
(* The janitor                                                             *)

\* store/images.go:99-107.
OrphansOfAnyAge == {i \in Images : row[i] = "present" /\ ~LiveReferenced(i)}

OrphansOfNoWheel ==
  {i \in Images : /\ row[i] = "present" /\ age[i] > Grace
                  /\ \A w \in Wheels : i \notin Refs(segs[w])}

Orphans == {i \in Images : row[i] = "present" /\ age[i] > Grace /\ ~LiveReferenced(i)}

\* ORDER BY id LIMIT 200.
FirstOrphans == {i \in Orphans : Cardinality({j \in Orphans : j < i}) < PurgeLimit}

\* images.go:247-252.
PurgeList ==
  /\ purge.pc = "idle"
  /\ FirstOrphans # {}
  /\ purge' = [purge EXCEPT !.pc = "scan", !.batch = FirstOrphans]
  /\ UNCHANGED <<wheel, segs, row, owner, age, file, upload, save, faults>>

\* The janitor drops an image from its list and goes on with the next one.
NextOfKeepingImage(i) ==
  [pc |-> IF purge.batch = {i} THEN "idle" ELSE "scan",
   batch |-> purge.batch \ {i}, cur |-> i, raced |-> {}]

NextOf(i) ==
  [pc |-> IF purge.batch = {i} THEN "idle" ELSE "scan",
   batch |-> purge.batch \ {i}, cur |-> NoImage, raced |-> {}]

\* The condition of the DELETE, store/images.go:132-139.
DeletableUnchecked(i) == row[i] = "present"

Deletable(i) == row[i] = "present" /\ ~LiveReferenced(i)

\* images.go:255-260. The DELETE starts on the next image of the list. Its
\* NOT EXISTS is evaluated on the snapshot of the statement: when a live
\* wheel references the image by now, nothing is deleted (images.go:265).
PurgeDelete(i) ==
  /\ purge.pc = "scan"
  /\ i \in purge.batch
  /\ \A j \in purge.batch : i <= j
  /\ purge' = IF Deletable(i)
                THEN [purge EXCEPT !.pc = "waiting", !.cur = i, !.raced = {}]
                ELSE NextOf(i)
  /\ UNCHANGED <<wheel, segs, row, owner, age, file, upload, save, faults>>

PurgeLockRemovingFile ==
  /\ purge.pc = "waiting"
  /\ ~KeyShared(purge.cur)
  /\ file' = [file EXCEPT ![purge.cur] = "none"]
  /\ purge' = [purge EXCEPT !.pc = "locked"]
  /\ UNCHANGED <<wheel, segs, row, owner, age, upload, save, faults>>

\* The DELETE locks the row. It waits for every transaction that holds FOR
\* KEY SHARE on it. A row that was only locked, not updated, is deleted
\* without evaluating the condition again (READ COMMITTED).
PurgeLock ==
  /\ purge.pc = "waiting"
  /\ ~KeyShared(purge.cur)
  /\ purge' = [purge EXCEPT !.pc = "locked"]
  /\ UNCHANGED <<wheel, segs, row, owner, age, file, upload, save, faults>>

\* An open save has deleted a committed segment that references the image:
\* the ON DELETE SET NULL of the foreign key waits for it.
SetNullWaitsFor(s) ==
  save[s].pc = "tx" /\ purge.cur \in Refs(segs[save[s].wheel])

\* ON DELETE SET NULL (migrations/0001_init.sql).
Stripped(list, i) == [k \in DOMAIN list |-> IF list[k] = i THEN NoImage ELSE list[k]]

\* The DELETE commits: the row is gone and every segment that referenced the
\* image, of a live wheel or not, has lost it.
PurgeCommit ==
  /\ purge.pc = "locked"
  /\ \A s \in Savers : ~SetNullWaitsFor(s)
  /\ row' = [row EXCEPT ![purge.cur] = "deleted"]
  /\ segs' = [w \in Wheels |-> Stripped(segs[w], purge.cur)]
  /\ purge' = [purge EXCEPT !.pc = "unlink"]
  /\ UNCHANGED <<wheel, owner, age, file, upload, save, faults>>

\* images.go:261-264. The DELETE fails or its two-minute context ends.
PurgeSkip ==
  /\ purge.pc \in {"waiting", "locked"}
  /\ Fault
  /\ purge' = NextOf(purge.cur)
  /\ UNCHANGED <<wheel, segs, row, owner, age, file, upload, save>>

\* images.go:268-272. The file goes after the row.
PurgeUnlink ==
  /\ purge.pc = "unlink"
  /\ file' = [file EXCEPT ![purge.cur] = "none"]
  /\ purge' = NextOf(purge.cur)
  /\ UNCHANGED <<wheel, segs, row, owner, age, upload, save, faults>>

\* images.go:269-272. os.Remove fails: the error is logged, nobody retries.
UnlinkFails ==
  /\ purge.pc = "unlink"
  /\ Fault
  /\ purge' = NextOf(purge.cur)
  /\ UNCHANGED <<wheel, segs, row, owner, age, file, upload, save>>

\* The janitor waits for a save that waits for the janitor: PostgreSQL
\* cancels one of the two.
PurgeDeadlocked(s) ==
  /\ purge.pc = "locked"
  /\ SetNullWaitsFor(s)
  /\ MoreToInsert(s) /\ Usable(s) /\ LockedByPurge(Wanted(s))

DeadlockVictim(s) ==
  /\ PurgeDeadlocked(s)
  /\ \E victim \in {"save", "purge"} :
       /\ save' = IF victim = "save" THEN [save EXCEPT ![s] = IdleSave] ELSE save
       /\ purge' = IF victim = "purge" THEN NextOf(purge.cur) ELSE purge
  /\ UNCHANGED <<wheel, segs, row, owner, age, file, upload, faults>>

-----------------------------------------------------------------------------
(* Time and faults                                                        *)

Older(n) == IF n < MaxAge THEN n + 1 ELSE n

Tick ==
  /\ \E i \in Images : Inserted(i) /\ age[i] < MaxAge
  /\ age' = [i \in Images |-> IF Inserted(i) THEN Older(age[i]) ELSE age[i]]
  /\ UNCHANGED <<wheel, segs, row, owner, file, upload, save, purge, faults>>

\* The server process dies, by a failure or because main.go:103-118 returns
\* without waiting for the janitor. The database undoes open transactions and
\* the volume keeps its files.
Crash ==
  /\ Fault
  /\ upload' = [p \in Uploaders |-> IdleUpload]
  /\ save' = [s \in Savers |-> IdleSave]
  /\ purge' = IdlePurge
  /\ UNCHANGED <<wheel, segs, row, owner, age, file>>

-----------------------------------------------------------------------------
(* The specification                                                       *)

\* A fresh installation after its first migration.
Init ==
  /\ wheel = [w \in Wheels |-> "absent"]
  /\ segs = [w \in Wheels |-> <<>>]
  /\ row = [i \in Images |-> "unborn"]
  /\ owner = [i \in Images |-> NoUser]
  /\ age = [i \in Images |-> 0]
  /\ file = [i \in Images |-> "none"]
  /\ upload = [p \in Uploaders |-> IdleUpload]
  /\ save = [s \in Savers |-> IdleSave]
  /\ purge = IdlePurge
  /\ faults = 0

UploadStep(p) ==
  UploadWrite(p) \/ UploadFail(p) \/ UploadRename(p) \/ CreateImage(p) \/ UploadUndo(p)

SaveStep(s) == SaveInsert(s) \/ SaveRefuse(s) \/ SaveCommit(s) \/ DeadlockVictim(s)

PurgeStep == 
  \/ PurgeList \/ PurgeLock \/ PurgeCommit \/ PurgeUnlink
  \/ \E i \in Images : PurgeDelete(i)

Next ==
  \/ \E p \in Uploaders : (\E u \in Users : UploadCount(p, u)) \/ UploadStep(p)
  \/ \E w \in Wheels : CreateWheel(w) \/ SoftDeleteWheel(w)
  \/ \E s \in Savers : \/ \E w \in Wheels, list \in Lists : SaveBegin(s, w, list)
                       \/ SaveStep(s)
                       \/ SaveAbort(s)
  \/ PurgeStep
  \/ PurgeSkip
  \/ UnlinkFails
  \/ Tick
  \/ Crash

Spec == Init /\ [][Next]_vars

\* Handlers that have started go on: net/http runs each request to its end,
\* and PostgreSQL detects a deadlock after a second. The janitor's ticker
\* fires every hour and time passes. A statement that waits for a row lock is
\* woken when the lock is freed and gets it, hence the strong fairness of the
\* steps that wait. Nobody is made to send a request.
Fairness ==
  /\ \A p \in Uploaders : WF_vars(UploadStep(p))
  /\ \A s \in Savers : SF_vars(SaveStep(s))
  /\ WF_vars(PurgeStep) /\ SF_vars(PurgeLock) /\ SF_vars(PurgeCommit)
  /\ WF_vars(Tick)

FairSpec == Spec /\ Fairness

-----------------------------------------------------------------------------
(* Properties                                                              *)

\* Every variable has the type its table, directory or goroutine gives it; a
\* handler holds an image exactly from the step that draws it to its end.
TypeOK ==
  /\ wheel \in [Wheels -> {"absent", "live", "deleted"}]
  /\ segs \in [Wheels -> StoredLists]
  /\ row \in [Images -> {"unborn", "pending", "present", "deleted"}]
  /\ owner \in [Images -> Users \cup {NoUser}]
  /\ age \in [Images -> 0..MaxAge]
  /\ file \in [Images -> {"none", "tmp", "published"}]
  /\ upload \in [Uploaders -> UploadStates]
  /\ save \in [Savers -> SaveStates]
  /\ purge \in PurgeStates
  /\ faults \in 0..MaxFaults

\* A row of `images` never lacks its file, whatever crashes in between: the
\* upload publishes the file before it inserts the row, and the janitor
\* deletes the row before it removes the file. Holds when an INSERT that
\* reports an error has inserted nothing (images.go:173).
RowHasFile == \A i \in Images : row[i] = "present" => file[i] = "published"

\* Every image a live wheel displays can be served by GET /img/{id}, which
\* opens the file without asking the database (images.go:204-215).
LiveImageServed == \A i \in Images : LiveReferenced(i) => file[i] = "published"

\* The repeated condition of the DELETE (store/images.go:128-139) leaves one
\* window only: a live wheel loses an image to the janitor only when the save
\* that attached it committed while the DELETE statement was running.
NoStripOutsideRace ==
  [][\A i \in Images, w \in Wheels :
       (/\ row[i] = "present" /\ row'[i] = "deleted"
        /\ wheel[w] = "live" /\ i \in Refs(segs[w])) => w \in purge.raced]_vars

\* What the comments of DeleteImageIfUnused and PurgeOrphanImages say: an
\* image attached between the listing and the deletion is not deleted.
NoLiveImagePurged ==
  [][\A i \in Images :
       (row[i] = "present" /\ row'[i] = "deleted") => ~LiveReferenced(i)]_vars

\* An account never displays the image of another one (wheels.go:177-178),
\* on any path from the upload to the committed list.
OwnImagesOnly ==
  \A w \in Wheels : \A i \in Refs(segs[w]) : owner[i] = WheelOwner[w]

\* The images an account got into the library within the window, the purged
\* ones included.
Charged(u) == {i \in Images : Inserted(i) /\ owner[i] = u /\ age[i] < Window}

\* The quota is checked before the upload and never again, so that simultaneous
\* uploads overshoot it, by the others in progress only; and no purge makes
\* room, since Grace is not shorter than Window.
QuotaOvershoot ==
  \A u \in Users :
    Cardinality(Charged(u)) <= MaxImagesPerDay + Cardinality(Uploaders) - 1

\* A save never lands on a wheel that was soft deleted while it ran: the
\* segments of a deleted wheel change only by losing a purged image.
DeletedWheelFrozen ==
  [][\A w \in Wheels :
       wheel[w] = "deleted" =>
         \/ segs'[w] = segs[w]
         \/ purge.pc = "locked" /\ segs'[w] = Stripped(segs[w], purge.cur)]_vars

\* An upload that handles this image is in progress.
Uploading(i) == \E p \in Uploaders : upload[p].img = i

\* Short of a crash and of a failing os.Remove, no file is left on the volume
\* for good: a temporary file belongs to an upload in progress, whichever
\* path the others took (images.go:157-160), and a published file without a
\* row is one that an upload is about to record or to remove, or one whose
\* row the janitor has just deleted.
FileAccounted(i) ==
  \/ file[i] = "none"
  \/ Uploading(i)
  \/ file[i] = "published" /\ row[i] = "present"
  \/ file[i] = "published" /\ purge.pc = "unlink" /\ purge.cur = i

NoLeakedFile == faults = 0 => \A i \in Images : FileAccounted(i)

\* Supprimer une roue reaches its images (store/images.go:92-98): an image
\* that is no longer referenced by a live wheel leaves the library, and
\* nothing can reference it any more, unless a live wheel takes it again.
OrphanCollected ==
  \A i \in Images :
    (row[i] = "present" /\ ~LiveReferenced(i)) ~> (row[i] = "deleted" \/ LiveReferenced(i))

\* Rows and files, kept apart by two stores that fail separately, look like the
\* one library of Gallery to every account: an image is in it from the moment
\* its row commits to the moment its row is deleted, with its file all along.
Library(u) == {i \in Images : row[i] = "present" /\ file[i] = "published" /\ owner[i] = u}

Promise == INSTANCE Gallery WITH
  library <- [u \in Users |-> Library(u)],
  gone <- {i \in Images : row[i] = "deleted"},
  shown <- segs

ImplementsGallery == Promise!GallerySpec

\* A save always ends, whichever locks the janitor holds: no lock of a wheel
\* or of an image is kept for ever.
EverySaveEnds == \A s \in Savers : (save[s].pc = "tx") ~> (save[s].pc = "idle")

-----------------------------------------------------------------------------
(* Inductive strengthenings, for the proofs                                *)

\* An image that a wheel of this account may display.
UsableFor(i, w) == row[i] = "present" /\ owner[i] = WheelOwner[w]

\* Committed references hold, those of open saves hold too, and the janitor
\* does not hold a row that an open save has locked.
SegmentsUsable == \A w \in Wheels : \A i \in Refs(segs[w]) : UsableFor(i, w)

SavesUsable ==
  \A s \in Savers : save[s].pc = "tx" =>
    \A k \in 1..save[s].done :
      k <= Len(save[s].want) /\ save[s].want[k] # NoImage => UsableFor(save[s].want[k], save[s].wheel)

PurgeExclusive == purge.pc = "locked" => ~KeyShared(purge.cur)

RefsInv == SegmentsUsable /\ SavesUsable /\ PurgeExclusive

\* Every image an upload handles is its own and not yet recorded, and its
\* file is where the upload has put it.
UploadsApart ==
  \A p, q \in Uploaders : p # q /\ upload[p].img # NoImage => upload[p].img # upload[q].img

UploadsPending ==
  \A p \in Uploaders : upload[p].img # NoImage =>
    /\ row[upload[p].img] = "pending"
    /\ upload[p].pc \in {"renamed", "undoing"} => file[upload[p].img] = "published"

\* The janitor deletes a row that is there and removes the file of a row that
\* is gone.
PurgeAfterRow ==
  /\ purge.pc \in {"waiting", "locked"} => row[purge.cur] = "present"
  /\ purge.pc = "unlink" => row[purge.cur] = "deleted"

FilesInv == RowHasFile /\ UploadsApart /\ UploadsPending /\ PurgeAfterRow

\* A wheel that does not exist yet has no segments, and an open save holds the
\* lock of a live wheel.
WheelsInv ==
  /\ \A w \in Wheels : wheel[w] = "absent" => Refs(segs[w]) = {}
  /\ \A s \in Savers : save[s].pc = "tx" => wheel[save[s].wheel] = "live"

\* An image that was drawn belongs to an account.
OwnedInv == \A i \in Images : row[i] # "unborn" => owner[i] \in Users

\* A wheel that references the image being deleted was saved meanwhile.
RacedInv ==
  purge.pc \in {"waiting", "locked"} =>
    \A w \in Wheels : (wheel[w] = "live" /\ purge.cur \in Refs(segs[w])) => w \in purge.raced

\* The account of an image is the one of the upload that drew it, and nobody
\* but this upload records it or touches its file before it is recorded.
UploadsHold ==
  \A p \in Uploaders : upload[p].img # NoImage =>
    /\ row[upload[p].img] # "unborn" /\ owner[upload[p].img] = upload[p].user
    /\ upload[p].pc \in {"written", "renamed"} => row[upload[p].img] = "pending"
    /\ upload[p].pc = "renamed" => file[upload[p].img] = "published"

HoldInv == UploadsApart /\ UploadsHold /\ PurgeAfterRow

\* The janitor takes images older than the grace period only, and no image
\* gets younger.
AgedInv ==
  /\ \A i \in Images : row[i] = "deleted" => age[i] > Grace
  /\ \A i \in purge.batch : Inserted(i) /\ age[i] > Grace
  /\ purge.pc \in {"waiting", "locked", "unlink"} => purge.cur \in purge.batch

\* The uploads of an account that have passed the quota and may still insert.
InFlight(u) ==
  {p \in Uploaders : upload[p].pc \in {"counted", "written", "renamed"} /\ upload[p].user = u}

\* Every upload that is still to insert has its place in the overshoot.
WithinQuota(u) ==
  /\ IsFiniteSet(Charged(u))
  /\ Cardinality(Charged(u)) + Cardinality(InFlight(u))
       <= MaxImagesPerDay + Cardinality(Uploaders) - 1

QuotaInv == \A u \in Users : WithinQuota(u)
=============================================================================
