-------------------------- MODULE ImageStoreProofs --------------------------
(***************************************************************************)
(* Theorems about ImageStore, for every set of images, accounts, wheels    *)
(* and requests, every bound, and any number of faults.                    *)
(***************************************************************************)
EXTENDS ImageStore, FiniteSetTheorems, TLAPS

(***************************************************************************)
(* Facts about lists of segments.                                          *)
(***************************************************************************)

\* A list of segments is a sequence whose positions are 1 to its length.
LEMMA ListDomain ==
  ASSUME NEW list \in StoredLists
  PROVE  /\ Len(list) \in Nat
         /\ DOMAIN list = 1..Len(list)
         /\ \A k \in DOMAIN list : list[k] \in ImageRef
<1>1. PICK n \in {0} \cup (MinSegments..MaxSegments) : list \in [1..n -> ImageRef]
  BY DEF StoredLists
<1>2. n \in Nat
  BY BoundsAssumption
<1>3. list \in Seq(ImageRef)
  BY <1>1, <1>2
<1> QED
  BY <1>1, <1>3

\* What a save may send is something a wheel may hold.
LEMMA ListsStored == Lists \subseteq StoredLists
  BY DEF Lists, StoredLists

\* A new wheel's empty list is something a wheel may hold.
LEMMA EmptyStored == <<>> \in StoredLists
<1>1. <<>> \in [1..0 -> ImageRef]
  OBVIOUS
<1> QED
  BY <1>1 DEF StoredLists

\* Taking an image out of a list keeps it a list, removes that image and
\* brings no other one in.
LEMMA StrippedFacts ==
  ASSUME NEW list \in StoredLists, NEW i \in Images
  PROVE  /\ Stripped(list, i) \in StoredLists
         /\ Refs(Stripped(list, i)) \subseteq Refs(list) \ {i}
<1>1. PICK n \in {0} \cup (MinSegments..MaxSegments) : list \in [1..n -> ImageRef]
  BY DEF StoredLists
<1>2. Stripped(list, i) \in [1..n -> ImageRef]
  BY <1>1 DEF Stripped, ImageRef
<1>3. Stripped(list, i) \in StoredLists
  BY <1>2 DEF StoredLists
<1>4. Refs(Stripped(list, i)) \subseteq Refs(list) \ {i}
  BY <1>1, ImagesAssumption DEF Refs, Stripped, ImageRef
<1> QED
  BY <1>3, <1>4

(***************************************************************************)
(* Types.                                                                  *)
(***************************************************************************)

LEMMA InitTypes == Init => TypeOK
<1> SUFFICES ASSUME Init PROVE TypeOK
  OBVIOUS
<1>1. segs \in [Wheels -> StoredLists]
  BY EmptyStored DEF Init
<1> QED
  BY <1>1, AgesAssumption, BoundsAssumption
  DEF Init, TypeOK, UploadStates, SaveStates, PurgeStates, ImageRef


\* The janitor's state is a record with these fields.
LEMMA PurgeRecord ==
  ASSUME TypeOK
  PROVE  purge \in [pc : {"idle", "scan", "waiting", "locked", "unlink"},
                    batch : SUBSET Images, cur : ImageRef, raced : SUBSET Wheels]
  BY DEF TypeOK, PurgeStates, IdlePurge, ImageRef

\* The janitor's next state is one of its states.
LEMMA NextOfTypes ==
  ASSUME purge \in PurgeStates, NEW i
  PROVE  NextOf(i) \in PurgeStates
<1>1. purge.batch \subseteq Images
  BY DEF PurgeStates, IdlePurge
<1>2. CASE purge.batch = {i}
  BY <1>2 DEF NextOf, PurgeStates, IdlePurge
<1>3. CASE purge.batch # {i}
  BY <1>1, <1>3 DEF NextOf, PurgeStates
<1> QED
  BY <1>2, <1>3

\* Every step keeps the types.
LEMMA StepTypes == TypeOK /\ [Next]_vars => TypeOK'
<1> SUFFICES ASSUME TypeOK, [Next]_vars PROVE TypeOK'
  OBVIOUS
<1> USE DEF TypeOK
<1>1. ASSUME NEW p \in Uploaders, NEW u \in Users, UploadCount(p, u) PROVE TypeOK'
  BY <1>1 DEF UploadCount, UploadStates
<1>2. ASSUME NEW p \in Uploaders, UploadStep(p) PROVE TypeOK'
  <2>1. upload[p].pc \in {"written", "renamed", "undoing"} =>
          /\ upload[p].img \in Images /\ upload[p].user \in Users
          /\ upload[p] \in [pc : {"written", "renamed", "undoing"},
                            img : Images, user : Users]
    BY DEF UploadStates, IdleUpload
  <2>2. upload[p].pc = "counted" => upload[p].user \in Users
                                   /\ upload[p] \in [pc : {"counted"}, img : {NoImage}, user : Users]
    BY DEF UploadStates, IdleUpload
  <2>3. CASE UploadWrite(p)
    <3>1. PICK i \in Images :
            /\ row' = [row EXCEPT ![i] = "pending"]
            /\ owner' = [owner EXCEPT ![i] = upload[p].user]
            /\ file' = [file EXCEPT ![i] = "tmp"]
            /\ upload' = [upload EXCEPT ![p].pc = "written", ![p].img = i]
      BY <2>3 DEF UploadWrite
    <3>2. upload[p].pc = "counted"
      BY <2>3 DEF UploadWrite
    <3>3. upload'[p] \in [pc : {"written"}, img : Images, user : Users]
      BY <2>2, <3>1, <3>2
    <3>4. upload' \in [Uploaders -> UploadStates]
      BY <3>1, <3>3 DEF UploadStates
    <3> QED
      BY <2>2, <2>3, <3>1, <3>2, <3>4 DEF UploadWrite
  <2>4. CASE UploadFail(p)
    BY <2>1, <2>4 DEF UploadFail, UploadStates
  <2>5. CASE UploadRename(p)
    BY <2>1, <2>5 DEF UploadRename, UploadStates
  <2>6. CASE CreateImage(p)
    BY <2>1, <2>6, AgesAssumption DEF CreateImage, UploadStates
  <2>7. CASE UploadUndo(p)
    BY <2>1, <2>7 DEF UploadUndo, UploadStates
  <2> QED
    BY <1>2, <2>3, <2>4, <2>5, <2>6, <2>7 DEF UploadStep
<1>3. ASSUME NEW w \in Wheels, CreateWheel(w) \/ SoftDeleteWheel(w) PROVE TypeOK'
  BY <1>3 DEF CreateWheel, SoftDeleteWheel
<1>4. ASSUME NEW s \in Savers, NEW w \in Wheels, NEW list \in Lists, SaveBegin(s, w, list)
      PROVE TypeOK'
  BY <1>4 DEF SaveBegin, SaveStates
<1>5. ASSUME NEW s \in Savers, SaveStep(s) PROVE TypeOK'
  <2>1. save[s].pc = "tx" =>
          /\ save[s] \in [pc : {"tx"}, wheel : Wheels, want : Lists, done : Nat]
          /\ save[s].wheel \in Wheels /\ save[s].want \in Lists /\ save[s].done \in Nat
    BY DEF SaveStates, IdleSave
  <2>2. CASE SaveInsert(s)
    <3>1. save[s].pc = "tx"
      BY <2>2 DEF SaveInsert, MoreToInsert
    <3>2. save'[s] \in SaveStates
      BY <2>1, <2>2, <3>1 DEF SaveInsert, SaveStates
    <3> QED
      BY <2>2, <3>2 DEF SaveInsert
  <2>3. CASE SaveRefuse(s)
    BY <2>3 DEF SaveRefuse, SaveStates
  <2>4. CASE SaveCommit(s)
    <3>1. /\ save[s].pc = "tx"
          /\ segs' = [segs EXCEPT ![save[s].wheel] = save[s].want]
          /\ save' = [save EXCEPT ![s] = IdleSave]
          /\ UNCHANGED <<wheel, row, owner, age, file, upload, faults>>
      BY <2>4 DEF SaveCommit
    <3>2. segs' \in [Wheels -> StoredLists]
      BY <2>1, <3>1, ListsStored
    <3>3. purge' \in PurgeStates
      <4>1. CASE purge.pc \in {"waiting", "locked"}
        <5>1. purge \in [pc : {"waiting", "locked", "unlink"},
                         batch : SUBSET Images, cur : Images, raced : SUBSET Wheels]
          BY <4>1 DEF PurgeStates, IdlePurge
        <5>2. purge' = [purge EXCEPT !.raced = purge.raced \cup {save[s].wheel}]
          BY <2>4, <4>1 DEF SaveCommit
        <5> QED
          BY <2>1, <3>1, <5>1, <5>2 DEF PurgeStates
      <4>2. CASE purge.pc \notin {"waiting", "locked"}
        BY <2>4, <4>2 DEF SaveCommit, PurgeStates, IdlePurge
      <4> QED
        BY <4>1, <4>2
    <3> QED
      BY <3>1, <3>2, <3>3 DEF SaveStates
  <2>5. CASE DeadlockVictim(s)
    BY <2>5, NextOfTypes DEF DeadlockVictim, PurgeDeadlocked, SaveStates
  <2> QED
    BY <1>5, <2>2, <2>3, <2>4, <2>5 DEF SaveStep
<1>6. ASSUME NEW s \in Savers, SaveAbort(s) PROVE TypeOK'
  BY <1>6, BoundsAssumption DEF SaveAbort, SaveStates, Fault
<1>7. CASE PurgeStep
  <2>1. CASE PurgeList
    <3>1. purge = IdlePurge /\ FirstOrphans \subseteq Images
      BY <2>1 DEF PurgeList, PurgeStates, FirstOrphans, Orphans
    <3>2. purge' = [IdlePurge EXCEPT !.pc = "scan", !.batch = FirstOrphans]
      BY <2>1, <3>1 DEF PurgeList
    <3>3. purge' \in PurgeStates
      BY <3>1, <3>2 DEF PurgeStates, IdlePurge
    <3> QED
      BY <2>1, <3>3 DEF PurgeList
  <2>2. CASE PurgeLock
    BY <2>2 DEF PurgeLock, PurgeStates, IdlePurge
  <2>3. CASE PurgeCommit
    <3>1. purge.cur \in Images
      BY <2>3 DEF PurgeCommit, PurgeStates, IdlePurge
    <3>2. segs' \in [Wheels -> StoredLists]
      BY <2>3, <3>1, StrippedFacts DEF PurgeCommit
    <3>3. purge' \in PurgeStates
      BY <2>3 DEF PurgeCommit, PurgeStates, IdlePurge
    <3> QED
      BY <2>3, <3>1, <3>2, <3>3 DEF PurgeCommit
  <2>4. CASE PurgeUnlink
    BY <2>4, NextOfTypes DEF PurgeUnlink
  <2>5. ASSUME NEW i \in Images, PurgeDelete(i) PROVE TypeOK'
    <3>1. purge' \in PurgeStates
      <4>1. purge \in [pc : {"scan"}, batch : SUBSET Images, cur : {NoImage}, raced : {{}}]
        BY <2>5 DEF PurgeDelete, PurgeStates, IdlePurge
      <4>2. CASE Deletable(i)
        <5>1. purge' = [purge EXCEPT !.pc = "waiting", !.cur = i, !.raced = {}]
          BY <2>5, <4>2 DEF PurgeDelete
        <5> QED
          BY <4>1, <5>1 DEF PurgeStates
      <4>3. CASE ~Deletable(i)
        BY <2>5, <4>3, NextOfTypes DEF PurgeDelete
      <4> QED
        BY <4>2, <4>3
    <3> QED
      BY <2>5, <3>1 DEF PurgeDelete
  <2> QED
    BY <1>7, <2>1, <2>2, <2>3, <2>4, <2>5 DEF PurgeStep
<1>8. CASE PurgeSkip \/ UnlinkFails
  BY <1>8, NextOfTypes, BoundsAssumption DEF PurgeSkip, UnlinkFails, Fault
<1>9. CASE Tick
  BY <1>9, AgesAssumption DEF Tick, Older
<1>10. CASE Crash
  BY <1>10, BoundsAssumption DEF Crash, Fault, UploadStates, SaveStates, PurgeStates
<1>11. CASE UNCHANGED vars
  BY <1>11 DEF vars
<1> QED
  BY <1>1, <1>2, <1>3, <1>4, <1>5, <1>6, <1>7, <1>8, <1>9, <1>10, <1>11 DEF Next

\* Type correctness of the image library.
THEOREM TypeCorrect == Spec => []TypeOK
<1>1. TypeOK /\ [Next]_vars => TypeOK'
  BY StepTypes
<1> QED
  BY <1>1, InitTypes, PTL DEF Spec

(***************************************************************************)
(* References: every image a list holds has its row, and belongs to the    *)
(* owner of the wheel.                                                     *)
(***************************************************************************)

LEMMA InitRefs == Init => RefsInv
<1> SUFFICES ASSUME Init PROVE RefsInv
  OBVIOUS
<1>1. \A w \in Wheels : Refs(segs[w]) = {}
  BY DEF Init, Refs
<1>2. SegmentsUsable
  BY <1>1 DEF SegmentsUsable
<1>3. SavesUsable /\ PurgeExclusive
  BY DEF Init, SavesUsable, PurgeExclusive, IdleSave, IdlePurge
<1> QED
  BY <1>2, <1>3 DEF RefsInv

\* A step that takes no row away, saves no list and starts nothing in the
\* tables of locks keeps the references.
LEMMA RefsFrame ==
  ASSUME TypeOK, RefsInv,
         \A i \in Images, w \in Wheels : UsableFor(i, w) => UsableFor(i, w)',
         UNCHANGED segs,
         \A s \in Savers : save'[s] = save[s] \/ save'[s] = IdleSave,
         purge'.pc = "locked" => purge.pc = "locked" /\ purge'.cur = purge.cur
  PROVE  RefsInv'
<1>1. SegmentsUsable'
  <2> SUFFICES ASSUME NEW w \in Wheels, NEW i \in Refs(segs[w])
               PROVE  UsableFor(i, w)'
    BY DEF SegmentsUsable
  <2>1. i \in Images
    BY ListDomain DEF TypeOK, Refs, ImageRef
  <2> QED
    BY <2>1 DEF RefsInv, SegmentsUsable
<1>2. SavesUsable'
  <2> SUFFICES ASSUME NEW s \in Savers, save'[s].pc = "tx", NEW k \in 1..save'[s].done,
                      k <= Len(save'[s].want), save'[s].want[k] # NoImage
               PROVE  UsableFor(save[s].want[k], save[s].wheel)'
    BY DEF SavesUsable
  <2>1. save'[s] = save[s]
    BY DEF IdleSave
  <2>2. UsableFor(save[s].want[k], save[s].wheel)
    BY <2>1 DEF RefsInv, SavesUsable
  <2>3. save[s].wheel \in Wheels
    BY <2>1 DEF TypeOK, SaveStates, IdleSave
  <2>4. save[s].want[k] \in Images
    <3>1. save[s].want \in StoredLists /\ save[s].done \in Nat
      BY <2>1, ListsStored DEF TypeOK, SaveStates, IdleSave
    <3>2. k \in 1..Len(save[s].want)
      BY <2>1, <3>1, ListDomain
    <3> QED
      BY <2>1, <3>1, <3>2, ListDomain DEF ImageRef
  <2> QED
    BY <2>1, <2>2, <2>3, <2>4 DEF UsableFor
<1>3. PurgeExclusive'
  BY DEF RefsInv, PurgeExclusive, KeyShared, IdleSave
<1> QED
  BY <1>1, <1>2, <1>3 DEF RefsInv

\* A refused, cancelled or failed request, or the death of the process, takes
\* no row away.
LEMMA StepRefs == TypeOK /\ RefsInv /\ [Next]_vars => RefsInv'
<1> SUFFICES ASSUME TypeOK, RefsInv, [Next]_vars PROVE RefsInv'
  OBVIOUS
<1>1. ASSUME NEW p \in Uploaders, NEW u \in Users, UploadCount(p, u) PROVE RefsInv'
  BY <1>1, RefsFrame DEF UploadCount, UsableFor
<1>2. ASSUME NEW p \in Uploaders, UploadStep(p) PROVE RefsInv'
  <2>1. \A i \in Images, w \in Wheels : UsableFor(i, w) => UsableFor(i, w)'
    BY <1>2 DEF UploadStep, UploadWrite, UploadFail, UploadRename, CreateImage, UploadUndo,
                UsableFor, TypeOK
  <2>2. UNCHANGED <<segs, save, purge>>
    BY <1>2 DEF UploadStep, UploadWrite, UploadFail, UploadRename, CreateImage, UploadUndo
  <2> QED
    BY <2>1, <2>2, RefsFrame
<1>3. ASSUME NEW w \in Wheels, CreateWheel(w) \/ SoftDeleteWheel(w) PROVE RefsInv'
  BY <1>3, RefsFrame DEF CreateWheel, SoftDeleteWheel, UsableFor
<1>4. ASSUME NEW s \in Savers, NEW w \in Wheels, NEW list \in Lists, SaveBegin(s, w, list)
      PROVE RefsInv'
  <2>1. save' = [save EXCEPT ![s] = [pc |-> "tx", wheel |-> w, want |-> list, done |-> 0]]
        /\ UNCHANGED <<segs, row, owner, purge>>
    BY <1>4 DEF SaveBegin
  <2>2. SegmentsUsable'
    BY <2>1 DEF RefsInv, SegmentsUsable, UsableFor
  <2>3. SavesUsable'
    BY <2>1 DEF RefsInv, SavesUsable, UsableFor, TypeOK
  <2>4. PurgeExclusive'
    BY <2>1 DEF RefsInv, PurgeExclusive, KeyShared, TypeOK
  <2> QED
    BY <2>2, <2>3, <2>4 DEF RefsInv
<1>5. ASSUME NEW s \in Savers, SaveInsert(s) PROVE RefsInv'
  <2>1. /\ save' = [save EXCEPT ![s].done = @ + 1]
        /\ save[s].pc = "tx"
        /\ UNCHANGED <<segs, row, owner, purge>>
    BY <1>5 DEF SaveInsert, MoreToInsert
  <2>2. save[s].done \in Nat /\ save[s].want \in Lists
    BY <2>1 DEF TypeOK, SaveStates, IdleSave
  <2>3. /\ save'[s].done = save[s].done + 1
        /\ save'[s].pc = "tx" /\ save'[s].want = save[s].want /\ save'[s].wheel = save[s].wheel
    BY <2>1, <2>2 DEF TypeOK, SaveStates, IdleSave
  <2>4. \A k \in 1..save'[s].done : k \in 1..save[s].done \/ k = save[s].done + 1
    BY <2>2, <2>3
  <2>5. SegmentsUsable'
    BY <2>1 DEF RefsInv, SegmentsUsable, UsableFor
  <2>6. SavesUsable'
    <3> SUFFICES ASSUME NEW t \in Savers, save'[t].pc = "tx", NEW k \in 1..save'[t].done,
                        k <= Len(save'[t].want), save'[t].want[k] # NoImage
                 PROVE  UsableFor(save[t].want[k], save[t].wheel)'
      BY DEF SavesUsable
    <3>1. CASE t # s
      BY <2>1, <3>1 DEF RefsInv, SavesUsable, UsableFor, TypeOK
    <3>2. CASE t = s /\ k \in 1..save[s].done
      BY <2>1, <2>3, <3>2 DEF RefsInv, SavesUsable, UsableFor
    <3>3. CASE t = s /\ k = save[s].done + 1
      BY <1>5, <2>1, <2>3, <3>3 DEF SaveInsert, Usable, Wanted, UsableFor
    <3> QED
      BY <2>4, <3>1, <3>2, <3>3
  <2>7. PurgeExclusive'
    <3> SUFFICES ASSUME purge.pc = "locked", NEW t \in Savers, save'[t].pc = "tx",
                        NEW k \in 1..save'[t].done, save'[t].want[k] = purge.cur
                 PROVE  FALSE
      BY <2>1 DEF PurgeExclusive, KeyShared
    <3>1. CASE t # s
      BY <2>1, <3>1 DEF RefsInv, PurgeExclusive, KeyShared, TypeOK
    <3>2. CASE t = s /\ k \in 1..save[s].done
      BY <2>1, <2>3, <3>2 DEF RefsInv, PurgeExclusive, KeyShared
    <3>3. CASE t = s /\ k = save[s].done + 1
      BY <1>5, <2>3, <3>3 DEF SaveInsert, LockedByPurge, Wanted
    <3> QED
      BY <2>4, <3>1, <3>2, <3>3
  <2> QED
    BY <2>5, <2>6, <2>7 DEF RefsInv
<1>6. ASSUME NEW s \in Savers, SaveCommit(s) PROVE RefsInv'
  <2>1. /\ save[s].pc = "tx" /\ save[s].done = Len(save[s].want)
        /\ segs' = [segs EXCEPT ![save[s].wheel] = save[s].want]
        /\ save' = [save EXCEPT ![s] = IdleSave]
        /\ UNCHANGED <<row, owner>>
    BY <1>6 DEF SaveCommit
  <2>2. purge'.pc = purge.pc /\ purge'.cur = purge.cur
    BY <1>6 DEF SaveCommit, TypeOK, PurgeStates, IdlePurge
  <2>3. save[s].want \in StoredLists /\ save[s].wheel \in Wheels
    BY <2>1, ListsStored DEF TypeOK, SaveStates, IdleSave
  <2>4. \A i \in Refs(save[s].want) : UsableFor(i, save[s].wheel)
    BY <2>1, <2>3, ListDomain DEF Refs, RefsInv, SavesUsable
  <2>5. SegmentsUsable'
    BY <2>1, <2>3, <2>4 DEF RefsInv, SegmentsUsable, UsableFor, TypeOK
  <2>6. SavesUsable'
    BY <2>1 DEF RefsInv, SavesUsable, UsableFor, TypeOK, IdleSave
  <2>7. PurgeExclusive'
    BY <2>1, <2>2 DEF RefsInv, PurgeExclusive, KeyShared, TypeOK, IdleSave
  <2> QED
    BY <2>5, <2>6, <2>7 DEF RefsInv
<1>7. ASSUME NEW s \in Savers, SaveRefuse(s) \/ SaveAbort(s) PROVE RefsInv'
  BY <1>7, RefsFrame DEF SaveRefuse, SaveAbort, UsableFor, TypeOK
<1>8. ASSUME NEW s \in Savers, DeadlockVictim(s) PROVE RefsInv'
  <2>1. \A t \in Savers : save'[t] = save[t] \/ save'[t] = IdleSave
    BY <1>8 DEF DeadlockVictim, TypeOK
  <2>2. purge'.pc = "locked" => purge' = purge
    BY <1>8 DEF DeadlockVictim, NextOf
  <2>3. UNCHANGED <<segs, row, owner>>
    BY <1>8 DEF DeadlockVictim
  <2> QED
    BY <2>1, <2>2, <2>3, RefsFrame DEF UsableFor
<1>9. CASE PurgeList
  BY <1>9, RefsFrame DEF PurgeList, UsableFor, TypeOK, PurgeStates, IdlePurge
<1>10. ASSUME NEW i \in Images, PurgeDelete(i) PROVE RefsInv'
  <2>1. purge'.pc # "locked"
    BY <1>10 DEF PurgeDelete, NextOf, TypeOK, PurgeStates, IdlePurge
  <2> QED
    BY <1>10, <2>1, RefsFrame DEF PurgeDelete, UsableFor
<1>11. CASE PurgeLock
  <2>1. UNCHANGED <<segs, row, owner, save>> /\ purge'.cur = purge.cur /\ ~KeyShared(purge.cur)
    BY <1>11 DEF PurgeLock, TypeOK, PurgeStates, IdlePurge
  <2> QED
    BY <2>1 DEF RefsInv, SegmentsUsable, SavesUsable, PurgeExclusive, KeyShared, UsableFor
<1>12. CASE PurgeCommit
  <2>1. /\ purge.pc = "locked" /\ purge.cur \in Images
        /\ row' = [row EXCEPT ![purge.cur] = "deleted"]
        /\ segs' = [w \in Wheels |-> Stripped(segs[w], purge.cur)]
        /\ purge'.pc = "unlink"
        /\ UNCHANGED <<owner, save>>
    BY <1>12 DEF PurgeCommit, TypeOK, PurgeStates, IdlePurge
  <2>2. \A i \in Images, w \in Wheels :
          i # purge.cur /\ UsableFor(i, w) => UsableFor(i, w)'
    BY <2>1 DEF UsableFor, TypeOK
  <2>3. SegmentsUsable'
    <3> SUFFICES ASSUME NEW w \in Wheels, NEW i \in Refs(segs'[w])
                 PROVE  UsableFor(i, w)'
      BY DEF SegmentsUsable
    <3>1. i \in Refs(segs[w]) \ {purge.cur}
      BY <2>1, StrippedFacts DEF TypeOK
    <3>2. i \in Images
      BY <3>1, ListDomain DEF TypeOK, Refs, ImageRef
    <3> QED
      BY <2>2, <3>1, <3>2 DEF RefsInv, SegmentsUsable
  <2>4. SavesUsable'
    <3> SUFFICES ASSUME NEW s \in Savers, save[s].pc = "tx", NEW k \in 1..save[s].done,
                        k <= Len(save[s].want), save[s].want[k] # NoImage
                 PROVE  UsableFor(save[s].want[k], save[s].wheel)'
      BY <2>1 DEF SavesUsable
    <3>1. UsableFor(save[s].want[k], save[s].wheel)
      BY DEF RefsInv, SavesUsable
    <3>2. save[s].want[k] # purge.cur
      BY <2>1 DEF RefsInv, PurgeExclusive, KeyShared
    <3>3. save[s].wheel \in Wheels
      BY DEF TypeOK, SaveStates, IdleSave
    <3> QED
      BY <2>1, <3>1, <3>2, <3>3 DEF UsableFor, TypeOK
  <2>5. PurgeExclusive'
    BY <2>1 DEF PurgeExclusive
  <2> QED
    BY <2>3, <2>4, <2>5 DEF RefsInv
<1>13. CASE PurgeUnlink \/ PurgeSkip \/ UnlinkFails
  <2>1. purge'.pc # "locked"
    BY <1>13 DEF PurgeUnlink, PurgeSkip, UnlinkFails, NextOf
  <2> QED
    BY <1>13, <2>1, RefsFrame DEF PurgeUnlink, PurgeSkip, UnlinkFails, UsableFor
<1>14. CASE Tick
  BY <1>14, RefsFrame DEF Tick, UsableFor
<1>15. CASE Crash
  BY <1>15, RefsFrame DEF Crash, UsableFor, IdlePurge
<1>16. CASE UNCHANGED vars
  BY <1>16, RefsFrame DEF vars, UsableFor
<1> QED
  BY <1>1, <1>2, <1>3, <1>4, <1>5, <1>6, <1>7, <1>8, <1>9, <1>10, <1>11, <1>12, <1>13,
     <1>14, <1>15, <1>16 DEF Next, SaveStep, PurgeStep

\* An account never displays an image of another one, whatever uploads, saves
\* and purges do at the same time.
THEOREM ImagesStayWithOwner == Spec => []OwnImagesOnly
<1>1. Init => TypeOK /\ RefsInv
  BY InitTypes, InitRefs
<1>2. TypeOK /\ RefsInv /\ [Next]_vars => (TypeOK /\ RefsInv)'
  BY StepTypes, StepRefs
<1>3. RefsInv => OwnImagesOnly
  BY DEF RefsInv, SegmentsUsable, UsableFor, OwnImagesOnly
<1> QED
  BY <1>1, <1>2, <1>3, PTL DEF Spec

(***************************************************************************)
(* Files: a row never lacks its file, as long as an INSERT that reports an *)
(* error has inserted nothing.                                             *)
(***************************************************************************)

LEMMA InitFiles == Init => FilesInv
  BY DEF Init, FilesInv, RowHasFile, UploadsApart, UploadsPending, PurgeAfterRow,
         IdleUpload, IdlePurge

\* A step that leaves rows, files and uploads alone, and removes no file,
\* keeps the files.
LEMMA FilesFrame ==
  ASSUME FilesInv, UNCHANGED <<row, file, upload>>,
         purge'.pc \in {"waiting", "locked", "unlink"} =>
           purge'.cur = purge.cur /\ (purge'.pc = "unlink" <=> purge.pc = "unlink")
                                  /\ purge.pc \in {"waiting", "locked", "unlink"}
  PROVE  FilesInv'
  BY DEF FilesInv, RowHasFile, UploadsApart, UploadsPending, PurgeAfterRow

\* An upload handles an image in the states that follow the drawing of its
\* identifier, and in no other.
LEMMA UploadHolds ==
  ASSUME TypeOK, NEW p \in Uploaders
  PROVE  /\ upload[p].pc \in {"written", "renamed", "undoing"} <=> upload[p].img # NoImage
         /\ upload[p].img # NoImage => upload[p].img \in Images
  BY ImagesAssumption DEF TypeOK, UploadStates, IdleUpload

\* A step of an upload keeps the files.
LEMMA UploadStepFiles ==
  ASSUME TypeOK, FilesInv, "lost" \notin InsertOutcomes,
         NEW p \in Uploaders, UploadStep(p)
  PROVE  FilesInv'
<1> USE DEF FilesInv
<1>1. UNCHANGED purge
  BY DEF UploadStep, UploadWrite, UploadFail, UploadRename, CreateImage, UploadUndo
<1>2. CASE UploadWrite(p)
  <2>1. PICK i \in Images :
          /\ row[i] = "unborn"
          /\ row' = [row EXCEPT ![i] = "pending"]
          /\ file' = [file EXCEPT ![i] = "tmp"]
          /\ upload' = [upload EXCEPT ![p].pc = "written", ![p].img = i]
    BY <1>2 DEF UploadWrite
  <2>2. upload'[p].pc = "written" /\ upload'[p].img = i
    <3>1. upload[p] \in [pc : {"counted"}, img : {NoImage}, user : Users]
      BY <1>2 DEF UploadWrite, TypeOK, UploadStates, IdleUpload
    <3> QED
      BY <2>1, <3>1 DEF TypeOK
  <2>3. \A q \in Uploaders : q # p => upload'[q] = upload[q]
    BY <2>1 DEF TypeOK
  <2>4. \A q \in Uploaders : q # p /\ upload[q].img # NoImage =>
          upload[q].img \in Images /\ upload[q].img # i
    BY <2>1, UploadHolds DEF UploadsPending
  <2>5. RowHasFile'
    BY <2>1 DEF RowHasFile, TypeOK
  <2>6. UploadsApart'
    BY <2>2, <2>3, <2>4 DEF UploadsApart
  <2>7. UploadsPending'
    BY <2>1, <2>2, <2>3, <2>4 DEF UploadsPending, TypeOK
  <2>8. PurgeAfterRow'
    BY <1>1, <2>1 DEF PurgeAfterRow, TypeOK
  <2> QED
    BY <2>5, <2>6, <2>7, <2>8
<1>3. ASSUME upload[p].img \in Images,
             \A q \in Uploaders : q # p => upload'[q] = upload[q],
             upload'[p] = IdleUpload, UNCHANGED row,
             file' = [file EXCEPT ![upload[p].img] = "none"]
      PROVE  FilesInv'
  <2>1. upload[p].img # NoImage /\ row[upload[p].img] = "pending"
    BY <1>3, ImagesAssumption DEF UploadsPending
  <2>2. \A q \in Uploaders : q # p => upload[q].img # upload[p].img
    BY <2>1 DEF UploadsApart
  <2>3. RowHasFile'
    BY <1>3, <2>1 DEF RowHasFile, TypeOK
  <2>4. UploadsApart'
    BY <1>3 DEF UploadsApart, IdleUpload
  <2>5. UploadsPending'
    BY <1>3, <2>2, UploadHolds DEF UploadsPending, IdleUpload, TypeOK
  <2>6. PurgeAfterRow'
    BY <1>1, <1>3 DEF PurgeAfterRow
  <2> QED
    BY <2>3, <2>4, <2>5, <2>6
<1>4. CASE UploadFail(p)
  <2>1. upload[p].img \in Images
    BY <1>4, UploadHolds DEF UploadFail
  <2> QED
    BY <1>3, <1>4, <2>1 DEF UploadFail, TypeOK
<1>5. CASE UploadUndo(p)
  <2>1. upload[p].img \in Images
    BY <1>5, UploadHolds DEF UploadUndo
  <2> QED
    BY <1>3, <1>5, <2>1 DEF UploadUndo, TypeOK
<1>6. CASE UploadRename(p)
  <2>1. upload[p].img \in Images /\ upload[p].img # NoImage
    BY <1>6, UploadHolds, ImagesAssumption DEF UploadRename
  <2>2. /\ upload'[p].img = upload[p].img
        /\ \A q \in Uploaders : upload'[q].img = upload[q].img
        /\ \A q \in Uploaders : q # p => upload'[q] = upload[q]
    BY <1>6 DEF UploadRename, TypeOK, UploadStates, IdleUpload
  <2>3. file' = [file EXCEPT ![upload[p].img] = "published"] /\ UNCHANGED row
    BY <1>6 DEF UploadRename
  <2>4. RowHasFile' /\ UploadsApart'
    BY <2>1, <2>2, <2>3 DEF RowHasFile, UploadsApart, TypeOK
  <2>5. UploadsPending'
    BY <2>1, <2>2, <2>3, UploadHolds DEF UploadsPending, TypeOK
  <2>6. PurgeAfterRow'
    BY <1>1, <2>3 DEF PurgeAfterRow
  <2> QED
    BY <2>4, <2>5, <2>6
<1>7. CASE CreateImage(p)
  <2>1. /\ upload[p].pc = "renamed" /\ upload[p].img \in Images /\ upload[p].img # NoImage
        /\ UNCHANGED file
    BY <1>7, UploadHolds, ImagesAssumption DEF CreateImage
  <2>2. row[upload[p].img] = "pending" /\ file[upload[p].img] = "published"
    BY <2>1 DEF UploadsPending
  <2>3. \/ /\ row' = [row EXCEPT ![upload[p].img] = "present"]
           /\ upload' = [upload EXCEPT ![p] = IdleUpload]
        \/ /\ UNCHANGED row
           /\ upload' = [upload EXCEPT ![p] = [upload[p] EXCEPT !.pc = "undoing"]]
    BY <1>7, OutcomesAssumption DEF CreateImage
  <2>4. CASE /\ row' = [row EXCEPT ![upload[p].img] = "present"]
             /\ upload' = [upload EXCEPT ![p] = IdleUpload]
    <3>1. \A q \in Uploaders : q # p => upload'[q] = upload[q] /\ upload[q].img # upload[p].img
      BY <2>1, <2>4 DEF UploadsApart, TypeOK
    <3>2. upload'[p] = IdleUpload
      BY <2>4 DEF TypeOK
    <3>3. RowHasFile'
      BY <2>1, <2>2, <2>4 DEF RowHasFile, TypeOK
    <3>4. UploadsApart'
      BY <3>1, <3>2 DEF UploadsApart, IdleUpload
    <3>5. UploadsPending'
      BY <2>1, <2>4, <3>1, <3>2, UploadHolds DEF UploadsPending, IdleUpload, TypeOK
    <3>6. PurgeAfterRow'
      BY <1>1, <2>1, <2>2, <2>4 DEF PurgeAfterRow, TypeOK
    <3> QED
      BY <3>3, <3>4, <3>5, <3>6
  <2>5. CASE /\ UNCHANGED row
             /\ upload' = [upload EXCEPT ![p] = [upload[p] EXCEPT !.pc = "undoing"]]
    <3>1. \A q \in Uploaders : upload'[q].img = upload[q].img
      BY <2>1, <2>5 DEF TypeOK, UploadStates, IdleUpload
    <3>2. \A q \in Uploaders : q # p => upload'[q] = upload[q]
      BY <2>5 DEF TypeOK
    <3> QED
      BY <1>1, <2>1, <2>2, <2>5, <3>1, <3>2
      DEF RowHasFile, UploadsApart, UploadsPending, PurgeAfterRow
  <2> QED
    BY <2>3, <2>4, <2>5
<1> QED
  BY <1>2, <1>4, <1>5, <1>6, <1>7 DEF UploadStep

\* Every step keeps the files.
LEMMA StepFiles ==
  "lost" \notin InsertOutcomes /\ TypeOK /\ FilesInv /\ [Next]_vars => FilesInv'
<1> SUFFICES ASSUME "lost" \notin InsertOutcomes, TypeOK, FilesInv, [Next]_vars
             PROVE  FilesInv'
  OBVIOUS
<1>1. ASSUME NEW p \in Uploaders, NEW u \in Users, UploadCount(p, u) PROVE FilesInv'
  <2>1. /\ \A q \in Uploaders : upload'[q].img = upload[q].img
        /\ \A q \in Uploaders : upload'[q].pc \in {"renamed", "undoing"} => upload'[q] = upload[q]
        /\ UNCHANGED <<row, file, purge>>
    BY <1>1 DEF UploadCount, TypeOK, UploadStates, IdleUpload
  <2> QED
    BY <2>1 DEF FilesInv, RowHasFile, UploadsApart, UploadsPending, PurgeAfterRow
<1>2. ASSUME NEW p \in Uploaders, UploadStep(p) PROVE FilesInv'
  BY <1>2, UploadStepFiles
<1>3. ASSUME NEW w \in Wheels, CreateWheel(w) \/ SoftDeleteWheel(w) PROVE FilesInv'
  BY <1>3, FilesFrame DEF CreateWheel, SoftDeleteWheel
<1>4. ASSUME NEW s \in Savers,
             \/ \E w \in Wheels, list \in Lists : SaveBegin(s, w, list)
             \/ SaveInsert(s) \/ SaveRefuse(s) \/ SaveAbort(s)
      PROVE  FilesInv'
  BY <1>4, FilesFrame DEF SaveBegin, SaveInsert, SaveRefuse, SaveAbort
<1>5. ASSUME NEW s \in Savers, SaveCommit(s) PROVE FilesInv'
  <2>1. purge'.pc = purge.pc /\ purge'.cur = purge.cur
    BY <1>5 DEF SaveCommit, TypeOK, PurgeStates, IdlePurge
  <2> QED
    BY <1>5, <2>1
    DEF SaveCommit, FilesInv, RowHasFile, UploadsApart, UploadsPending, PurgeAfterRow
<1>6. ASSUME NEW s \in Savers, DeadlockVictim(s) PROVE FilesInv'
  <2>1. purge'.pc \in {"waiting", "locked", "unlink"} => purge' = purge
    BY <1>6 DEF DeadlockVictim, NextOf
  <2> QED
    BY <1>6, <2>1, FilesFrame DEF DeadlockVictim
<1>7. CASE PurgeList \/ PurgeLock \/ PurgeSkip \/ UnlinkFails
  <2>1. \/ purge'.pc \in {"idle", "scan"}
        \/ purge.pc = "waiting" /\ purge'.pc = "locked" /\ purge'.cur = purge.cur
    <3>1. CASE PurgeList
      BY <3>1, PurgeRecord DEF PurgeList
    <3>2. CASE PurgeLock
      BY <3>2, PurgeRecord DEF PurgeLock
    <3>3. CASE PurgeSkip \/ UnlinkFails
      BY <3>3 DEF PurgeSkip, UnlinkFails, NextOf
    <3> QED
      BY <1>7, <3>1, <3>2, <3>3
  <2> QED
    BY <1>7, <2>1, FilesFrame DEF PurgeList, PurgeLock, PurgeSkip, UnlinkFails
<1>8. ASSUME NEW i \in Images, PurgeDelete(i) PROVE FilesInv'
  <2>1. UNCHANGED <<row, file, upload>>
    BY <1>8 DEF PurgeDelete
  <2>2. \/ purge'.pc \in {"idle", "scan"}
        \/ row[i] = "present" /\ purge'.pc = "waiting" /\ purge'.cur = i
    BY <1>8 DEF PurgeDelete, Deletable, NextOf, TypeOK, PurgeStates, IdlePurge
  <2> QED
    BY <2>1, <2>2 DEF FilesInv, RowHasFile, UploadsApart, UploadsPending, PurgeAfterRow
<1>9. CASE PurgeCommit
  <2>1. /\ purge.cur \in Images /\ purge'.cur = purge.cur /\ purge'.pc = "unlink"
        /\ row' = [row EXCEPT ![purge.cur] = "deleted"] /\ UNCHANGED <<file, upload>>
        /\ row[purge.cur] = "present"
    <3>1. purge.pc = "locked"
          /\ purge \in [pc : {"locked"}, batch : SUBSET Images, cur : Images, raced : SUBSET Wheels]
      BY <1>9 DEF PurgeCommit, TypeOK, PurgeStates, IdlePurge
    <3> QED
      BY <1>9, <3>1 DEF PurgeCommit, FilesInv, PurgeAfterRow
  <2>2. UploadsPending'
    BY <2>1, UploadHolds DEF FilesInv, UploadsPending, TypeOK
  <2>3. RowHasFile' /\ PurgeAfterRow'
    BY <2>1 DEF FilesInv, RowHasFile, PurgeAfterRow, TypeOK
  <2> QED
    BY <2>1, <2>2, <2>3 DEF FilesInv, UploadsApart
<1>10. CASE PurgeUnlink
  <2>1. purge.cur \in Images /\ row[purge.cur] = "deleted"
    BY <1>10 DEF PurgeUnlink, FilesInv, PurgeAfterRow, TypeOK, PurgeStates, IdlePurge
  <2>2. /\ UNCHANGED <<row, upload>> /\ purge'.pc \in {"idle", "scan"}
        /\ \A i \in Images : i # purge.cur => file'[i] = file[i]
    BY <1>10 DEF PurgeUnlink, NextOf, TypeOK
  <2> QED
    BY <2>1, <2>2, UploadHolds
    DEF FilesInv, RowHasFile, UploadsApart, UploadsPending, PurgeAfterRow
<1>11. CASE Tick
  BY <1>11, FilesFrame DEF Tick
<1>12. CASE Crash
  BY <1>12 DEF Crash, FilesInv, RowHasFile, UploadsApart, UploadsPending, PurgeAfterRow,
               IdleUpload, IdlePurge
<1>13. CASE UNCHANGED vars
  BY <1>13, FilesFrame DEF vars
<1> QED
  BY <1>1, <1>2, <1>3, <1>4, <1>5, <1>6, <1>7, <1>8, <1>9, <1>10, <1>11, <1>12, <1>13
  DEF Next, SaveStep, PurgeStep

\* An image row never lacks its file: after any interleaving of uploads, saves
\* and purges and any number of crashes, provided no INSERT commits while its
\* request sees an error.
THEOREM RowsHaveFiles ==
  ASSUME "lost" \notin InsertOutcomes
  PROVE  Spec => []RowHasFile
<1>1. Init => TypeOK /\ FilesInv
  BY InitTypes, InitFiles
<1>2. TypeOK /\ FilesInv /\ [Next]_vars => (TypeOK /\ FilesInv)'
  BY StepTypes, StepFiles
<1>3. FilesInv => RowHasFile
  BY DEF FilesInv
<1> QED
  BY <1>1, <1>2, <1>3, PTL DEF Spec

\* Every image a live wheel displays can be served, under the same proviso:
\* its row is there because the foreign key holds, and its file because its
\* row is.
THEOREM LiveImagesServed ==
  ASSUME "lost" \notin InsertOutcomes
  PROVE  Spec => []LiveImageServed
<1>1. Init => TypeOK /\ RefsInv /\ FilesInv
  BY InitTypes, InitRefs, InitFiles
<1>2. TypeOK /\ RefsInv /\ FilesInv /\ [Next]_vars => (TypeOK /\ RefsInv /\ FilesInv)'
  BY StepTypes, StepRefs, StepFiles
<1>3. RefsInv /\ FilesInv => LiveImageServed
  BY DEF RefsInv, SegmentsUsable, UsableFor, FilesInv, RowHasFile, LiveImageServed, LiveReferenced
<1> QED
  BY <1>1, <1>2, <1>3, PTL DEF Spec

(***************************************************************************)
(* The janitor: the only live wheels that lose an image are those saved    *)
(* while its DELETE was running.                                           *)
(***************************************************************************)

LEMMA InitWheels == Init => WheelsInv /\ RacedInv
  BY DEF Init, WheelsInv, RacedInv, Refs, IdleSave, IdlePurge

\* Saves run on live wheels only: the soft deletion waits for the lock.
LEMMA StepWheels == TypeOK /\ WheelsInv /\ [Next]_vars => WheelsInv'
<1> SUFFICES ASSUME TypeOK, WheelsInv, [Next]_vars PROVE WheelsInv'
  OBVIOUS
<1> USE DEF WheelsInv
<1>1. ASSUME UNCHANGED <<wheel, segs>>,
             \A s \in Savers : save'[s] = save[s] \/ save'[s] = IdleSave
      PROVE  WheelsInv'
  <2>1. \A s \in Savers : save'[s].pc = "tx" => save'[s] = save[s]
    BY <1>1 DEF IdleSave
  <2>2. \A w \in Wheels : wheel'[w] = "absent" => Refs(segs'[w]) = {}
    BY <1>1
  <2>3. \A s \in Savers : save'[s].pc = "tx" => wheel'[save'[s].wheel] = "live"
    BY <1>1, <2>1
  <2> QED
    BY <2>2, <2>3
<1>2. ASSUME NEW w \in Wheels, CreateWheel(w) PROVE WheelsInv'
  BY <1>2 DEF CreateWheel, TypeOK
<1>3. ASSUME NEW w \in Wheels, SoftDeleteWheel(w) PROVE WheelsInv'
  BY <1>3 DEF SoftDeleteWheel, WheelLocked, Saving, TypeOK
<1>4. ASSUME NEW s \in Savers, NEW w \in Wheels, NEW list \in Lists, SaveBegin(s, w, list)
      PROVE WheelsInv'
  BY <1>4 DEF SaveBegin, TypeOK
<1>5. ASSUME NEW s \in Savers, SaveStep(s) PROVE WheelsInv'
  <2>1. CASE SaveInsert(s)
    BY <2>1 DEF SaveInsert, TypeOK, SaveStates, IdleSave
  <2>2. CASE SaveRefuse(s)
    BY <1>1, <2>2 DEF SaveRefuse, TypeOK
  <2>3. CASE SaveCommit(s)
    BY <2>3 DEF SaveCommit, TypeOK, IdleSave
  <2>4. CASE DeadlockVictim(s)
    BY <1>1, <2>4 DEF DeadlockVictim, TypeOK
  <2> QED
    BY <1>5, <2>1, <2>2, <2>3, <2>4 DEF SaveStep
<1>6. ASSUME NEW s \in Savers, SaveAbort(s) PROVE WheelsInv'
  BY <1>1, <1>6 DEF SaveAbort, TypeOK
<1>7. CASE PurgeCommit
  <2>1. /\ purge.cur \in Images
        /\ segs' = [w \in Wheels |-> Stripped(segs[w], purge.cur)]
        /\ UNCHANGED <<wheel, save>>
    BY <1>7 DEF PurgeCommit, TypeOK, PurgeStates, IdlePurge
  <2>2. \A w \in Wheels : Refs(segs[w]) = {} => Refs(segs'[w]) = {}
    BY <2>1, StrippedFacts DEF TypeOK
  <2> QED
    BY <2>1, <2>2
<1>8. CASE PurgeStep /\ ~PurgeCommit
  BY <1>1, <1>8 DEF PurgeStep, PurgeList, PurgeDelete, PurgeLock, PurgeUnlink
<1>9. ASSUME NEW p \in Uploaders, (\E u \in Users : UploadCount(p, u)) \/ UploadStep(p)
      PROVE  WheelsInv'
  BY <1>1, <1>9 DEF UploadCount, UploadStep, UploadWrite, UploadFail, UploadRename,
                    CreateImage, UploadUndo
<1>10. CASE PurgeSkip \/ UnlinkFails \/ Tick \/ Crash \/ UNCHANGED vars
  BY <1>1, <1>10 DEF PurgeSkip, UnlinkFails, Tick, Crash, vars
<1> QED
  BY <1>2, <1>3, <1>4, <1>5, <1>6, <1>7, <1>8, <1>9, <1>10 DEF Next

LEMMA StepRaced == TypeOK /\ WheelsInv /\ RacedInv /\ [Next]_vars => RacedInv'
<1> SUFFICES ASSUME TypeOK, WheelsInv, RacedInv, [Next]_vars,
                    purge'.pc \in {"waiting", "locked"},
                    NEW w \in Wheels, wheel'[w] = "live", purge'.cur \in Refs(segs'[w])
             PROVE  w \in purge'.raced
  BY DEF RacedInv
<1> USE PurgeRecord DEF RacedInv
<1>1. CASE UNCHANGED <<wheel, segs, purge>>
  BY <1>1
<1>2. CASE \E v \in Wheels : CreateWheel(v) \/ SoftDeleteWheel(v)
  <2>1. UNCHANGED <<segs, purge>>
    BY <1>2 DEF CreateWheel, SoftDeleteWheel
  <2>2. wheel[w] = "absent" \/ wheel[w] = "live"
    BY <1>2 DEF CreateWheel, SoftDeleteWheel, TypeOK
  <2> QED
    BY <2>1, <2>2 DEF WheelsInv
<1>3. ASSUME NEW s \in Savers, SaveCommit(s) PROVE w \in purge'.raced
  <2>1. purge.pc \in {"waiting", "locked"} /\ purge'.cur = purge.cur
        /\ purge'.raced = purge.raced \cup {save[s].wheel}
        /\ UNCHANGED wheel /\ segs' = [segs EXCEPT ![save[s].wheel] = save[s].want]
    BY <1>3 DEF SaveCommit
  <2> QED
    BY <2>1 DEF TypeOK
<1>4. ASSUME NEW s \in Savers, DeadlockVictim(s) PROVE w \in purge'.raced
  BY <1>4 DEF DeadlockVictim, NextOf
<1>5. ASSUME NEW i \in Images, PurgeDelete(i) PROVE w \in purge'.raced
  <2>1. UNCHANGED <<wheel, segs>> /\ Deletable(i) /\ purge'.cur = i
    BY <1>5 DEF PurgeDelete, NextOf
  <2> QED
    BY <2>1 DEF Deletable, LiveReferenced
<1>6. CASE PurgeLock
  BY <1>6 DEF PurgeLock
<1>7. CASE PurgeList \/ PurgeCommit \/ PurgeUnlink \/ PurgeSkip \/ UnlinkFails \/ Crash
  <2>1. CASE PurgeList \/ PurgeCommit
    BY <2>1 DEF PurgeList, PurgeCommit
  <2>2. CASE PurgeUnlink \/ PurgeSkip \/ UnlinkFails
    BY <2>2 DEF PurgeUnlink, PurgeSkip, UnlinkFails, NextOf
  <2>3. CASE Crash
    BY <2>3 DEF Crash, IdlePurge
  <2> QED
    BY <1>7, <2>1, <2>2, <2>3
<1>8. ASSUME NEW s \in Savers,
             \/ \E v \in Wheels, list \in Lists : SaveBegin(s, v, list)
             \/ SaveInsert(s) \/ SaveRefuse(s) \/ SaveAbort(s)
      PROVE  w \in purge'.raced
  BY <1>1, <1>8 DEF SaveBegin, SaveInsert, SaveRefuse, SaveAbort
<1>9. ASSUME NEW p \in Uploaders, (\E u \in Users : UploadCount(p, u)) \/ UploadStep(p)
      PROVE  w \in purge'.raced
  BY <1>1, <1>9 DEF UploadCount, UploadStep, UploadWrite, UploadFail, UploadRename,
                    CreateImage, UploadUndo
<1>10. CASE Tick \/ UNCHANGED vars
  BY <1>1, <1>10 DEF Tick, vars
<1> QED
  BY <1>2, <1>3, <1>4, <1>5, <1>6, <1>7, <1>8, <1>9, <1>10 DEF Next, SaveStep, PurgeStep

\* The condition that the DELETE repeats leaves one window only: the janitor
\* takes an image from a live wheel only when that wheel was saved while the
\* DELETE was running.
THEOREM StripsOnlyInRace == Spec => NoStripOutsideRace
<1> DEFINE Step ==
      \A i \in Images, w \in Wheels :
        (/\ row[i] = "present" /\ row'[i] = "deleted"
         /\ wheel[w] = "live" /\ i \in Refs(segs[w])) => w \in purge.raced
<1>1. Init => TypeOK /\ WheelsInv /\ RacedInv
  BY InitTypes, InitWheels
<1>2. TypeOK /\ WheelsInv /\ RacedInv /\ [Next]_vars => (TypeOK /\ WheelsInv /\ RacedInv)'
  BY StepTypes, StepWheels, StepRaced
<1>3. TypeOK /\ RacedInv /\ [Next]_vars => [Step]_vars
  <2> SUFFICES ASSUME TypeOK, RacedInv, [Next]_vars, NEW i \in Images, NEW w \in Wheels,
                      row[i] = "present", row'[i] = "deleted",
                      wheel[w] = "live", i \in Refs(segs[w])
               PROVE  w \in purge.raced
    OBVIOUS
  <2>1. PurgeCommit
    BY DEF Next, vars, UploadCount, UploadStep, UploadWrite, UploadFail, UploadRename,
           CreateImage, UploadUndo, CreateWheel, SoftDeleteWheel, SaveBegin, SaveStep,
           SaveInsert, SaveRefuse, SaveCommit, DeadlockVictim, SaveAbort, PurgeStep,
           PurgeList, PurgeLock, PurgeUnlink, PurgeDelete, PurgeSkip, UnlinkFails, Tick, Crash, TypeOK
  <2>2. purge.cur = i /\ purge.pc = "locked"
    BY <2>1 DEF PurgeCommit, TypeOK
  <2> QED
    BY <2>2 DEF RacedInv
<1> QED
  BY <1>1, <1>2, <1>3, PTL DEF Spec, NoStripOutsideRace

\* No save ever lands on a wheel that was deleted while it ran: the segments of
\* a deleted wheel change only by losing a purged image.
THEOREM DeletedWheelsStayFrozen == Spec => DeletedWheelFrozen
<1> DEFINE Step ==
      \A w \in Wheels :
        wheel[w] = "deleted" =>
          \/ segs'[w] = segs[w]
          \/ purge.pc = "locked" /\ segs'[w] = Stripped(segs[w], purge.cur)
<1>1. Init => TypeOK /\ WheelsInv
  BY InitTypes, InitWheels
<1>2. TypeOK /\ WheelsInv /\ [Next]_vars => (TypeOK /\ WheelsInv)'
  BY StepTypes, StepWheels
<1>3. TypeOK /\ WheelsInv /\ [Next]_vars => [Step]_vars
  <2> SUFFICES ASSUME TypeOK, WheelsInv, [Next]_vars, NEW w \in Wheels, wheel[w] = "deleted"
               PROVE  \/ segs'[w] = segs[w]
                      \/ purge.pc = "locked" /\ segs'[w] = Stripped(segs[w], purge.cur)
    OBVIOUS
  <2>1. CASE UNCHANGED segs
    BY <2>1
  <2>2. ASSUME NEW s \in Savers, SaveCommit(s) PROVE segs'[w] = segs[w]
    BY <2>2 DEF SaveCommit, WheelsInv, TypeOK
  <2>3. CASE PurgeCommit
    BY <2>3 DEF PurgeCommit
  <2> QED
    BY <2>1, <2>2, <2>3
    DEF Next, vars, UploadCount, UploadStep, UploadWrite, UploadFail, UploadRename,
        CreateImage, UploadUndo, CreateWheel, SoftDeleteWheel, SaveBegin, SaveStep,
        SaveInsert, SaveRefuse, DeadlockVictim, SaveAbort, PurgeStep,
        PurgeList, PurgeLock, PurgeUnlink, PurgeDelete, PurgeSkip, UnlinkFails, Tick, Crash
<1> QED
  BY <1>1, <1>2, <1>3, PTL DEF Spec, DeletedWheelFrozen

(***************************************************************************)
(* The library implements Gallery. Under the invariants above the files    *)
(* follow from the rows, so that a step that changes neither rows nor       *)
(* owners nor wheels is a stutter there; the others are one step of Gallery *)
(* each: the INSERT of an upload, the COMMIT of a save, the DELETE.         *)
(***************************************************************************)

LEMMA InitOwned == Init => OwnedInv
  BY DEF Init, OwnedInv

\* The account of an image is known from the moment its identifier is drawn.
LEMMA StepOwned == TypeOK /\ FilesInv /\ OwnedInv /\ [Next]_vars => OwnedInv'
<1> SUFFICES ASSUME TypeOK, FilesInv, OwnedInv, [Next]_vars PROVE OwnedInv'
  OBVIOUS
<1>1. ASSUME NEW p \in Uploaders, UploadWrite(p) PROVE OwnedInv'
  <2>1. upload[p].user \in Users
    BY <1>1 DEF UploadWrite, TypeOK, UploadStates, IdleUpload
  <2> QED
    BY <1>1, <2>1 DEF UploadWrite, OwnedInv, TypeOK
<1>2. ASSUME NEW p \in Uploaders, CreateImage(p) PROVE OwnedInv'
  <2>1. upload[p].img \in Images /\ upload[p].img # NoImage
    BY <1>2, ImagesAssumption DEF CreateImage, TypeOK, UploadStates, IdleUpload
  <2>2. row[upload[p].img] = "pending"
    BY <2>1 DEF FilesInv, UploadsPending
  <2> QED
    BY <1>2, <2>1, <2>2 DEF CreateImage, OwnedInv, TypeOK
<1>3. CASE PurgeCommit
  <2>1. purge.cur \in Images /\ row[purge.cur] = "present"
    BY <1>3 DEF PurgeCommit, FilesInv, PurgeAfterRow, TypeOK, PurgeStates, IdlePurge
  <2> QED
    BY <1>3, <2>1 DEF PurgeCommit, OwnedInv, TypeOK
<1>4. CASE UNCHANGED <<row, owner>>
  BY <1>4 DEF OwnedInv
<1> QED
  BY <1>1, <1>2, <1>3, <1>4
  DEF Next, vars, UploadCount, UploadStep, UploadFail, UploadRename, UploadUndo, CreateWheel,
      SoftDeleteWheel, SaveBegin, SaveStep, SaveInsert, SaveRefuse, SaveAbort, SaveCommit,
      DeadlockVictim, PurgeStep, PurgeList, PurgeDelete, PurgeLock, PurgeSkip, PurgeUnlink,
      UnlinkFails, Tick, Crash

\* The images of an account, by their rows alone.
LEMMA LibraryIsRows ==
  ASSUME RowHasFile
  PROVE  \A u \in Users : Library(u) = {i \in Images : row[i] = "present" /\ owner[i] = u}
  BY DEF RowHasFile, Library

LEMMA LibraryIsRowsNext ==
  ASSUME RowHasFile'
  PROVE  \A u \in Users : Library(u)' = {i \in Images : row'[i] = "present" /\ owner'[i] = u}
  BY DEF RowHasFile, Library

\* What a step of Gallery looks like in terms of rows and wheels.
GalleryStep == [Promise!GalleryNext]_(Promise!galleryVars)

\* Rows that are neither in the library nor gone do not show.
SameLibrary ==
  \A i \in Images :
    row[i] \in {"present", "deleted"} \/ row'[i] \in {"present", "deleted"} =>
      row'[i] = row[i] /\ owner'[i] = owner[i]

LEMMA QuietGallery ==
  ASSUME RowHasFile, RowHasFile', SameLibrary, UNCHANGED <<segs, wheel>>
  PROVE  GalleryStep
<1>1. \A u \in Users : Library(u)' = Library(u)
  BY LibraryIsRows, LibraryIsRowsNext DEF SameLibrary
<1>2. [u \in Users |-> Library(u)]' = [u \in Users |-> Library(u)]
  BY <1>1
<1>3. {i \in Images : row[i] = "deleted"}' = {i \in Images : row[i] = "deleted"}
  BY DEF SameLibrary
<1> QED
  BY <1>2, <1>3 DEF GalleryStep, Promise!galleryVars

\* The same for a wheel that is created, deleted or saved.
LEMMA SameLibraries ==
  ASSUME UNCHANGED <<row, owner>>, RowHasFile, RowHasFile'
  PROVE  /\ [u \in Users |-> Library(u)]' = [u \in Users |-> Library(u)]
         /\ {i \in Images : row[i] = "deleted"}' = {i \in Images : row[i] = "deleted"}
<1>1. \A u \in Users : Library(u)' = Library(u)
  BY LibraryIsRows, LibraryIsRowsNext
<1> QED
  BY <1>1

\* The rows of the library when one row of an account changes.
LEMMA OtherLibraries ==
  ASSUME RowHasFile, RowHasFile', owner' = owner, TypeOK,
         NEW i \in Images, NEW r, row' = [row EXCEPT ![i] = r],
         NEW u \in Users, u # owner[i]
  PROVE  Library(u)' = Library(u)
<1>1. Library(u) = {j \in Images : row[j] = "present" /\ owner[j] = u}
  BY LibraryIsRows
<1>2. Library(u)' = {j \in Images : row'[j] = "present" /\ owner[j] = u}
  BY LibraryIsRowsNext
<1>3. \A j \in Images : (row'[j] = "present" /\ owner[j] = u)
                          <=> (row[j] = "present" /\ owner[j] = u)
  BY DEF TypeOK
<1> QED
  BY <1>1, <1>2, <1>3

\* An INSERT that commits adds its image to the library of its account.
LEMMA InsertedIsAdded ==
  ASSUME RowHasFile, RowHasFile', OwnedInv, TypeOK, UNCHANGED <<owner, segs, wheel>>,
         NEW i \in Images, row[i] = "pending", row' = [row EXCEPT ![i] = "present"]
  PROVE  GalleryStep
<1> DEFINE L == [u \in Users |-> Library(u)]
           G == {j \in Images : row[j] = "deleted"}
           o == owner[i]
<1>1. o \in Users
  BY DEF OwnedInv
<1>2. \A u \in Users : u # o => Library(u)' = Library(u)
  BY OtherLibraries
<1>3. Library(o)' = Library(o) \cup {i}
  <2>1. Library(o) = {j \in Images : row[j] = "present" /\ owner[j] = o}
    BY <1>1, LibraryIsRows
  <2>2. Library(o)' = {j \in Images : row'[j] = "present" /\ owner[j] = o}
    BY <1>1, LibraryIsRowsNext DEF Library, RowHasFile
  <2>3. \A j \in Images : j # i => row'[j] = row[j]
    BY DEF TypeOK
  <2>4. row'[i] = "present"
    BY DEF TypeOK
  <2> QED
    BY <2>1, <2>2, <2>3, <2>4
<1>4. \A u \in Users : i \notin Library(u)
  BY LibraryIsRows
<1>5. L' = [L EXCEPT ![o] = @ \cup {i}]
  BY <1>1, <1>2, <1>3
<1>6. G' = G /\ i \notin G
  BY DEF TypeOK
<1>7. \A u \in Users : i \notin L[u]
  BY <1>4
<1>8. Promise!Add(o, i)
  BY <1>5, <1>6, <1>7 DEF Promise!Add
<1> QED
  BY <1>1, <1>8 DEF GalleryStep, Promise!GalleryNext

\* The DELETE of the janitor collects an image, from the library and from all
\* the wheels at once.
LEMMA DeletedIsCollected ==
  ASSUME TypeOK, OwnedInv, RowHasFile, RowHasFile', UNCHANGED <<owner, wheel>>,
         NEW i \in Images, row[i] = "present", row' = [row EXCEPT ![i] = "deleted"],
         segs' = [w \in Wheels |-> Stripped(segs[w], i)]
  PROVE  GalleryStep
<1> DEFINE L == [u \in Users |-> Library(u)]
           G == {j \in Images : row[j] = "deleted"}
           o == owner[i]
<1>1. o \in Users
  BY DEF OwnedInv
<1>2. \A u \in Users : u # o => Library(u)' = Library(u)
  BY OtherLibraries
<1>3. Library(o)' = Library(o) \ {i} /\ i \in Library(o)
  <2>1. Library(o) = {j \in Images : row[j] = "present" /\ owner[j] = o}
    BY <1>1, LibraryIsRows
  <2>2. Library(o)' = {j \in Images : row'[j] = "present" /\ owner[j] = o}
    BY <1>1, LibraryIsRowsNext DEF Library, RowHasFile
  <2>3. \A j \in Images : j # i => row'[j] = row[j]
    BY DEF TypeOK
  <2>4. row'[i] = "deleted"
    BY DEF TypeOK
  <2> QED
    BY <2>1, <2>2, <2>3, <2>4
<1>4. L' = [L EXCEPT ![o] = @ \ {i}] /\ i \in L[o]
  BY <1>1, <1>2, <1>3
<1>5. G' = G \cup {i}
  BY DEF TypeOK
<1>6. segs' = [w \in Wheels |-> Promise!Without(segs[w], i)]
  BY DEF Stripped, Promise!Without
<1>7. Promise!Collect(o, i)
  BY <1>4, <1>5, <1>6 DEF Promise!Collect
<1> QED
  BY <1>1, <1>7 DEF GalleryStep, Promise!GalleryNext

LEMMA CommittedIsCollected ==
  ASSUME TypeOK, FilesInv, OwnedInv, RowHasFile', PurgeCommit
  PROVE  GalleryStep
<1>1. purge.cur \in Images /\ row[purge.cur] = "present"
  BY DEF PurgeCommit, FilesInv, PurgeAfterRow, TypeOK, PurgeStates, IdlePurge
<1>2. PICK i \in Images : i = purge.cur
  BY <1>1
<1>3. /\ row' = [row EXCEPT ![i] = "deleted"] /\ UNCHANGED <<owner, wheel>>
      /\ segs' = [w \in Wheels |-> Stripped(segs[w], i)]
  BY <1>2 DEF PurgeCommit
<1> QED
  BY <1>1, <1>2, <1>3, DeletedIsCollected DEF FilesInv

\* A COMMIT lands on a live wheel with images that are still its owner's.
LEMMA CommittedIsSaved ==
  ASSUME TypeOK, RefsInv, WheelsInv, RowHasFile, RowHasFile', NEW s \in Savers, SaveCommit(s)
  PROVE  GalleryStep
<1> DEFINE w == save[s].wheel
           list == save[s].want
<1>1. w \in Wheels /\ list \in Lists /\ wheel[w] = "live"
  BY DEF SaveCommit, TypeOK, SaveStates, IdleSave, WheelsInv
<1>2. \A k \in DOMAIN list : list[k] # NoImage => UsableFor(list[k], w) /\ list[k] \in Images
  <2>1. list \in StoredLists
    BY <1>1, ListsStored
  <2>2. DOMAIN list = 1..Len(list) /\ \A k \in DOMAIN list : list[k] \in ImageRef
    BY <2>1, ListDomain
  <2>3. save[s].pc = "tx" /\ save[s].done = Len(list)
    BY DEF SaveCommit
  <2>4. \A k \in 1..Len(list) :
          k <= Len(list) /\ list[k] # NoImage => UsableFor(list[k], w)
    BY <2>3 DEF RefsInv, SavesUsable
  <2> HIDE DEF list, w
  <2> QED
    BY <2>2, <2>4 DEF ImageRef
<1>3. Promise!ShownIn(list) \subseteq Library(WheelOwner[w])
  BY <1>1, <1>2, LibraryIsRows, UsersAssumption DEF Promise!ShownIn, UsableFor
<1>4. UNCHANGED <<row, owner, wheel>> /\ segs' = [segs EXCEPT ![w] = list]
  BY DEF SaveCommit
<1>5. [u \in Users |-> Library(u)][WheelOwner[w]] = Library(WheelOwner[w])
  BY <1>1, UsersAssumption
<1>6. Promise!Save(w, list)
  BY <1>1, <1>3, <1>4, <1>5, SameLibraries DEF Promise!Save
<1> QED
  BY <1>1, <1>6 DEF GalleryStep, Promise!GalleryNext

\* Every step of the detailed library is one of Gallery, or none.
LEMMA StepGallery ==
  ASSUME TypeOK, RefsInv, FilesInv, WheelsInv, OwnedInv, RowHasFile', [Next]_vars
  PROVE  GalleryStep
<1>1. RowHasFile
  BY DEF FilesInv
<1>2. ASSUME NEW p \in Uploaders, UploadWrite(p) PROVE GalleryStep
  <2>1. SameLibrary
    BY <1>2 DEF UploadWrite, SameLibrary, TypeOK
  <2> QED
    BY <1>1, <1>2, <2>1, QuietGallery DEF UploadWrite
<1>3. ASSUME NEW p \in Uploaders, CreateImage(p) PROVE GalleryStep
  <2>1. CASE UNCHANGED row
    <3>1. SameLibrary
      BY <1>3, <2>1 DEF CreateImage, SameLibrary
    <3> QED
      BY <1>1, <1>3, <2>1, <3>1, QuietGallery DEF CreateImage
  <2>2. CASE row' = [row EXCEPT ![upload[p].img] = "present"]
    <3>1. upload[p].img \in Images /\ upload[p].img # NoImage
      BY <1>3, ImagesAssumption DEF CreateImage, TypeOK, UploadStates, IdleUpload
    <3>2. row[upload[p].img] = "pending"
      BY <3>1 DEF FilesInv, UploadsPending
    <3>3. PICK i \in Images : i = upload[p].img
      BY <3>1
    <3> QED
      BY <1>1, <1>3, <2>2, <3>2, <3>3, InsertedIsAdded DEF CreateImage
  <2> QED
    BY <1>3, <2>1, <2>2 DEF CreateImage
<1>4. ASSUME NEW w \in Wheels, CreateWheel(w) PROVE GalleryStep
  <2>1. Promise!Create(w)
    BY <1>1, <1>4, SameLibraries DEF CreateWheel, Promise!Create
  <2> QED
    BY <2>1 DEF GalleryStep, Promise!GalleryNext
<1>5. ASSUME NEW w \in Wheels, SoftDeleteWheel(w) PROVE GalleryStep
  <2>1. Promise!Delete(w)
    BY <1>1, <1>5, SameLibraries DEF SoftDeleteWheel, Promise!Delete
  <2> QED
    BY <2>1 DEF GalleryStep, Promise!GalleryNext
<1>6. ASSUME NEW s \in Savers, SaveCommit(s) PROVE GalleryStep
  BY <1>1, <1>6, CommittedIsSaved
<1>7. CASE PurgeCommit
  BY <1>7, CommittedIsCollected
<1>8. CASE UNCHANGED <<row, owner, wheel, segs>>
  <2>1. SameLibrary
    BY <1>8 DEF SameLibrary
  <2> QED
    BY <1>1, <1>8, <2>1, QuietGallery
<1> QED
  BY <1>2, <1>3, <1>4, <1>5, <1>6, <1>7, <1>8
  DEF Next, vars, UploadCount, UploadStep, UploadFail, UploadRename, UploadUndo, SaveBegin,
      SaveStep, SaveInsert, SaveRefuse, SaveAbort, DeadlockVictim, PurgeStep, PurgeList,
      PurgeDelete, PurgeLock, PurgeSkip, PurgeUnlink, UnlinkFails, Tick, Crash

LEMMA InitGallery == Init => Promise!GalleryInit
<1> SUFFICES ASSUME Init PROVE Promise!GalleryInit
  OBVIOUS
<1>1. \A u \in Users : Library(u) = {}
  BY DEF Init, Library
<1>2. {i \in Images : row[i] = "deleted"} = {}
  BY DEF Init
<1> QED
  BY <1>1, <1>2 DEF Promise!GalleryInit, Init

\* The detailed library, with its files, rows, row locks, deadlocks, crashes
\* and failed deletions, implements Gallery, for any numbers of accounts,
\* wheels, images and requests: images.go and store/images.go as a whole.
THEOREM LibraryImplementsGallery ==
  ASSUME "lost" \notin InsertOutcomes
  PROVE  Spec => ImplementsGallery
<1>1. Init => TypeOK /\ RefsInv /\ FilesInv /\ WheelsInv /\ OwnedInv /\ Promise!GalleryInit
  BY InitTypes, InitRefs, InitFiles, InitWheels, InitOwned, InitGallery
<1>2. /\ TypeOK /\ RefsInv /\ FilesInv /\ WheelsInv /\ OwnedInv
      /\ [Next]_vars
      => (TypeOK /\ RefsInv /\ FilesInv /\ WheelsInv /\ OwnedInv)'
  BY StepTypes, StepRefs, StepFiles, StepWheels, StepOwned
<1>3. /\ TypeOK /\ RefsInv /\ FilesInv /\ WheelsInv /\ OwnedInv
      /\ FilesInv' /\ [Next]_vars
      => [Promise!GalleryNext]_(Promise!galleryVars)
  BY StepGallery DEF GalleryStep, FilesInv
<1> QED
  BY <1>1, <1>2, <1>3, PTL DEF Spec, ImplementsGallery, Promise!GallerySpec

(***************************************************************************)
(* What a step does to the rows, the files and the uploads, whoever takes  *)
(* it: the files left over and the quota are about these alone.            *)
(***************************************************************************)

\* The steps of an upload, by their effect.
Drew(p, i) ==
  /\ upload[p].pc = "counted" /\ row[i] = "unborn"
  /\ row' = [row EXCEPT ![i] = "pending"]
  /\ owner' = [owner EXCEPT ![i] = upload[p].user]
  /\ file' = [file EXCEPT ![i] = "tmp"]
  /\ upload'[p].pc = "written" /\ upload'[p].img = i
  /\ UNCHANGED age

RemovedFile(p) ==
  /\ upload[p].img \in Images
  /\ file' = [file EXCEPT ![upload[p].img] = "none"]
  /\ upload'[p] = IdleUpload
  /\ UNCHANGED <<row, owner, age>>

Published(p) ==
  /\ upload[p].img \in Images
  /\ upload[p].pc = "written" /\ upload'[p].pc = "renamed"
  /\ upload'[p].img = upload[p].img
  /\ file' = [file EXCEPT ![upload[p].img] = "published"]
  /\ UNCHANGED <<row, owner, age>>

Recorded(p) ==
  /\ upload[p].img \in Images
  /\ upload[p].pc = "renamed"
  /\ row' = [row EXCEPT ![upload[p].img] = "present"]
  /\ age' = [age EXCEPT ![upload[p].img] = 0]
  /\ \/ upload'[p] = IdleUpload
     \/ upload'[p].pc = "undoing" /\ upload'[p].img = upload[p].img
  /\ UNCHANGED <<owner, file>>

NotRecorded(p) ==
  /\ upload[p].img \in Images
  /\ upload[p].pc = "renamed"
  /\ upload'[p].pc = "undoing" /\ upload'[p].img = upload[p].img
  /\ UNCHANGED <<row, owner, age, file>>

\* A step of one upload leaves the others and the janitor alone.
LEMMA UploadEffects ==
  ASSUME TypeOK, NEW p \in Uploaders, UploadStep(p)
  PROVE  /\ \A q \in Uploaders : q # p => upload'[q] = upload[q]
         /\ upload'[p] = IdleUpload \/ upload'[p].user = upload[p].user
         /\ UNCHANGED <<purge, faults>>
         /\ \/ \E i \in Images : Drew(p, i)
            \/ RemovedFile(p) \/ Published(p) \/ Recorded(p) \/ NotRecorded(p)
<1>1. /\ upload \in [Uploaders -> UploadStates]
      /\ upload[p].pc \in {"written", "renamed", "undoing"} =>
           upload[p] \in [pc : {"written", "renamed", "undoing"}, img : Images, user : Users]
      /\ upload[p].pc = "counted" =>
           upload[p] \in [pc : {"counted"}, img : {NoImage}, user : Users]
  BY DEF TypeOK, UploadStates, IdleUpload
<1>2. CASE UploadWrite(p)
  <2>1. PICK i \in Images :
          /\ row[i] = "unborn"
          /\ row' = [row EXCEPT ![i] = "pending"]
          /\ owner' = [owner EXCEPT ![i] = upload[p].user]
          /\ file' = [file EXCEPT ![i] = "tmp"]
          /\ upload' = [upload EXCEPT ![p].pc = "written", ![p].img = i]
    BY <1>2 DEF UploadWrite
  <2>2. upload[p].pc = "counted" /\ UNCHANGED <<age, purge, faults>>
    BY <1>2 DEF UploadWrite
  <2>3. /\ upload'[p].pc = "written" /\ upload'[p].img = i /\ upload'[p].user = upload[p].user
        /\ \A q \in Uploaders : q # p => upload'[q] = upload[q]
    BY <1>1, <2>1, <2>2
  <2> QED
    BY <2>1, <2>2, <2>3 DEF Drew
<1>3. CASE UploadFail(p)
  BY <1>1, <1>3 DEF UploadFail, RemovedFile
<1>4. CASE UploadUndo(p)
  BY <1>1, <1>4 DEF UploadUndo, RemovedFile
<1>5. CASE UploadRename(p)
  BY <1>1, <1>5 DEF UploadRename, Published
<1>6. CASE CreateImage(p)
  <2>1. PICK out \in InsertOutcomes :
          /\ IF out = "refused"
               THEN UNCHANGED <<row, age>>
               ELSE /\ row' = [row EXCEPT ![upload[p].img] = "present"]
                    /\ age' = [age EXCEPT ![upload[p].img] = 0]
          /\ upload' = [upload EXCEPT ![p] =
                          IF out = "inserted" THEN IdleUpload
                                              ELSE [upload[p] EXCEPT !.pc = "undoing"]]
    BY <1>6 DEF CreateImage
  <2>2. upload[p].pc = "renamed" /\ UNCHANGED <<owner, file, purge, faults>>
    BY <1>6 DEF CreateImage
  <2>3. /\ upload'[p] = IF out = "inserted" THEN IdleUpload ELSE [upload[p] EXCEPT !.pc = "undoing"]
        /\ \A q \in Uploaders : q # p => upload'[q] = upload[q]
    BY <1>1, <2>1
  <2> QED
    BY <1>1, <2>1, <2>2, <2>3 DEF Recorded, NotRecorded
<1> QED
  BY <1>2, <1>3, <1>4, <1>5, <1>6 DEF UploadStep

\* What the steps that leave rows, files and uploads alone do to the janitor.
PurgeMoves ==
  \/ purge'.pc = purge.pc /\ purge'.cur = purge.cur /\ purge'.batch = purge.batch
  \/ purge.pc = "idle" /\ purge'.pc = "scan" /\ purge'.batch = FirstOrphans
  \/ \E i \in purge.batch :
       /\ purge.pc = "scan" /\ row[i] = "present"
       /\ purge'.pc = "waiting" /\ purge'.cur = i /\ purge'.batch = purge.batch
  \/ /\ purge.pc = "waiting" /\ purge'.pc = "locked"
     /\ purge'.cur = purge.cur /\ purge'.batch = purge.batch
  \/ /\ purge'.pc \in {"idle", "scan"} /\ purge'.batch \subseteq purge.batch
     /\ purge.pc = "unlink" => faults' = faults + 1

Silent ==
  /\ UNCHANGED <<row, owner, age, file, upload>>
  /\ faults' \in {faults, faults + 1}
  /\ PurgeMoves

\* Every step is one of an upload, of the janitor on rows and files, of the
\* clock, a crash, or silent.
LEMMA StepEffects ==
  ASSUME TypeOK, [Next]_vars
  PROVE  \/ \E p \in Uploaders, u \in Users : UploadCount(p, u)
         \/ \E p \in Uploaders : UploadStep(p)
         \/ Silent \/ PurgeCommit \/ PurgeUnlink \/ Tick \/ Crash
<1>0. purge \in [pc : {"idle", "scan", "waiting", "locked", "unlink"},
                 batch : SUBSET Images, cur : ImageRef, raced : SUBSET Wheels]
  BY PurgeRecord
<1>1. ASSUME NEW i, purge' = NextOf(i)
      PROVE  purge'.pc \in {"idle", "scan"} /\ purge'.batch \subseteq purge.batch
  BY <1>1 DEF NextOf
<1>2. ASSUME NEW w \in Wheels, CreateWheel(w) \/ SoftDeleteWheel(w) PROVE Silent
  BY <1>2 DEF CreateWheel, SoftDeleteWheel, Silent, PurgeMoves
<1>3. ASSUME NEW s \in Savers,
             \/ \E w \in Wheels, list \in Lists : SaveBegin(s, w, list)
             \/ SaveInsert(s) \/ SaveRefuse(s) \/ SaveAbort(s)
      PROVE  Silent
  BY <1>3 DEF SaveBegin, SaveInsert, SaveRefuse, SaveAbort, Fault, Silent, PurgeMoves
<1>4. ASSUME NEW s \in Savers, SaveCommit(s) PROVE Silent
  <2>1. purge'.pc = purge.pc /\ purge'.cur = purge.cur /\ purge'.batch = purge.batch
    BY <1>0, <1>4 DEF SaveCommit
  <2> QED
    BY <1>4, <2>1 DEF SaveCommit, Silent, PurgeMoves
<1>5. ASSUME NEW s \in Savers, DeadlockVictim(s) PROVE Silent
  <2>1. purge' = purge \/ purge' = NextOf(purge.cur)
    BY <1>5 DEF DeadlockVictim
  <2>2. purge.pc = "locked" /\ UNCHANGED <<row, owner, age, file, upload, faults>>
    BY <1>5 DEF DeadlockVictim, PurgeDeadlocked
  <2> QED
    BY <1>1, <2>1, <2>2 DEF Silent, PurgeMoves
<1>6. CASE PurgeList
  BY <1>0, <1>6 DEF PurgeList, Silent, PurgeMoves
<1>7. CASE PurgeLock
  BY <1>0, <1>7 DEF PurgeLock, Silent, PurgeMoves
<1>8. CASE PurgeSkip \/ UnlinkFails
  <2>1. purge' = NextOf(purge.cur) /\ faults' = faults + 1 /\ UNCHANGED <<row, owner, age, file, upload>>
    BY <1>8 DEF PurgeSkip, UnlinkFails, Fault
  <2> QED
    BY <1>1, <2>1 DEF Silent, PurgeMoves
<1>9. ASSUME NEW i \in Images, PurgeDelete(i) PROVE Silent
  <2>1. /\ purge.pc = "scan" /\ i \in purge.batch
        /\ UNCHANGED <<row, owner, age, file, upload, faults>>
    BY <1>9 DEF PurgeDelete
  <2>2. CASE Deletable(i)
    <3>1. purge' = [purge EXCEPT !.pc = "waiting", !.cur = i, !.raced = {}]
      BY <1>9, <2>2 DEF PurgeDelete
    <3>2. purge'.pc = "waiting" /\ purge'.cur = i /\ purge'.batch = purge.batch
      BY <1>0, <3>1
    <3> QED
      BY <2>1, <2>2, <3>2 DEF Deletable, Silent, PurgeMoves
  <2>3. CASE ~Deletable(i)
    <3>1. purge' = NextOf(i)
      BY <1>9, <2>3 DEF PurgeDelete
    <3> QED
      BY <1>1, <2>1, <3>1 DEF Silent, PurgeMoves
  <2> QED
    BY <2>2, <2>3
<1>10. CASE UNCHANGED vars
  BY <1>10 DEF vars, Silent, PurgeMoves
<1> QED
  BY <1>2, <1>3, <1>4, <1>5, <1>6, <1>7, <1>8, <1>9, <1>10 DEF Next, SaveStep, PurgeStep

(***************************************************************************)
(* Uploads hold their images, whatever an INSERT reports.                  *)
(***************************************************************************)

LEMMA InitHold == Init => HoldInv
  BY DEF Init, HoldInv, UploadsApart, UploadsHold, PurgeAfterRow, IdleUpload, IdlePurge

\* Rows, owners and files of the images that uploads hold, but for one of them.
LEMMA HoldFrame ==
  ASSUME TypeOK, HoldInv, NEW p \in Uploaders,
         \A q \in Uploaders : q # p => upload'[q] = upload[q],
         \A q \in Uploaders : q # p /\ upload[q].img # NoImage =>
           /\ upload[q].img # upload'[p].img
           /\ row'[upload[q].img] = row[upload[q].img]
           /\ owner'[upload[q].img] = owner[upload[q].img]
           /\ file'[upload[q].img] = file[upload[q].img],
         upload'[p].img # NoImage =>
           /\ row'[upload'[p].img] # "unborn"
           /\ owner'[upload'[p].img] = upload'[p].user
           /\ upload'[p].pc \in {"written", "renamed"} => row'[upload'[p].img] = "pending"
           /\ upload'[p].pc = "renamed" => file'[upload'[p].img] = "published"
  PROVE  UploadsApart' /\ UploadsHold'
<1>1. UploadsApart'
  BY DEF HoldInv, UploadsApart
<1>2. ASSUME NEW q \in Uploaders, upload'[q].img # NoImage
      PROVE  /\ row'[upload'[q].img] # "unborn"
             /\ owner'[upload'[q].img] = upload'[q].user
             /\ upload'[q].pc \in {"written", "renamed"} => row'[upload'[q].img] = "pending"
             /\ upload'[q].pc = "renamed" => file'[upload'[q].img] = "published"
  BY <1>2 DEF HoldInv, UploadsHold
<1> QED
  BY <1>1, <1>2 DEF UploadsHold

\* A step of an upload keeps what every upload holds.
LEMMA UploadStepHold ==
  ASSUME TypeOK, HoldInv, NEW p \in Uploaders, UploadStep(p)
  PROVE  HoldInv'
<1>1. /\ \A q \in Uploaders : q # p => upload'[q] = upload[q]
      /\ upload'[p] = IdleUpload \/ upload'[p].user = upload[p].user
      /\ UNCHANGED purge
      /\ \/ \E i \in Images : Drew(p, i)
         \/ RemovedFile(p) \/ Published(p) \/ Recorded(p) \/ NotRecorded(p)
  BY UploadEffects
<1>2. \A q \in Uploaders : upload[q].img # NoImage => upload[q].img \in Images
  BY UploadHolds
<1>3. \A q \in Uploaders : q # p /\ upload[q].img # NoImage => upload[q].img # upload[p].img
  BY DEF HoldInv, UploadsApart
<1>4. IdleUpload.img = NoImage
  BY DEF IdleUpload
<1>5. PurgeAfterRow /\ purge.pc \in {"waiting", "locked", "unlink"} => purge.cur \in Images
  BY DEF HoldInv, TypeOK, PurgeStates, IdlePurge
<1>6. ASSUME NEW i \in Images, Drew(p, i) PROVE HoldInv'
  <2>1. \A q \in Uploaders : upload[q].img # NoImage => upload[q].img # i
    BY <1>6 DEF Drew, HoldInv, UploadsHold
  <2>2. /\ row'[i] = "pending" /\ owner'[i] = upload[p].user
        /\ \A j \in Images : j # i => row'[j] = row[j] /\ owner'[j] = owner[j] /\ file'[j] = file[j]
    BY <1>6 DEF Drew, TypeOK
  <2>3. upload'[p].img = i /\ upload'[p].pc = "written" /\ upload'[p].user = upload[p].user
    BY <1>1, <1>6 DEF Drew, IdleUpload
  <2>4. UploadsApart' /\ UploadsHold'
    BY <1>1, <1>2, <2>1, <2>2, <2>3, HoldFrame
  <2>5. PurgeAfterRow'
    BY <1>1, <1>5, <1>6, <2>2 DEF HoldInv, PurgeAfterRow, Drew
  <2> QED
    BY <2>4, <2>5 DEF HoldInv
<1>7. CASE RemovedFile(p)
  <2>1. \A j \in Images : j # upload[p].img => file'[j] = file[j]
    BY <1>7 DEF RemovedFile, TypeOK
  <2>2. UploadsApart' /\ UploadsHold'
    BY <1>1, <1>2, <1>3, <1>4, <1>7, <2>1, HoldFrame DEF RemovedFile
  <2> QED
    BY <1>1, <1>7, <2>2 DEF RemovedFile, HoldInv, PurgeAfterRow
<1>8. CASE Published(p)
  <2>1. /\ file'[upload[p].img] = "published"
        /\ \A j \in Images : j # upload[p].img => file'[j] = file[j]
    BY <1>8 DEF Published, TypeOK
  <2>2. upload[p].img # NoImage /\ upload'[p].user = upload[p].user
    BY <1>1, <1>8, ImagesAssumption DEF Published, IdleUpload
  <2>3. /\ row[upload[p].img] # "unborn" /\ owner[upload[p].img] = upload[p].user
        /\ row[upload[p].img] = "pending"
    BY <1>8, <2>2 DEF Published, HoldInv, UploadsHold
  <2>4. UploadsApart' /\ UploadsHold'
    BY <1>1, <1>2, <1>3, <1>8, <2>1, <2>2, <2>3, HoldFrame DEF Published
  <2> QED
    BY <1>1, <1>8, <2>4 DEF Published, HoldInv, PurgeAfterRow
<1>9. CASE Recorded(p)
  <2>1. /\ row'[upload[p].img] = "present"
        /\ \A j \in Images : j # upload[p].img => row'[j] = row[j]
    BY <1>9 DEF Recorded, TypeOK
  <2>2. upload[p].img # NoImage
    BY <1>9, ImagesAssumption DEF Recorded
  <2>3. owner[upload[p].img] = upload[p].user /\ row[upload[p].img] = "pending"
    BY <1>9, <2>2 DEF Recorded, HoldInv, UploadsHold
  <2>4. UploadsApart' /\ UploadsHold'
    <3>1. upload'[p].img # NoImage =>
            upload'[p].img = upload[p].img /\ upload'[p].pc = "undoing" /\ upload'[p].user = upload[p].user
      BY <1>1, <1>4, <1>9 DEF Recorded
    <3>2. upload'[p].img = NoImage \/ upload'[p].img = upload[p].img
      BY <3>1
    <3> QED
      BY <1>1, <1>2, <1>3, <1>9, <2>1, <2>3, <3>1, <3>2, HoldFrame DEF Recorded
  <2>5. PurgeAfterRow'
    BY <1>1, <1>5, <2>1, <2>3 DEF HoldInv, PurgeAfterRow
  <2> QED
    BY <2>4, <2>5 DEF HoldInv
<1>10. CASE NotRecorded(p)
  <2>1. upload[p].img # NoImage /\ upload'[p].user = upload[p].user
    BY <1>1, <1>10, ImagesAssumption DEF NotRecorded, IdleUpload
  <2>2. row[upload[p].img] # "unborn" /\ owner[upload[p].img] = upload[p].user
    BY <2>1 DEF HoldInv, UploadsHold
  <2>3. UploadsApart' /\ UploadsHold'
    BY <1>1, <1>2, <1>3, <1>10, <2>1, <2>2, HoldFrame DEF NotRecorded
  <2> QED
    BY <1>1, <1>10, <2>3 DEF NotRecorded, HoldInv, PurgeAfterRow
<1> QED
  BY <1>1, <1>6, <1>7, <1>8, <1>9, <1>10

\* Every step keeps what the uploads hold.
LEMMA StepHold == TypeOK /\ HoldInv /\ [Next]_vars => HoldInv'
<1> SUFFICES ASSUME TypeOK, HoldInv, [Next]_vars PROVE HoldInv'
  OBVIOUS
<1>1. ASSUME NEW p \in Uploaders, NEW u \in Users, UploadCount(p, u) PROVE HoldInv'
  <2>1. /\ \A q \in Uploaders : q # p => upload'[q] = upload[q]
        /\ upload'[p].img = NoImage
        /\ UNCHANGED <<row, owner, file, purge>>
    BY <1>1 DEF UploadCount, TypeOK
  <2> QED
    BY <2>1 DEF HoldInv, UploadsApart, UploadsHold, PurgeAfterRow
<1>2. ASSUME NEW p \in Uploaders, UploadStep(p) PROVE HoldInv'
  BY <1>2, UploadStepHold
<1>3. CASE Silent
  BY <1>3 DEF Silent, PurgeMoves, HoldInv, UploadsApart, UploadsHold, PurgeAfterRow
<1>4. CASE PurgeCommit
  <2>1. /\ purge.cur \in Images /\ purge'.cur = purge.cur /\ purge'.pc = "unlink"
        /\ row' = [row EXCEPT ![purge.cur] = "deleted"] /\ UNCHANGED <<owner, file, upload>>
        /\ row[purge.cur] = "present"
    BY <1>4 DEF PurgeCommit, TypeOK, PurgeStates, IdlePurge, HoldInv, PurgeAfterRow
  <2>2. /\ row'[purge.cur] = "deleted"
        /\ \A j \in Images : j # purge.cur => row'[j] = row[j]
    BY <2>1 DEF TypeOK
  <2>3. UploadsHold'
    BY <2>1, <2>2, UploadHolds DEF HoldInv, UploadsHold
  <2> QED
    BY <2>1, <2>2, <2>3 DEF HoldInv, UploadsApart, PurgeAfterRow
<1>5. CASE PurgeUnlink
  <2>1. purge.cur \in Images /\ row[purge.cur] = "deleted"
    BY <1>5 DEF PurgeUnlink, HoldInv, PurgeAfterRow, TypeOK, PurgeStates, IdlePurge
  <2>2. /\ UNCHANGED <<row, owner, upload>> /\ purge'.pc \in {"idle", "scan"}
        /\ \A i \in Images : i # purge.cur => file'[i] = file[i]
    BY <1>5 DEF PurgeUnlink, NextOf, TypeOK
  <2> QED
    BY <2>1, <2>2, UploadHolds DEF HoldInv, UploadsApart, UploadsHold, PurgeAfterRow
<1>6. CASE Tick
  BY <1>6 DEF Tick, HoldInv, UploadsApart, UploadsHold, PurgeAfterRow
<1>7. CASE Crash
  BY <1>7 DEF Crash, HoldInv, UploadsApart, UploadsHold, PurgeAfterRow, IdleUpload, IdlePurge
<1> QED
  BY <1>1, <1>2, <1>3, <1>4, <1>5, <1>6, <1>7, StepEffects

(***************************************************************************)
(* Files left over.                                                        *)
(***************************************************************************)

\* A step of an upload accounts for every file.
LEMMA UploadStepAccounted ==
  ASSUME TypeOK, HoldInv, NEW p \in Uploaders, UploadStep(p),
         NEW i \in Images, FileAccounted(i)
  PROVE  FileAccounted(i)'
<1>1. /\ \A q \in Uploaders : q # p => upload'[q] = upload[q]
      /\ UNCHANGED purge
      /\ \/ \E j \in Images : Drew(p, j)
         \/ RemovedFile(p) \/ Published(p) \/ Recorded(p) \/ NotRecorded(p)
  BY UploadEffects
<1>2. ASSUME upload[p].img # i, file'[i] = file[i], row'[i] = row[i]
      PROVE  FileAccounted(i)'
  BY <1>1, <1>2 DEF FileAccounted, Uploading
<1>3. ASSUME upload'[p].img = i PROVE FileAccounted(i)'
  BY <1>3 DEF FileAccounted, Uploading
<1>4. ASSUME NEW j \in Images, Drew(p, j) PROVE FileAccounted(i)'
  <2>1. upload[p].img = NoImage /\ upload'[p].img = j
    BY <1>4 DEF Drew, TypeOK, UploadStates, IdleUpload
  <2>2. j # i => file'[i] = file[i] /\ row'[i] = row[i]
    BY <1>4 DEF Drew, TypeOK
  <2> QED
    BY <1>2, <1>3, <2>1, <2>2, ImagesAssumption
<1>5. CASE RemovedFile(p)
  <2>1. CASE upload[p].img = i
    BY <1>5, <2>1 DEF RemovedFile, FileAccounted, TypeOK
  <2>2. CASE upload[p].img # i
    BY <1>2, <1>5, <2>2 DEF RemovedFile, TypeOK
  <2> QED
    BY <2>1, <2>2
<1>6. CASE Published(p)
  BY <1>2, <1>3, <1>6 DEF Published, TypeOK
<1>7. CASE Recorded(p)
  <2>1. CASE upload[p].img = i
    <3>1. file[i] = "published"
      BY <1>7, <2>1, ImagesAssumption DEF Recorded, HoldInv, UploadsHold
    <3> QED
      BY <1>7, <2>1, <3>1 DEF Recorded, FileAccounted, TypeOK
  <2>2. CASE upload[p].img # i
    BY <1>2, <1>7, <2>2 DEF Recorded, TypeOK
  <2> QED
    BY <2>1, <2>2
<1>8. CASE NotRecorded(p)
  BY <1>2, <1>3, <1>8 DEF NotRecorded
<1> QED
  BY <1>1, <1>4, <1>5, <1>6, <1>7, <1>8

\* Every step that is no fault accounts for every file.
LEMMA StepAccounted == TypeOK /\ HoldInv /\ NoLeakedFile /\ [Next]_vars => NoLeakedFile'
<1> SUFFICES ASSUME TypeOK, HoldInv, NoLeakedFile, [Next]_vars, faults' = 0,
                    NEW i \in Images
             PROVE  FileAccounted(i)'
  BY DEF NoLeakedFile
<1>0. faults \in Nat
  BY DEF TypeOK
<1>1. ASSUME NEW p \in Uploaders, NEW u \in Users, UploadCount(p, u) PROVE FileAccounted(i)'
  <2>1. /\ upload[p] = IdleUpload
        /\ \A q \in Uploaders : q # p => upload'[q] = upload[q]
        /\ UNCHANGED <<row, file, purge, faults>>
    BY <1>1 DEF UploadCount, TypeOK, UploadStates, IdleUpload
  <2>2. upload[p].img # i
    BY <2>1, ImagesAssumption DEF IdleUpload
  <2> QED
    BY <2>1, <2>2 DEF NoLeakedFile, FileAccounted, Uploading
<1>2. ASSUME NEW p \in Uploaders, UploadStep(p) PROVE FileAccounted(i)'
  <2>1. faults = 0
    BY <1>2, UploadEffects
  <2> QED
    BY <1>2, <2>1, UploadStepAccounted DEF NoLeakedFile
<1>3. CASE Silent
  <2>1. faults = 0 /\ ~(purge.pc = "unlink" /\ purge'.pc # "unlink")
    BY <1>0, <1>3 DEF Silent, PurgeMoves
  <2>2. purge.pc = "unlink" => purge'.pc = "unlink" /\ purge'.cur = purge.cur
    BY <1>0, <1>3, <2>1 DEF Silent, PurgeMoves
  <2> QED
    BY <1>3, <2>1, <2>2 DEF Silent, NoLeakedFile, FileAccounted, Uploading
<1>4. CASE PurgeCommit
  <2>1. /\ purge'.cur = purge.cur /\ purge'.pc = "unlink" /\ purge.pc = "locked"
        /\ row' = [row EXCEPT ![purge.cur] = "deleted"] /\ UNCHANGED <<file, upload, faults>>
    BY <1>4 DEF PurgeCommit, TypeOK, PurgeStates, IdlePurge
  <2>2. FileAccounted(i)
    BY <2>1 DEF NoLeakedFile
  <2>3. i # purge.cur => row'[i] = row[i]
    BY <2>1 DEF TypeOK
  <2> QED
    BY <2>1, <2>2, <2>3 DEF FileAccounted, Uploading
<1>5. CASE PurgeUnlink
  <2>1. /\ purge.pc = "unlink" /\ UNCHANGED <<row, upload, faults>>
        /\ file' = [file EXCEPT ![purge.cur] = "none"]
    BY <1>5 DEF PurgeUnlink
  <2>2. FileAccounted(i) /\ (i = purge.cur => file'[i] = "none") /\ (i # purge.cur => file'[i] = file[i])
    BY <2>1 DEF NoLeakedFile, TypeOK
  <2> QED
    BY <2>1, <2>2 DEF FileAccounted, Uploading
<1>6. CASE Tick
  BY <1>6 DEF Tick, NoLeakedFile, FileAccounted, Uploading
<1>7. CASE Crash
  BY <1>0, <1>7 DEF Crash, Fault
<1> QED
  BY <1>1, <1>2, <1>3, <1>4, <1>5, <1>6, <1>7, StepEffects

\* Without a fault no file is left on the volume for good, whatever an INSERT
\* reports.
THEOREM FilesAccounted == Spec => []NoLeakedFile
<1>1. Init => TypeOK /\ HoldInv /\ NoLeakedFile
  BY InitTypes, InitHold DEF Init, NoLeakedFile, FileAccounted
<1>2. TypeOK /\ HoldInv /\ NoLeakedFile /\ [Next]_vars => (TypeOK /\ HoldInv /\ NoLeakedFile)'
  BY StepTypes, StepHold, StepAccounted
<1> QED
  BY <1>1, <1>2, PTL DEF Spec

(***************************************************************************)
(* The quota.                                                              *)
(***************************************************************************)

LEMMA InitAged == Init => AgedInv
  BY DEF Init, AgedInv, IdlePurge

\* What the janitor takes was older than its grace period when it looked, and
\* nothing is made younger.
LEMMA StepAged == TypeOK /\ HoldInv /\ AgedInv /\ [Next]_vars => AgedInv'
<1> SUFFICES ASSUME TypeOK, HoldInv, AgedInv, [Next]_vars PROVE AgedInv'
  OBVIOUS
<1>0. /\ purge.batch \subseteq Images
      /\ \A i \in Images : age[i] \in Nat
      /\ Grace \in Nat /\ MaxAge \in Nat /\ Grace < MaxAge
  BY PurgeRecord, AgesAssumption DEF TypeOK
<1>1. ASSUME NEW p \in Uploaders, NEW u \in Users, UploadCount(p, u) PROVE AgedInv'
  BY <1>1 DEF UploadCount, AgedInv, Inserted
<1>2. ASSUME NEW p \in Uploaders, UploadStep(p) PROVE AgedInv'
  <2>1. /\ UNCHANGED purge
        /\ \/ \E j \in Images : Drew(p, j)
           \/ RemovedFile(p) \/ Published(p) \/ Recorded(p) \/ NotRecorded(p)
    BY <1>2, UploadEffects
  <2>2. ASSUME NEW j \in Images, Drew(p, j) PROVE AgedInv'
    <3>1. /\ row[j] = "unborn" /\ row'[j] = "pending" /\ UNCHANGED age
          /\ \A i \in Images : i # j => row'[i] = row[i]
      BY <2>2 DEF Drew, TypeOK
    <3> QED
      BY <1>0, <2>1, <3>1 DEF AgedInv, Inserted
  <2>3. CASE Recorded(p)
    <3>1. row[upload[p].img] = "pending" /\ upload[p].img \in Images
      BY <2>3, ImagesAssumption DEF Recorded, HoldInv, UploadsHold
    <3>2. /\ row'[upload[p].img] = "present"
          /\ \A i \in Images : i # upload[p].img => row'[i] = row[i] /\ age'[i] = age[i]
      BY <2>3 DEF Recorded, TypeOK
    <3> QED
      BY <1>0, <2>1, <3>1, <3>2 DEF AgedInv, Inserted
  <2>4. CASE RemovedFile(p) \/ Published(p) \/ NotRecorded(p)
    BY <2>1, <2>4 DEF RemovedFile, Published, NotRecorded, AgedInv, Inserted
  <2> QED
    BY <2>1, <2>2, <2>3, <2>4
<1>3. CASE Silent
  <2>1. \A i \in FirstOrphans : Inserted(i) /\ age[i] > Grace
    BY DEF FirstOrphans, Orphans, Inserted
  <2> QED
    BY <1>3, <2>1 DEF Silent, PurgeMoves, AgedInv, Inserted
<1>4. CASE PurgeCommit
  <2>1. /\ purge.cur \in purge.batch
        /\ purge'.cur = purge.cur /\ purge'.batch = purge.batch
        /\ row' = [row EXCEPT ![purge.cur] = "deleted"] /\ UNCHANGED age
    BY <1>4 DEF PurgeCommit, TypeOK, PurgeStates, IdlePurge, AgedInv
  <2>2. \A i \in Images : row'[i] = IF i = purge.cur THEN "deleted" ELSE row[i]
    BY <2>1 DEF TypeOK
  <2> QED
    BY <1>0, <2>1, <2>2 DEF AgedInv, Inserted
<1>5. CASE PurgeUnlink
  <2>1. purge'.pc \in {"idle", "scan"} /\ purge'.batch \subseteq purge.batch
    BY <1>5 DEF PurgeUnlink, NextOf
  <2> QED
    BY <1>5, <2>1 DEF PurgeUnlink, AgedInv, Inserted
<1>6. CASE Tick
  <2>1. \A i \in Images : age'[i] >= age[i]
    BY <1>0, <1>6 DEF Tick, Older
  <2>2. \A i \in Images : age'[i] \in Nat
    BY <1>0, <1>6 DEF Tick, Older
  <2>3. \A i \in Images : age[i] > Grace => age'[i] > Grace
    BY <1>0, <2>1, <2>2
  <2> QED
    BY <1>0, <1>6, <2>3 DEF Tick, AgedInv, Inserted
<1>7. CASE Crash
  BY <1>7 DEF Crash, AgedInv, Inserted, IdlePurge
<1> QED
  BY <1>1, <1>2, <1>3, <1>4, <1>5, <1>6, <1>7, StepEffects

\* Counting: what is charged and what is in flight are finite sets.
LEMMA QuotaCounts ==
  ASSUME NEW u
  PROVE  /\ Cardinality(Uploaders) \in Nat /\ Cardinality(Uploaders) >= 1
         /\ IsFiniteSet(InFlight(u)) /\ Cardinality(InFlight(u)) \in Nat
         /\ Cardinality(InFlight(u)) <= Cardinality(Uploaders)
         /\ IsFiniteSet(Charged(u)) => Cardinality(Charged(u)) \in Nat
<1>1. IsFiniteSet(Uploaders) /\ Cardinality(Uploaders) \in Nat /\ Cardinality(Uploaders) # 0
  BY UploadersAssumption, FS_CardinalityType, FS_EmptySet
<1>2. InFlight(u) \subseteq Uploaders
  BY DEF InFlight
<1>3. /\ IsFiniteSet(InFlight(u)) /\ Cardinality(InFlight(u)) <= Cardinality(Uploaders)
  BY <1>1, <1>2, FS_Subset
<1> QED
  BY <1>1, <1>3, FS_CardinalityType

\* The same in the next state: the number of uploads does not change.
LEMMA QuotaCountsNext ==
  ASSUME NEW u
  PROVE  /\ IsFiniteSet(InFlight(u)') /\ Cardinality(InFlight(u)') \in Nat
         /\ Cardinality(InFlight(u)') <= Cardinality(Uploaders)
<1>1. IsFiniteSet(Uploaders) /\ InFlight(u)' \subseteq Uploaders
  BY UploadersAssumption DEF InFlight
<1> QED
  BY <1>1, FS_Subset, FS_CardinalityType

LEMMA InitQuota == Init => QuotaInv
<1> SUFFICES ASSUME Init, NEW u \in Users PROVE WithinQuota(u)
  BY DEF QuotaInv
<1>1. Charged(u) = {} /\ InFlight(u) = {}
  BY DEF Init, Charged, Inserted, InFlight, IdleUpload
<1> QED
  BY <1>1, QuotaCounts, FS_EmptySet, BoundsAssumption DEF WithinQuota

\* An account to which nothing is charged and for which nobody starts stays
\* within its quota.
LEMMA QuotaShrinks ==
  ASSUME NEW u, WithinQuota(u),
         Charged(u)' \subseteq Charged(u), InFlight(u)' \subseteq InFlight(u)
  PROVE  WithinQuota(u)'
<1>1. /\ IsFiniteSet(Charged(u)') /\ Cardinality(Charged(u)') \in Nat
      /\ Cardinality(Charged(u)') <= Cardinality(Charged(u))
  BY FS_Subset, FS_CardinalityType DEF WithinQuota
<1>2. Cardinality(InFlight(u)') <= Cardinality(InFlight(u))
  BY QuotaCounts, FS_Subset
<1>3. Cardinality(Charged(u)) \in Nat
  BY QuotaCounts DEF WithinQuota
<1> QED
  BY <1>1, <1>2, <1>3, QuotaCounts, QuotaCountsNext, BoundsAssumption DEF WithinQuota

\* An upload that records its image is in flight no more.
LEMMA QuotaRecords ==
  ASSUME NEW u, WithinQuota(u), NEW p, p \in InFlight(u), NEW i,
         Charged(u)' \subseteq Charged(u) \cup {i}, InFlight(u)' \subseteq InFlight(u) \ {p}
  PROVE  WithinQuota(u)'
<1>0. IsFiniteSet(Charged(u)) /\ Cardinality(Charged(u)) \in Nat
  BY QuotaCounts DEF WithinQuota
<1>1. /\ IsFiniteSet(Charged(u) \cup {i})
      /\ Cardinality(Charged(u) \cup {i}) \in Nat
      /\ Cardinality(Charged(u) \cup {i}) <= Cardinality(Charged(u)) + 1
  <2>1. /\ IsFiniteSet(Charged(u) \cup {i})
        /\ Cardinality(Charged(u) \cup {i}) =
             IF i \in Charged(u) THEN Cardinality(Charged(u)) ELSE Cardinality(Charged(u)) + 1
    BY <1>0, FS_AddElement
  <2>2. Cardinality(Charged(u) \cup {i}) \in Nat
    BY <2>1, FS_CardinalityType
  <2> QED
    BY <1>0, <2>1, <2>2
<1>2. /\ IsFiniteSet(Charged(u)') /\ Cardinality(Charged(u)') \in Nat
      /\ Cardinality(Charged(u)') <= Cardinality(Charged(u) \cup {i})
  BY <1>1, FS_Subset, FS_CardinalityType
<1>3. /\ IsFiniteSet(InFlight(u) \ {p})
      /\ Cardinality(InFlight(u) \ {p}) = Cardinality(InFlight(u)) - 1
  BY QuotaCounts, FS_RemoveElement
<1>4. Cardinality(InFlight(u)') <= Cardinality(InFlight(u)) - 1
  BY <1>3, FS_Subset
<1> QED
  BY <1>0, <1>1, <1>2, <1>4, QuotaCounts, QuotaCountsNext, BoundsAssumption DEF WithinQuota

\* No purge makes room: what the quota counts, the rows that are there, is all
\* that was charged.
LEMMA RecentIsCharged ==
  ASSUME TypeOK, AgedInv, NEW u
  PROVE  Recent(u) = Charged(u)
<1>1. \A i \in Images : row[i] = "deleted" => ~(age[i] < Window)
  BY AgesAssumption DEF AgedInv, TypeOK
<1> QED
  BY <1>1 DEF Recent, Charged, Inserted

\* The check of the quota leaves room for the other uploads in flight.
LEMMA QuotaChecked ==
  ASSUME TypeOK, AgedInv, NEW u, WithinQuota(u), QuotaLeft(u), UNCHANGED <<row, owner, age>>
  PROVE  WithinQuota(u)'
<1>1. Charged(u)' = Charged(u)
  BY DEF Charged, Inserted
<1>2. IsFiniteSet(Charged(u)') /\ Cardinality(Charged(u)') = Cardinality(Charged(u))
  BY <1>1 DEF WithinQuota
<1>3. Cardinality(Charged(u)) \in Nat /\ Cardinality(Charged(u)) < MaxImagesPerDay
  BY QuotaCounts, RecentIsCharged DEF WithinQuota, QuotaLeft
<1> QED
  BY <1>2, <1>3, QuotaCounts, QuotaCountsNext, BoundsAssumption DEF WithinQuota

\* Every step keeps every account within its quota.
LEMMA StepQuota == TypeOK /\ HoldInv /\ AgedInv /\ QuotaInv /\ [Next]_vars => QuotaInv'
<1> SUFFICES ASSUME TypeOK, HoldInv, AgedInv, QuotaInv, [Next]_vars, NEW u \in Users
             PROVE  WithinQuota(u)'
  BY DEF QuotaInv
<1>0. WithinQuota(u)
  BY DEF QuotaInv
<1>1. ASSUME NEW p \in Uploaders, NEW v \in Users, UploadCount(p, v) PROVE WithinQuota(u)'
  <2>1. /\ QuotaLeft(v) /\ UNCHANGED <<row, owner, age>>
        /\ upload'[p].user = v
        /\ \A q \in Uploaders : q # p => upload'[q] = upload[q]
    BY <1>1 DEF UploadCount, TypeOK
  <2>2. CASE v = u
    BY <1>0, <2>1, <2>2, QuotaChecked
  <2>3. CASE v # u
    <3>1. Charged(u)' \subseteq Charged(u) /\ InFlight(u)' \subseteq InFlight(u)
      BY <2>1, <2>3 DEF Charged, Inserted, InFlight
    <3> QED
      BY <1>0, <3>1, QuotaShrinks
  <2> QED
    BY <2>2, <2>3
<1>2. ASSUME NEW p \in Uploaders, UploadStep(p) PROVE WithinQuota(u)'
  <2>1. /\ \A q \in Uploaders : q # p => upload'[q] = upload[q]
        /\ upload'[p] = IdleUpload \/ upload'[p].user = upload[p].user
        /\ \/ \E j \in Images : Drew(p, j)
           \/ RemovedFile(p) \/ Published(p) \/ Recorded(p) \/ NotRecorded(p)
    BY <1>2, UploadEffects
  <2>2. upload[p].pc \in {"counted", "written", "renamed"} \/ upload'[p] = IdleUpload
    BY <2>1 DEF Drew, RemovedFile, Published, Recorded, NotRecorded
  <2>3. IdleUpload.pc = "idle"
    BY DEF IdleUpload
  <2>4. InFlight(u)' \subseteq InFlight(u)
    BY <2>1, <2>2, <2>3 DEF InFlight
  <2>5. ASSUME NEW j \in Images, Drew(p, j) PROVE WithinQuota(u)'
    <3>1. /\ row'[j] = "pending" /\ UNCHANGED age
          /\ \A i \in Images : i # j => row'[i] = row[i] /\ owner'[i] = owner[i]
      BY <2>5 DEF Drew, TypeOK
    <3>2. Charged(u)' \subseteq Charged(u)
      BY <3>1 DEF Charged, Inserted
    <3> QED
      BY <1>0, <2>4, <3>2, QuotaShrinks
  <2>6. CASE RemovedFile(p) \/ Published(p) \/ NotRecorded(p)
    <3>1. Charged(u)' = Charged(u)
      BY <2>6 DEF RemovedFile, Published, NotRecorded, Charged, Inserted
    <3> QED
      BY <1>0, <2>4, <3>1, QuotaShrinks
  <2>7. CASE Recorded(p)
    <3>1. /\ upload[p].img \in Images /\ upload[p].pc = "renamed"
          /\ owner[upload[p].img] = upload[p].user
      BY <2>7, ImagesAssumption DEF Recorded, HoldInv, UploadsHold
    <3>2. /\ UNCHANGED owner
          /\ \A i \in Images : i # upload[p].img => row'[i] = row[i] /\ age'[i] = age[i]
      BY <2>7 DEF Recorded, TypeOK
    <3>3. CASE upload[p].user = u
      <4>1. p \in InFlight(u) /\ p \notin InFlight(u)'
        BY <2>3, <2>7, <3>1, <3>3 DEF Recorded, InFlight
      <4>2. Charged(u)' \subseteq Charged(u) \cup {upload[p].img}
        BY <3>2 DEF Charged, Inserted
      <4> QED
        BY <1>0, <2>4, <4>1, <4>2, QuotaRecords
    <3>4. CASE upload[p].user # u
      <4>1. Charged(u)' \subseteq Charged(u)
        BY <3>1, <3>2, <3>4 DEF Charged, Inserted
      <4> QED
        BY <1>0, <2>4, <4>1, QuotaShrinks
    <3> QED
      BY <3>3, <3>4
  <2> QED
    BY <2>1, <2>5, <2>6, <2>7
<1>3. CASE Silent \/ PurgeUnlink
  <2>1. UNCHANGED <<row, owner, age, upload>>
    BY <1>3 DEF Silent, PurgeUnlink
  <2>2. Charged(u)' = Charged(u) /\ InFlight(u)' = InFlight(u)
    BY <2>1 DEF Charged, Inserted, InFlight
  <2> QED
    BY <1>0, <2>2, QuotaShrinks
<1>4. CASE PurgeCommit
  <2>1. /\ purge.cur \in Images /\ row[purge.cur] = "present"
        /\ row' = [row EXCEPT ![purge.cur] = "deleted"] /\ UNCHANGED <<owner, age, upload>>
    BY <1>4 DEF PurgeCommit, TypeOK, PurgeStates, IdlePurge, HoldInv, PurgeAfterRow
  <2>2. Charged(u)' \subseteq Charged(u) /\ InFlight(u)' = InFlight(u)
    BY <2>1 DEF Charged, Inserted, InFlight, TypeOK
  <2> QED
    BY <1>0, <2>2, QuotaShrinks
<1>5. CASE Tick
  <2>1. \A i \in Images : age[i] \in Nat /\ age'[i] \in Nat /\ age'[i] >= age[i]
    BY <1>5, AgesAssumption DEF Tick, Older, TypeOK
  <2>2. Charged(u)' \subseteq Charged(u) /\ InFlight(u)' = InFlight(u)
    BY <1>5, <2>1, AgesAssumption DEF Tick, Charged, Inserted, InFlight
  <2> QED
    BY <1>0, <2>2, QuotaShrinks
<1>6. CASE Crash
  <2>1. Charged(u)' \subseteq Charged(u) /\ InFlight(u)' \subseteq InFlight(u)
    BY <1>6 DEF Crash, Charged, Inserted, InFlight, IdleUpload
  <2> QED
    BY <1>0, <2>1, QuotaShrinks
<1> QED
  BY <1>1, <1>2, <1>3, <1>4, <1>5, <1>6, StepEffects

\* However many uploads pass the check together and whatever is purged, an
\* account gets past its daily quota by the other uploads in progress at most.
THEOREM QuotaOvershootBounded == Spec => []QuotaOvershoot
<1>1. Init => TypeOK /\ HoldInv /\ AgedInv /\ QuotaInv
  BY InitTypes, InitHold, InitAged, InitQuota
<1>2. TypeOK /\ HoldInv /\ AgedInv /\ QuotaInv /\ [Next]_vars
        => (TypeOK /\ HoldInv /\ AgedInv /\ QuotaInv)'
  BY StepTypes, StepHold, StepAged, StepQuota
<1>3. QuotaInv => QuotaOvershoot
  <2> SUFFICES ASSUME QuotaInv, NEW u \in Users
               PROVE  Cardinality(Charged(u)) <= MaxImagesPerDay + Cardinality(Uploaders) - 1
    BY DEF QuotaOvershoot
  <2>1. WithinQuota(u)
    BY DEF QuotaInv
  <2> QED
    BY <2>1, QuotaCounts, BoundsAssumption DEF WithinQuota
<1> QED
  BY <1>1, <1>2, <1>3, PTL DEF Spec
=============================================================================
