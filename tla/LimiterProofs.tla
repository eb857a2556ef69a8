---------------------------- MODULE LimiterProofs ----------------------------
(***************************************************************************)
(* Theorems about Limiter, for every set of keys and requests, every rate, *)
(* burst, table size and window.                                           *)
(***************************************************************************)
EXTENDS Limiter, FiniteSetTheorems, TLAPS

(***************************************************************************)
(* Types.                                                                  *)
(***************************************************************************)

LEMMA InitTypes == Init => TypeOK
  BY UnitsAssumption DEF Init, TypeOK, IdleCall

\* A request in Allow holds a key and a time at most MaxDelay old.
LEMMA CallFields ==
  ASSUME TypeOK, NEW c \in Callers, call[c].pc = "locking"
  PROVE  /\ call[c].key \in Keys
         /\ call[c].stamp \in 0..MaxTime
         /\ call[c].stamp <= now /\ now <= call[c].stamp + MaxDelay
  BY DEF TypeOK, IdleCall

\* A bucket's refill neither overfills it nor takes its time back.
LEMMA FilledFacts ==
  ASSUME TypeOK, NEW key \in Keys, NEW time \in 0..MaxTime, time <= now
  PROVE  /\ Filled(key, time).units \in 0..Capacity
         /\ Filled(key, time).at \in 0..MaxTime
         /\ time <= Filled(key, time).at /\ Filled(key, time).at <= now
         /\ key \in live => /\ last[key] <= Filled(key, time).at
                            /\ Filled(key, time).units - tokens[key] <= Filled(key, time).at - last[key]
         /\ key \notin live => Filled(key, time).at = time
<1>1. CASE key \notin live
  BY <1>1, UnitsAssumption DEF Filled, FullBucket, TypeOK
<1>2. CASE key \in live
  <2> DEFINE regained == Regained(key, time)
  <2>1. /\ tokens[key] \in 0..Capacity /\ last[key] \in 0..MaxTime /\ last[key] <= now
        /\ now \in 0..MaxTime /\ Capacity \in Nat
    BY <1>2, UnitsAssumption DEF TypeOK
  <2>2. /\ regained \in Nat
        /\ last[key] + regained = IF time > last[key] THEN time ELSE last[key]
    BY <2>1 DEF Regained
  <2>3. /\ Lower(Capacity, tokens[key] + regained) \in 0..Capacity
        /\ Lower(Capacity, tokens[key] + regained) <= tokens[key] + regained
    BY <2>1, <2>2 DEF Lower
  <2>4. /\ Filled(key, time).units = Lower(Capacity, tokens[key] + regained)
        /\ Filled(key, time).at = last[key] + regained
    BY <1>2 DEF Filled
  <2> HIDE DEF regained
  <2> QED
    BY <1>2, <2>1, <2>2, <2>3, <2>4
<1> QED
  BY <1>1, <1>2

\* Forgetting buckets keeps the types.
LEMMA KeptTypes ==
  ASSUME TypeOK, NEW keys
  PROVE  /\ Kept(tokens, keys) \in [Keys -> 0..Capacity]
         /\ Kept(last, keys) \in [Keys -> 0..MaxTime]
         /\ \A k \in Keys \cap keys : Kept(tokens, keys)[k] = tokens[k] /\ Kept(last, keys)[k] = last[k]
  BY UnitsAssumption DEF TypeOK, Kept

LEMMA RoomKeys == ASSUME NEW key, NEW time PROVE Room(key, time) \subseteq live
  BY DEF Room

\* What Allow does to the tables, once its time and its key are known.
LEMMA AllowFacts ==
  ASSUME TypeOK, NEW c \in Callers, Allow(c)
  PROVE  LET key  == call[c].key
             b    == Filled(key, call[c].stamp)
             paid == IF b.units >= Cost THEN Cost ELSE 0
         IN  /\ key \in Keys /\ paid \in Nat /\ paid <= b.units
             /\ live' = Room(key, call[c].stamp) \cup {key}
             /\ tokens'[key] = b.units - paid /\ last'[key] = b.at
             /\ \A k \in Keys \cap live' : k # key => tokens'[k] = tokens[k] /\ last'[k] = last[k]
             /\ now >= from => spent' = [spent EXCEPT ![key] = @ + paid]
             /\ now < from => spent' = spent
             /\ now' = now /\ from' = from
             /\ tokens' \in [Keys -> 0..Capacity] /\ last' \in [Keys -> 0..MaxTime]
<1> DEFINE key  == call[c].key
           time == call[c].stamp
           b    == Filled(key, time)
           paid == IF b.units >= Cost THEN Cost ELSE 0
<1>1. /\ key \in Keys /\ time \in 0..MaxTime /\ time <= now
  BY CallFields DEF Allow
<1>2. b.units \in 0..Capacity /\ b.at \in 0..MaxTime
  BY <1>1, FilledFacts
<1>3. paid \in Nat /\ paid <= b.units /\ b.units - paid \in 0..Capacity
  BY <1>2, UnitsAssumption
<1>4. /\ live' = Room(key, time) \cup {key}
      /\ tokens' = [Kept(tokens, live') EXCEPT ![key] = b.units - paid]
      /\ last' = [Kept(last, live') EXCEPT ![key] = b.at]
      /\ spent' = IF now >= from THEN [spent EXCEPT ![key] = @ + paid] ELSE spent
      /\ now' = now /\ from' = from
  BY DEF Allow
<1>5. now \in Int /\ from \in Int
  BY DEF TypeOK
<1> HIDE DEF b, paid, key, time
<1>6. /\ tokens'[key] = b.units - paid /\ last'[key] = b.at
      /\ tokens' \in [Keys -> 0..Capacity] /\ last' \in [Keys -> 0..MaxTime]
      /\ \A k \in Keys \cap live' : k # key => tokens'[k] = tokens[k] /\ last'[k] = last[k]
  BY <1>1, <1>2, <1>3, <1>4, KeptTypes
<1>7. /\ now >= from => spent' = [spent EXCEPT ![key] = @ + paid]
      /\ now < from => spent' = spent
  BY <1>4, <1>5
<1> QED
  BY <1>1, <1>3, <1>4, <1>6, <1>7 DEF b, paid, key, time

\* Every step keeps the types.
LEMMA StepTypes == TypeOK /\ [Next]_vars => TypeOK'
<1> SUFFICES ASSUME TypeOK, [Next]_vars PROVE TypeOK'
  OBVIOUS
<1>1. ASSUME NEW c \in Callers, NEW k \in Keys, Enter(c, k) PROVE TypeOK'
  BY <1>1, IdleAssumption DEF Enter, TypeOK
<1>2. ASSUME NEW c \in Callers, Refuse(c) PROVE TypeOK'
  <2>1. live' \subseteq live
    BY <1>2, RoomKeys DEF Refuse
  <2>2. /\ tokens' \in [Keys -> 0..Capacity] /\ last' \in [Keys -> 0..MaxTime]
        /\ \A k \in live' : last'[k] = last[k]
    BY <1>2, <2>1, KeptTypes DEF Refuse, TypeOK
  <2> QED
    BY <1>2, <2>1, <2>2 DEF Refuse, TypeOK, IdleCall
<1>3. ASSUME NEW c \in Callers, Allow(c) PROVE TypeOK'
  <2> DEFINE key  == call[c].key
             b    == Filled(key, call[c].stamp)
             paid == IF b.units >= Cost THEN Cost ELSE 0
  <2>1. /\ key \in Keys /\ paid \in Nat
        /\ live' = Room(key, call[c].stamp) \cup {key}
        /\ last'[key] = b.at
        /\ \A k \in Keys \cap live' : k # key => last'[k] = last[k]
        /\ now >= from => spent' = [spent EXCEPT ![key] = @ + paid]
        /\ now < from => spent' = spent
        /\ now' = now /\ from' = from
        /\ tokens' \in [Keys -> 0..Capacity] /\ last' \in [Keys -> 0..MaxTime]
    BY <1>3, AllowFacts
  <2>2. b.at <= now
    BY <1>3, CallFields, FilledFacts DEF Allow
  <2> HIDE DEF key, b, paid
  <2>3. live' \subseteq Keys
    BY <2>1, RoomKeys DEF TypeOK
  <2>4. \A k \in live' : last'[k] <= now
    BY <2>1, <2>2, <2>3, RoomKeys DEF TypeOK
  <2>5. spent' \in [Keys -> Nat]
    <3>1. CASE now >= from
      BY <2>1, <3>1 DEF TypeOK
    <3>2. CASE now < from
      BY <2>1, <3>2 DEF TypeOK
    <3> QED
      BY <3>1, <3>2 DEF TypeOK
  <2>6. call' = [call EXCEPT ![c] = IdleCall]
    BY <1>3 DEF Allow
  <2>7. /\ call' \in [Callers -> {IdleCall} \cup [pc : {"locking"}, key : Keys, stamp : 0..MaxTime]]
        /\ \A d \in Callers : call'[d].pc = "locking" => call'[d] = call[d]
    BY <2>6 DEF TypeOK, IdleCall
  <2>8. \A d \in Callers : call'[d].pc = "locking" =>
          call'[d].stamp <= now' /\ now' <= call'[d].stamp + MaxDelay
    BY <2>1, <2>7 DEF TypeOK
  <2> QED
    BY <2>1, <2>3, <2>4, <2>5, <2>7, <2>8 DEF TypeOK
<1>4. CASE Janitor
  <2>1. /\ tokens' \in [Keys -> 0..Capacity] /\ last' \in [Keys -> 0..MaxTime]
        /\ \A k \in live' : last'[k] = last[k]
    BY <1>4, KeptTypes DEF Janitor, TypeOK
  <2> QED
    BY <1>4, <2>1 DEF Janitor, TypeOK
<1>5. CASE Tick
  <2>1. /\ now < MaxTime /\ now' = now + 1
        /\ \A c \in Callers : call[c].pc = "locking" => now < call[c].stamp + MaxDelay
        /\ UNCHANGED <<live, tokens, last, call, from, spent>>
    BY <1>5 DEF Tick
  <2>2. now' \in 0..MaxTime /\ now <= now'
    BY <2>1, UnitsAssumption DEF TypeOK
  <2>3. \A k \in live' : last'[k] <= now'
    BY <2>1, <2>2, UnitsAssumption DEF TypeOK
  <2>4. ASSUME NEW c \in Callers, call'[c].pc = "locking"
        PROVE  call'[c].stamp <= now' /\ now' <= call'[c].stamp + MaxDelay
    <3>1. call[c].stamp \in 0..MaxTime /\ call[c].stamp <= now /\ now < call[c].stamp + MaxDelay
      BY <2>1, <2>4, CallFields
    <3> QED
      BY <2>1, <3>1, UnitsAssumption, IdleAssumption DEF TypeOK
  <2> QED
    BY <2>1, <2>2, <2>3, <2>4 DEF TypeOK
<1>6. CASE UNCHANGED vars
  BY <1>6 DEF vars, TypeOK
<1> QED
  BY <1>1, <1>2, <1>3, <1>4, <1>5, <1>6 DEF Next

\* No bucket is overfull, in debt, or refilled in the future.
THEOREM TypeCorrect == Spec => []TypeOK
<1>1. Init => TypeOK
  BY InitTypes
<1>2. TypeOK /\ [Next]_vars => TypeOK'
  BY StepTypes
<1> QED
  BY <1>1, <1>2, PTL DEF Spec

(***************************************************************************)
(* The quota of a window.                                                  *)
(***************************************************************************)

LEMMA InitPaid == Init => PaidInv
  BY DEF Init, PaidInv, Paid

\* A bucket forgotten at a time that is past had filled up by then: what its
\* key was granted is paid by the refills alone.
LEMMA ForgottenPaid ==
  ASSUME TypeOK, PaidInv, NEW time \in 0..MaxTime, time <= now,
         NEW k \in Stale(time), spent[k] > 0
  PROVE  spent[k] <= now - from
<1>1. k \in Keys /\ k \in live /\ last[k] < time - Idle
  BY DEF Stale, TypeOK
<1>2. spent[k] + tokens[k] <= Capacity + (last[k] + MaxDelay - from)
  BY <1>1 DEF PaidInv, Paid
<1>3. /\ spent[k] \in Nat /\ tokens[k] \in Nat /\ last[k] \in Nat
      /\ now \in Nat /\ from \in Nat /\ Capacity \in Nat
  BY <1>1, UnitsAssumption DEF TypeOK
<1> QED
  BY <1>1, <1>2, <1>3, IdleAssumption

\* Every step pays what it grants.
LEMMA StepPaid == TypeOK /\ PaidInv /\ [Next]_vars => PaidInv'
<1> SUFFICES ASSUME TypeOK, PaidInv, [Next]_vars, NEW k \in Keys PROVE Paid(k)'
  BY DEF PaidInv
<1> USE DEF PaidInv
<1>0. /\ spent[k] \in Nat /\ tokens[k] \in 0..Capacity /\ last[k] \in Nat
      /\ now \in Nat /\ from \in Nat /\ Capacity \in Nat /\ MaxDelay \in Nat
      /\ k \in live => last[k] <= now
  BY UnitsAssumption, IdleAssumption DEF TypeOK
<1>1. ASSUME NEW c \in Callers, NEW q \in Keys, Enter(c, q) PROVE Paid(k)'
  BY <1>1 DEF Enter, Paid
<1>2. ASSUME NEW c \in Callers, Refuse(c) PROVE Paid(k)'
  <2>1. call[c].stamp \in 0..MaxTime /\ call[c].stamp <= now
    BY <1>2, CallFields DEF Refuse
  <2>2. live' = Room(call[c].key, call[c].stamp) /\ live' \subseteq live
    BY <1>2, RoomKeys DEF Refuse
  <2>3. k \in live' => tokens'[k] = tokens[k] /\ last'[k] = last[k]
    BY <1>2, KeptTypes DEF Refuse
  <2>4. k \in live /\ k \notin live' => k \in Stale(call[c].stamp)
    BY <2>2 DEF Room
  <2>5. UNCHANGED <<now, from, spent>>
    BY <1>2 DEF Refuse
  <2> QED
    BY <1>0, <2>1, <2>2, <2>3, <2>4, <2>5, ForgottenPaid DEF Paid
<1>3. ASSUME NEW c \in Callers, Allow(c) PROVE Paid(k)'
  <2> DEFINE key  == call[c].key
             time == call[c].stamp
             b    == Filled(key, time)
             paid == IF b.units >= Cost THEN Cost ELSE 0
  <2>1. /\ key \in Keys /\ paid \in Nat /\ paid <= b.units
        /\ live' = Room(key, time) \cup {key}
        /\ tokens'[key] = b.units - paid /\ last'[key] = b.at
        /\ \A q \in Keys \cap live' : q # key => tokens'[q] = tokens[q] /\ last'[q] = last[q]
        /\ now >= from => spent' = [spent EXCEPT ![key] = @ + paid]
        /\ now < from => spent' = spent
        /\ now' = now /\ from' = from
    BY <1>3, AllowFacts
  <2>2. /\ time \in 0..MaxTime /\ time <= now /\ now <= time + MaxDelay
    BY <1>3, CallFields DEF Allow
  <2>3. /\ b.units \in 0..Capacity /\ b.at \in 0..MaxTime
        /\ time <= b.at /\ b.at <= now
        /\ key \in live => last[key] <= b.at /\ b.units - tokens[key] <= b.at - last[key]
        /\ key \notin live => b.at = time
    BY <2>1, <2>2, FilledFacts
  <2> HIDE DEF key, time, b, paid
  <2>4. CASE k = key
    <3>1. /\ k \in live' /\ last'[k] = b.at /\ tokens'[k] = b.units - paid
          /\ now >= from => spent'[k] = spent[k] + paid
          /\ now < from => spent'[k] = spent[k]
      BY <2>1, <2>4 DEF TypeOK
    <3>2. now < from => spent[k] = 0
      BY <1>0 DEF Paid
    <3>3. CASE now < from
      BY <3>1, <3>2, <3>3 DEF Paid
    <3>4. CASE now >= from
      <4>1. b.at + MaxDelay >= from
        BY <1>0, <2>2, <2>3, <3>4
      <4>2. CASE spent[k] = 0
        BY <1>0, <2>1, <2>3, <3>1, <3>4, <4>1, <4>2 DEF Paid
      <4>3. CASE spent[k] > 0 /\ k \in live
        <5>1. spent[k] + tokens[k] <= Capacity + (last[k] + MaxDelay - from)
          BY <4>3 DEF Paid
        <5>2. b.units - tokens[k] <= b.at - last[k]
          BY <2>3, <2>4, <4>3
        <5>3. spent'[k] + tokens'[k] <= Capacity + (b.at + MaxDelay - from)
          BY <1>0, <2>1, <2>3, <3>1, <3>4, <5>1, <5>2
        <5> QED
          BY <2>1, <3>1, <3>4, <4>1, <5>3 DEF Paid
      <4>4. CASE spent[k] > 0 /\ k \notin live
        <5>1. spent[k] <= now - from
          BY <4>4 DEF Paid
        <5>2. spent'[k] + tokens'[k] <= Capacity + (b.at + MaxDelay - from)
          BY <1>0, <2>1, <2>2, <2>3, <3>1, <3>4, <5>1
        <5> QED
          BY <2>1, <3>1, <3>4, <4>1, <5>2 DEF Paid
      <4> QED
        BY <1>0, <4>2, <4>3, <4>4
    <3> QED
      BY <1>0, <3>3, <3>4
  <2>5. CASE k # key
    <3>1. /\ spent'[k] = spent[k]
          /\ k \in live' => k \in live /\ tokens'[k] = tokens[k] /\ last'[k] = last[k]
          /\ k \in live /\ k \notin live' => k \in Stale(time)
      BY <1>0, <2>1, <2>5, RoomKeys DEF TypeOK, Room
    <3> QED
      BY <1>0, <2>1, <2>2, <3>1, ForgottenPaid DEF Paid
  <2> QED
    BY <2>4, <2>5
<1>4. CASE Janitor
  <2>1. live' = live \ Stale(now) /\ UNCHANGED <<now, from, spent>>
    BY <1>4 DEF Janitor
  <2>2. k \in live' => tokens'[k] = tokens[k] /\ last'[k] = last[k]
    BY <1>4, KeptTypes DEF Janitor
  <2>3. now \in 0..MaxTime /\ now <= now
    BY DEF TypeOK
  <2> QED
    BY <1>0, <2>1, <2>2, <2>3, ForgottenPaid DEF Paid
<1>5. CASE Tick
  <2>1. now' = now + 1 /\ UNCHANGED <<live, tokens, last, from, spent>>
    BY <1>5 DEF Tick
  <2> QED
    BY <1>0, <2>1 DEF Paid
<1>6. CASE UNCHANGED vars
  BY <1>6 DEF vars, Paid
<1> QED
  BY <1>1, <1>2, <1>3, <1>4, <1>5, <1>6 DEF Next

\* No key is granted more than the burst and the rate allow, in any window.
THEOREM WindowsBounded == Spec => []WindowBound
<1>1. Init => TypeOK /\ PaidInv
  BY InitTypes, InitPaid
<1>2. TypeOK /\ PaidInv /\ [Next]_vars => TypeOK' /\ PaidInv'
  BY StepTypes, StepPaid
<1>3. TypeOK /\ PaidInv => WindowBound
  <2> SUFFICES ASSUME TypeOK, PaidInv, NEW k \in Keys, spent[k] > 0
               PROVE  spent[k] <= Capacity + (now - from) + MaxDelay
    BY DEF WindowBound
  <2>1. /\ spent[k] \in Nat /\ tokens[k] \in Nat /\ last[k] \in Nat
        /\ now \in Nat /\ from \in Nat /\ Capacity \in Nat /\ MaxDelay \in Nat
        /\ k \in live => last[k] <= now
    BY UnitsAssumption, IdleAssumption DEF TypeOK
  <2> QED
    BY <2>1 DEF PaidInv, Paid
<1> QED
  BY <1>1, <1>2, <1>3, PTL DEF Spec

(***************************************************************************)
(* The table of buckets.                                                   *)
(***************************************************************************)

\* The table is a finite set within its bound.
TableInv == IsFiniteSet(live) /\ TableBounded

LEMMA InitTable == Init => TableInv
  BY FS_EmptySet, UnitsAssumption DEF Init, TableInv, TableBounded

\* A newcomer joins the table only when there is room for it.
LEMMA StepTable == TableInv /\ [Next]_vars => TableInv'
<1> SUFFICES ASSUME TableInv, [Next]_vars PROVE TableInv'
  OBVIOUS
<1>1. ASSUME live' \subseteq live PROVE TableInv'
  <2>1. IsFiniteSet(live') /\ Cardinality(live') <= Cardinality(live)
    BY <1>1, FS_Subset DEF TableInv
  <2>2. Cardinality(live) \in Nat /\ Cardinality(live') \in Nat
    BY <2>1, FS_CardinalityType DEF TableInv
  <2> QED
    BY <2>1, <2>2, UnitsAssumption DEF TableInv, TableBounded
<1>2. ASSUME NEW c \in Callers, Allow(c) PROVE TableInv'
  <2> DEFINE key  == call[c].key
             room == Room(key, call[c].stamp)
  <2>1. live' = room \cup {key} /\ ~NoRoom(key, call[c].stamp)
    BY <1>2 DEF Allow
  <2>2. room \subseteq live
    BY RoomKeys
  <2>3. CASE key \in live
    <3>1. room = live
      BY <2>3 DEF Room
    <3> QED
      BY <1>1, <2>1, <2>3, <3>1
  <2>4. CASE key \notin live
    <3>1. IsFiniteSet(room) /\ Cardinality(room) \in Nat
      BY <2>2, FS_Subset, FS_CardinalityType DEF TableInv
    <3>2. Cardinality(room) < MaxBuckets
      BY <2>1, <2>4, <3>1, UnitsAssumption DEF NoRoom
    <3>3. IsFiniteSet(live') /\ Cardinality(live') = Cardinality(room) + 1
      BY <2>1, <2>2, <2>4, <3>1, FS_AddElement
    <3> QED
      BY <3>1, <3>2, <3>3, UnitsAssumption DEF TableInv, TableBounded
  <2> QED
    BY <2>3, <2>4
<1>3. ASSUME NEW c \in Callers, Refuse(c) PROVE TableInv'
  BY <1>1, <1>3, RoomKeys DEF Refuse
<1>4. ASSUME NEW c \in Callers, NEW k \in Keys, Enter(c, k) PROVE TableInv'
  BY <1>1, <1>4 DEF Enter
<1>5. CASE Janitor
  BY <1>1, <1>5 DEF Janitor
<1>6. CASE Tick
  BY <1>1, <1>6 DEF Tick
<1>7. CASE UNCHANGED vars
  BY <1>1, <1>7 DEF vars
<1> QED
  BY <1>2, <1>3, <1>4, <1>5, <1>6, <1>7 DEF Next

\* The table of buckets never outgrows its bound.
THEOREM TableStaysBounded == Spec => []TableBounded
<1>1. Init => TableInv
  BY InitTable
<1>2. TableInv /\ [Next]_vars => TableInv'
  BY StepTable
<1>3. TableInv => TableBounded
  BY DEF TableInv
<1> QED
  BY <1>1, <1>2, <1>3, PTL DEF Spec

(***************************************************************************)
(* The newcomers that are turned away.                                     *)
(***************************************************************************)

\* A call that ends without its key in the table was refused: Allow puts the
\* key there, and nobody else ends it.
LEMMA EndsWithoutKey ==
  ASSUME TypeOK, [Next]_vars, NEW c \in Callers,
         call[c].pc = "locking", call'[c].pc = "idle", call[c].key \notin live'
  PROVE  Refuse(c)
<1>1. call \in [Callers -> {IdleCall} \cup [pc : {"locking"}, key : Keys, stamp : 0..MaxTime]]
  BY DEF TypeOK
<1>2. ASSUME NEW d \in Callers, NEW k \in Keys, Enter(d, k) PROVE FALSE
  BY <1>1, <1>2 DEF Enter
<1>3. ASSUME NEW d \in Callers, Refuse(d) PROVE d = c
  BY <1>1, <1>3 DEF Refuse
<1>4. ASSUME NEW d \in Callers, Allow(d) PROVE FALSE
  <2>1. call' = [call EXCEPT ![d] = IdleCall] /\ call[d].key \in live'
    BY <1>4 DEF Allow
  <2> QED
    BY <1>1, <2>1
<1>5. Janitor \/ Tick \/ UNCHANGED vars => call' = call
  BY DEF Janitor, Tick, vars
<1> QED
  BY <1>2, <1>3, <1>4, <1>5 DEF Next

\* A full table, purged for the sake of the newcomer, holds the buckets of
\* visitors seen within the idle time.
LEMMA RefusedByFullTable ==
  ASSUME TypeOK, TableInv, NEW c \in Callers, Refuse(c)
  PROVE  /\ Cardinality(live') = MaxBuckets
         /\ \A k \in live' : last[k] + Idle >= call[c].stamp
<1> DEFINE key  == call[c].key
           time == call[c].stamp
<1>1. /\ key \notin live
      /\ Cardinality(Room(key, time)) >= MaxBuckets
      /\ live' = Room(key, time)
  BY DEF Refuse, NoRoom
<1>2. /\ IsFiniteSet(live) /\ Cardinality(live) \in Nat /\ Cardinality(live) <= MaxBuckets
  BY FS_CardinalityType DEF TableInv, TableBounded
<1>3. /\ Cardinality(live') \in Nat
      /\ Cardinality(live') <= Cardinality(live)
  BY <1>1, <1>2, RoomKeys, FS_Subset, FS_CardinalityType
<1>4. Cardinality(live') = MaxBuckets /\ Cardinality(live) >= MaxBuckets
  BY <1>1, <1>2, <1>3, UnitsAssumption
<1>5. live' = live \ Stale(time)
  BY <1>1, <1>4 DEF Room
<1>6. ASSUME NEW k \in live' PROVE last[k] + Idle >= time
  <2>1. last[k] \in Nat /\ time \in Nat /\ Idle \in Nat
    BY <1>5, CallFields, IdleAssumption DEF TypeOK, Refuse
  <2>2. ~(last[k] < time - Idle)
    BY <1>5, <1>6 DEF Stale
  <2> QED
    BY <2>1, <2>2
<1> QED
  BY <1>4, <1>6

\* A request is turned away for want of room by active visitors only, however
\* late the janitor is and however long the request waited for the lock.
THEOREM RefusalsAreJustified == Spec => RefusedByActiveOnly
<1>1. Init => TypeOK /\ TableInv
  BY InitTypes, InitTable
<1>2. TypeOK /\ TableInv /\ [Next]_vars => TypeOK' /\ TableInv'
  BY StepTypes, StepTable
<1>3. TypeOK /\ TableInv /\ [Next]_vars =>
        [\A c \in Callers :
           (call[c].pc = "locking" /\ call'[c].pc = "idle" /\ call[c].key \notin live') =>
             /\ Cardinality(live') = MaxBuckets
             /\ \A k \in live' : last[k] + Idle >= call[c].stamp]_vars
  BY EndsWithoutKey, RefusedByFullTable
<1> QED
  BY <1>1, <1>2, <1>3, PTL DEF Spec, RefusedByActiveOnly
=============================================================================
