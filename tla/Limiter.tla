------------------------------- MODULE Limiter -------------------------------
(***************************************************************************)
(* The in-memory token buckets of httpx/ratelimit.go: requests that call   *)
(* Allow concurrently, the mutex, the bounded table of buckets and the     *)
(* janitor that forgets idle ones.                                         *)
(*                                                                         *)
(* Time advances by ticks and a bucket regains one unit per tick: a token  *)
(* is worth Cost units, so that the rate of the code is 1 / Cost tokens    *)
(* per tick. The rounding of float64 is left out.                          *)
(***************************************************************************)
EXTENDS Integers, FiniteSets

CONSTANTS
  Keys,        \* what requests are limited by: IP addresses or accounts
  NoKey,       \* no key: a caller without a request
  Callers,     \* the requests that can be in Allow together
  Cost,        \* units of a token
  Capacity,    \* units of a full bucket (burst tokens)
  Idle,        \* how long an unused bucket is kept (10 minutes in the code)
  MaxBuckets,  \* maxBuckets (50 000 in the code)
  MaxDelay,    \* bound: longest wait between reading the clock and the lock
  MaxTime      \* bound: the clock stops there

\* NewLimiter raises rate and burst to at least one token.
ASSUME UnitsAssumption ==
  /\ Cost \in Nat \ {0} /\ Capacity \in Nat /\ Capacity >= Cost
  /\ MaxBuckets \in Nat \ {0}
  /\ MaxTime \in Nat
  /\ NoKey \notin Keys

\* A bucket fills up well within the time it is kept: 30 seconds for the
\* logins, 2 minutes for the uploads, 20 seconds at most for the others,
\* against 10 minutes (api/router.go:73-78).
ASSUME IdleAssumption ==
  /\ Idle \in Nat /\ MaxDelay \in Nat
  /\ Idle >= Capacity + MaxDelay

VARIABLES
  now,     \* the clock
  live,    \* the keys of l.buckets
  tokens,  \* each bucket's tokens, in units
  last,    \* each bucket's last refill
  call,    \* the requests in Allow: the key, and the time they have read
  from,    \* history: the start of a window of time, any
  spent    \* history: what each key was granted since `from`, in units

vars == <<now, live, tokens, last, call, from, spent>>

IdleCall == [pc |-> "idle", key |-> NoKey, stamp |-> 0]

-----------------------------------------------------------------------------
(* Allow                                                                   *)

\* ratelimit.go:63. The clock is read before the lock is asked for.
Enter(c, k) ==
  /\ call[c].pc = "idle"
  /\ call' = [call EXCEPT ![c] = [pc |-> "locking", key |-> k, stamp |-> now]]
  /\ UNCHANGED <<now, live, tokens, last, from, spent>>

\* ratelimit.go:116-122, with cutoff = time - Idle.
Stale(time) == {k \in live : last[k] < time - Idle}

\* ratelimit.go:69-78. The buckets that are left for the key to join: a full
\* table is purged before a newcomer is refused.
RoomUnpurged(key, time) == live

Room(key, time) ==
  IF key \notin live /\ Cardinality(live) >= MaxBuckets THEN live \ Stale(time) ELSE live

\* ratelimit.go:69-75. The table stays full: the newcomer is refused.
NoRoomForLess(key, time) == key \notin live /\ Cardinality(Room(key, time)) > MaxBuckets

NoRoom(key, time) == key \notin live /\ Cardinality(Room(key, time)) >= MaxBuckets

Lower(a, b) == IF a <= b THEN a ELSE b

\* ratelimit.go:80-81. No refill for a request whose time is already past.
Regained(key, time) == IF time > last[key] THEN time - last[key] ELSE 0

FullBucket(time) == [units |-> Capacity, at |-> time]

FilledUncapped(key, time) ==
  IF key \notin live THEN FullBucket(time)
  ELSE [units |-> tokens[key] + Regained(key, time), at |-> last[key] + Regained(key, time)]

FilledAtAnyTime(key, time) ==
  IF key \notin live THEN FullBucket(time)
  ELSE [units |-> Lower(Capacity, tokens[key] + Regained(key, time)), at |-> time]

\* ratelimit.go:76-84. What the bucket holds when this request looks at it:
\* full if new, refilled up to its capacity otherwise.
Filled(key, time) ==
  IF key \notin live THEN FullBucket(time)
  ELSE [units |-> Lower(Capacity, tokens[key] + Regained(key, time)),
        at |-> last[key] + Regained(key, time)]

\* A forgotten bucket leaves nothing behind.
Kept(field, keys) == [k \in Keys |-> IF k \in keys THEN field[k] ELSE 0]

\* A newcomer that a full table refuses.
Refuse(c) ==
  /\ call[c].pc = "locking"
  /\ NoRoom(call[c].key, call[c].stamp)
  /\ live' = Room(call[c].key, call[c].stamp)
  /\ tokens' = Kept(tokens, live')
  /\ last' = Kept(last, live')
  /\ call' = [call EXCEPT ![c] = IdleCall]
  /\ UNCHANGED <<now, from, spent>>

\* ratelimit.go:65-92, the critical section: a token is taken if there is one.
Allow(c) ==
  LET key  == call[c].key
      time == call[c].stamp
      b    == Filled(key, time)
      paid == IF b.units >= Cost THEN Cost ELSE 0
  IN  /\ call[c].pc = "locking"
      /\ ~NoRoom(key, time)
      /\ live' = Room(key, time) \cup {key}
      /\ tokens' = [Kept(tokens, live') EXCEPT ![key] = b.units - paid]
      /\ last' = [Kept(last, live') EXCEPT ![key] = b.at]
      /\ spent' = IF now >= from THEN [spent EXCEPT ![key] = @ + paid] ELSE spent
      /\ call' = [call EXCEPT ![c] = IdleCall]
      /\ UNCHANGED <<now, from>>

-----------------------------------------------------------------------------
(* The janitor and the clock                                               *)

\* ratelimit.go:97-112. The clock is read under the lock. The ticker's phase
\* is left open: the purge may come at any time.
Janitor ==
  /\ live' = live \ Stale(now)
  /\ tokens' = Kept(tokens, live')
  /\ last' = Kept(last, live')
  /\ UNCHANGED <<now, call, from, spent>>

\* Time passes, unless a request has waited MaxDelay for the lock.
Tick ==
  /\ now < MaxTime
  /\ \A c \in Callers : call[c].pc = "locking" => now < call[c].stamp + MaxDelay
  /\ now' = now + 1
  /\ UNCHANGED <<live, tokens, last, call, from, spent>>

-----------------------------------------------------------------------------
(* The specification                                                       *)

\* NewLimiter, ratelimit.go:44-58.
Init ==
  /\ now = 0
  /\ live = {}
  /\ tokens = [k \in Keys |-> 0]
  /\ last = [k \in Keys |-> 0]
  /\ call = [c \in Callers |-> IdleCall]
  /\ from \in 0..MaxTime
  /\ spent = [k \in Keys |-> 0]

Next ==
  \/ \E c \in Callers : \/ \E k \in Keys : Enter(c, k)
                        \/ Refuse(c)
                        \/ Allow(c)
  \/ Janitor
  \/ Tick

Spec == Init /\ [][Next]_vars

-----------------------------------------------------------------------------
(* Properties                                                              *)

\* Every variable has the type its Go counterpart has; a bucket is never
\* overfull, never in debt, and never refilled in the future.
TypeOK ==
  /\ now \in 0..MaxTime
  /\ live \subseteq Keys
  /\ tokens \in [Keys -> 0..Capacity]
  /\ last \in [Keys -> 0..MaxTime]
  /\ \A k \in live : last[k] <= now
  /\ call \in [Callers -> {IdleCall} \cup [pc : {"locking"}, key : Keys, stamp : 0..MaxTime]]
  /\ \A c \in Callers : call[c].pc = "locking" =>
       call[c].stamp <= now /\ now <= call[c].stamp + MaxDelay
  /\ from \in 0..MaxTime
  /\ spent \in [Keys -> Nat]

\* Whatever the window, however the requests that read the clock early reach
\* the lock late, and whether or not the bucket was forgotten meanwhile: a key
\* is granted no more than the burst and what its rate regains over the window
\* (plus the longest wait for the lock).
WindowBound ==
  \A k \in Keys : spent[k] > 0 => spent[k] <= Capacity + (now - from) + MaxDelay

\* The table never outgrows its bound (ratelimit.go:28-35).
TableBounded == Cardinality(live) <= MaxBuckets

\* A request is turned away for want of room only when every bucket of a full
\* table has been used within the idle time, as seen by the request: forgotten
\* visitors never keep newcomers out, even if the janitor is late.
RefusedByActiveOnly ==
  [][\A c \in Callers :
       (call[c].pc = "locking" /\ call'[c].pc = "idle" /\ call[c].key \notin live') =>
         /\ Cardinality(live') = MaxBuckets
         /\ \A k \in live' : last[k] + Idle >= call[c].stamp]_vars

-----------------------------------------------------------------------------
(* Inductive strengthening, for the proofs                                 *)

\* What a key was granted since `from`, on top of what its bucket holds, was
\* paid by the burst and by the refills since `from`. A forgotten bucket has
\* had the time to fill up.
Paid(k) ==
  spent[k] > 0 =>
    /\ now >= from
    /\ k \in live => /\ last[k] + MaxDelay >= from
                     /\ spent[k] + tokens[k] <= Capacity + (last[k] + MaxDelay - from)
    /\ k \notin live => spent[k] <= now - from

PaidInv == \A k \in Keys : Paid(k)
=============================================================================
