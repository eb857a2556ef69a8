--------------------------------- MODULE Uid ---------------------------------
(***************************************************************************)
(* The identifiers of the rows (uid/uid.go): a UUID of version 7 carries    *)
(* the milliseconds of the clock in its first six octets. PostgreSQL orders *)
(* a uuid by its octets, and three queries take that order for the order of *)
(* creation: the wheels of an account (store/wheels.go:65), its images      *)
(* (store/images.go:60) and the orphans of the purge (store/images.go:107). *)
(***************************************************************************)
EXTENDS Integers

CONSTANTS
  Millis,  \* the times the clock may read, in milliseconds since 1970
  Draws    \* what rand.Read may write into the last ten octets

ASSUME MillisAssumption == Millis \subseteq Nat
ASSUME DrawsAssumption == Draws \subseteq [7..16 -> 0..255]

\* ms >> 40, ms >> 32 ... ms: the quotient whose low octet goes to place i.
Shifted(ms, i) ==
  LET By8(n) == n \div 256 IN
  CASE i = 6 -> ms
    [] i = 5 -> By8(ms)
    [] i = 4 -> By8(By8(ms))
    [] i = 3 -> By8(By8(By8(ms)))
    [] i = 2 -> By8(By8(By8(By8(ms))))
    [] i = 1 -> By8(By8(By8(By8(By8(ms)))))

NewAtLosingLowOctet(ms, draw) ==
  [i \in 1..16 |->
     CASE i \in 1..5 -> Shifted(ms, i) % 256
       [] i = 6 -> Shifted(ms, 5) % 256
       [] i = 7 -> 112 + (draw[7] % 16)
       [] i = 9 -> 128 + (draw[9] % 64)
       [] OTHER -> draw[i]]

\* The time, high octet first, then the draw under the version and the variant.
NewAt(ms, draw) ==
  [i \in 1..16 |->
     CASE i \in 1..6 -> Shifted(ms, i) % 256
       [] i = 7 -> 112 + (draw[7] % 16)
       [] i = 9 -> 128 + (draw[9] % 64)
       [] OTHER -> draw[i]]

\* The milliseconds the first six octets carry.
Time(u) == ((((u[1] * 256 + u[2]) * 256 + u[3]) * 256 + u[4]) * 256 + u[5]) * 256 + u[6]

Version(u) == u[7] \div 16

\* ORDER BY id compares octet by octet.
Before(u, v) == \E i \in 1..16 : u[i] < v[i] /\ \A j \in 1..i - 1 : u[j] = v[j]

\* Rows of different milliseconds are ordered as they were created, whatever
\* the generator draws, and an identifier gives its millisecond back. Within
\* one millisecond the order is the one of the draws.
IdsFollowTime ==
  \A ms \in Millis, draw \in Draws :
    /\ Time(NewAt(ms, draw)) = ms
    /\ Version(NewAt(ms, draw)) = 7
    /\ \A later \in Millis, other \in Draws :
         ms < later => Before(NewAt(ms, draw), NewAt(later, other))
=============================================================================
