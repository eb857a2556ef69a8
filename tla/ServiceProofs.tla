---------------------------- MODULE ServiceProofs ----------------------------
(***************************************************************************)
(* Theorems about Service, for any number of processes, migration files,    *)
(* pages and sessions: the start of the processes first, which no request   *)
(* disturbs, then the requests.                                              *)
(***************************************************************************)
EXTENDS Service, TLAPS

-----------------------------------------------------------------------------
(* Configuration (config/config.go)                                        *)

\* Whatever the operator writes, an accepted environment gives a session cookie
\* that browsers keep, and in production one that never travels in the clear,
\* HSTS and no frame ancestor at large.
THEOREM AcceptedIsSound ==
  ASSUME NEW e \in Environment, Accepted(e)
  PROVE  CookieKept(e) /\ ProductionSafe(e)
<1>1. e.hours \in 1..24 * 90
  BY Zenon DEF Accepted
<1>2. CookieAccepted(e) /\ AncestorsAccepted(e)
  BY Zenon DEF Accepted
<1>3. e.hours * 3600 > 0
  BY <1>1
<1>4. CookieKept(e)
  <2>1. Cookie(e).maxAge > 0
    BY <1>3 DEF Cookie
  <2>2. Cookie(e).hostPrefix => Cookie(e).secure
    BY DEF Cookie
  <2>3. Cookie(e).secure => e.base = "https"
    BY <1>2 DEF Cookie, CookieAccepted
  <2> QED  BY <2>1, <2>2, <2>3 DEF CookieKept
<1>5. ProductionSafe(e)
  <2> SUFFICES ASSUME AppEnv(e) = "production"
               PROVE  Cookie(e).secure /\ Headers(e).hsts /\ "star" \notin Headers(e).ancestors
    BY DEF ProductionSafe
  <2>1. CookieSecure(e)
    BY <1>2 DEF CookieAccepted
  <2>2. "star" \notin ParseFrameAncestors(e)
    BY <1>2 DEF AncestorsAccepted, ParseFrameAncestors
  <2> QED  BY <2>1, <2>2 DEF Cookie, Headers
<1> QED  BY <1>4, <1>5

-----------------------------------------------------------------------------
(* The start                                                               *)

\* A process knows every file it has to apply, and answers when there is none.
ProcessInv ==
  \A p \in Processes :
    /\ process[p].pc = "migrating" => Files \subseteq recorded \cup process[p].left
    /\ process[p].pc \in {"serving", "draining"} => recorded = Files
    /\ process[p].pc \in Running => Accepted(env)

StartInv == StartTypeOK /\ MigratedOnce /\ ProcessInv

LEMMA StartInitInv == StartInit => StartInv
<1> SUFFICES ASSUME StartInit PROVE StartInv
  OBVIOUS
<1> USE DEF StartInit, At
<1>1. StartTypeOK
  <2>1. {At("down"), At("stopped")} \subseteq
          [pc : Running \cup {"down", "stopped"}, left : SUBSET Files]
    OBVIOUS
  <2>2. process \in [Processes -> [pc : Running \cup {"down", "stopped"}, left : SUBSET Files]]
    BY <2>1
  <2>3. applied \in [Files -> Nat]
    OBVIOUS
  <2>4. incidents \in 0..MaxIncidents
    BY StartBounds
  <2>5. env \in Environments /\ tracked \in BOOLEAN /\ recorded \in SUBSET Files
    OBVIOUS
  <2> HIDE DEF StartInit, At
  <2> QED  BY <2>2, <2>3, <2>4, <2>5 DEF StartTypeOK
<1>2. MigratedOnce
  BY DEF MigratedOnce
<1>3. ProcessInv
  BY DEF ProcessInv, Running, Starting
<1> QED  BY <1>1, <1>2, <1>3 DEF StartInv

\* What a move of one process changes: nothing of what was applied.
Moved(p, r) ==
  /\ process' = [process EXCEPT ![p] = r]
  /\ UNCHANGED <<env, recorded, applied>>
  /\ tracked' \in BOOLEAN
  /\ UNCHANGED incidents \/ Incident

LEMMA IncidentType ==
  ASSUME incidents \in 0..MaxIncidents, UNCHANGED incidents \/ Incident
  PROVE  incidents' \in 0..MaxIncidents
BY StartBounds DEF Incident

LEMMA Moves ==
  ASSUME StartInv, NEW p \in Processes, NEW r, Moved(p, r),
         r \in [pc : Running \cup {"down", "stopped"}, left : SUBSET Files],
         r.pc = "migrating" => Files \subseteq recorded \cup r.left,
         r.pc \in {"serving", "draining"} => recorded = Files,
         r.pc \in Running => Accepted(env)
  PROVE  StartInv'
<1> USE DEF Moved
<1>1. StartTypeOK'
  BY IncidentType DEF StartInv, StartTypeOK
<1>2. MigratedOnce'
  BY DEF StartInv, MigratedOnce
<1>3. ProcessInv'
  <2> SUFFICES ASSUME NEW q \in Processes
               PROVE  /\ process'[q].pc = "migrating" => Files \subseteq recorded \cup process'[q].left
                      /\ process'[q].pc \in {"serving", "draining"} => recorded = Files
                      /\ process'[q].pc \in Running => Accepted(env)
    BY DEF ProcessInv
  <2>1. process'[q] = IF q = p THEN r ELSE process[q]
    BY DEF StartInv, StartTypeOK
  <2> QED  BY <2>1 DEF StartInv, ProcessInv
<1> QED  BY <1>1, <1>2, <1>3 DEF StartInv

\* A step that leaves the processes alone.
LEMMA StartUndisturbed ==
  ASSUME StartInv, ServerSame, UNCHANGED incidents \/ Incident
  PROVE  StartInv'
<1> USE DEF ServerSame
<1>1. StartTypeOK'
  BY IncidentType DEF StartInv, StartTypeOK
<1>2. MigratedOnce'
  BY DEF StartInv, MigratedOnce
<1>3. ProcessInv'
  BY DEF StartInv, ProcessInv
<1> QED  BY <1>1, <1>2, <1>3 DEF StartInv

\* A file that no process had applied, and that comes before those left.
LEMMA Applies ==
  ASSUME StartInv, NEW p \in Processes, NEW f \in Files,
         process[p].pc = "migrating", IsNext(p, f), ~Conflicts(f),
         applied' = [applied EXCEPT ![f] = @ + 1],
         recorded' = recorded \cup {f},
         process' = [process EXCEPT ![p] = Without(p, f)],
         UNCHANGED <<env, tracked, incidents>>
  PROVE  StartInv'
<1>1. Without(p, f) \in [pc : Running \cup {"down", "stopped"}, left : SUBSET Files]
  BY DEF Without, StartInv, StartTypeOK, Running, Starting
<1>2. StartTypeOK'
  <2>1. process' \in [Processes -> [pc : Running \cup {"down", "stopped"}, left : SUBSET Files]]
    BY <1>1 DEF StartInv, StartTypeOK
  <2>2. applied' \in [Files -> Nat]
    BY DEF StartInv, StartTypeOK
  <2> QED  BY <2>1, <2>2 DEF StartInv, StartTypeOK
<1>3. MigratedOnce'
  <2>1. \A g \in Files : applied'[g] = IF g \in recorded' THEN 1 ELSE 0
    <3> SUFFICES ASSUME NEW g \in Files
                 PROVE  applied'[g] = IF g \in recorded' THEN 1 ELSE 0
      OBVIOUS
    <3>1. applied[g] = IF g \in recorded THEN 1 ELSE 0
      BY DEF StartInv, MigratedOnce
    <3>2. f \notin recorded
      BY DEF Conflicts
    <3>3. applied'[g] = IF g = f THEN applied[g] + 1 ELSE applied[g]
      BY DEF StartInv, StartTypeOK
    <3> QED  BY <3>1, <3>2, <3>3
  <2>2. \A g, h \in Files : h \in recorded' /\ g < h => g \in recorded'
    <3> SUFFICES ASSUME NEW g \in Files, NEW h \in Files, h \in recorded', g < h
                 PROVE  g \in recorded'
      OBVIOUS
    <3>1. CASE h \in recorded
      BY <3>1 DEF StartInv, MigratedOnce
    <3>2. CASE h = f
      <4>1. g \notin process[p].left
        BY <3>2, FilesAssumption DEF IsNext, StartInv, StartTypeOK
      <4> QED  BY <4>1 DEF StartInv, ProcessInv
    <3> QED  BY <3>1, <3>2
  <2> QED  BY <2>1, <2>2 DEF MigratedOnce
<1>4. ProcessInv'
  <2> SUFFICES ASSUME NEW q \in Processes
               PROVE  /\ process'[q].pc = "migrating" => Files \subseteq recorded' \cup process'[q].left
                      /\ process'[q].pc \in {"serving", "draining"} => recorded' = Files
                      /\ process'[q].pc \in Running => Accepted(env)
    BY DEF ProcessInv
  <2>1. CASE q = p
    <3>1. process'[q] = Without(p, f)
      BY <2>1 DEF StartInv, StartTypeOK
    <3> QED  BY <2>1, <3>1 DEF Without, StartInv, ProcessInv, Running, Starting
  <2>2. CASE q # p
    <3>1. process'[q] = process[q]
      BY <2>2 DEF StartInv, StartTypeOK
    <3>2. recorded = Files => recorded' = Files
      OBVIOUS
    <3> QED  BY <3>1, <3>2 DEF StartInv, ProcessInv
  <2> QED  BY <2>1, <2>2
<1> QED  BY <1>2, <1>3, <1>4 DEF StartInv

LEMMA BootStep ==
  ASSUME StartInv, NEW p \in Processes, Boot(p)
  PROVE  StartInv'
<1> DEFINE R == [pc : Running \cup {"down", "stopped"}, left : SUBSET Files]
<1>0. process[p] \in R /\ tracked \in BOOLEAN
  BY DEF StartInv, StartTypeOK
<1>1. CASE Start(p)
  <2>1. Moved(p, At("opening"))
    BY <1>0, <1>1 DEF Start, Go, Moved
  <2> QED  BY <1>1, <2>1, Moves DEF Start, At, Running, Starting
<1>2. CASE Open(p)
  <2>1. Moved(p, At("table"))
    BY <1>0, <1>2 DEF Open, Go, Moved
  <2>2. Accepted(env)
    BY <1>2 DEF Open, StartInv, ProcessInv, Running, Starting
  <2> QED  BY <2>1, <2>2, Moves DEF At, Running, Starting
<1>3. CASE CreateTable(p)
  <2>1. Moved(p, At("reading"))
    BY <1>3 DEF CreateTable, Go, Moved
  <2>2. Accepted(env)
    BY <1>3 DEF CreateTable, StartInv, ProcessInv, Running, Starting
  <2> QED  BY <2>1, <2>2, Moves DEF At, Running, Starting
<1>4. CASE CreateTableTwice(p)
  <2>1. Moved(p, At("down"))
    BY <1>0, <1>4 DEF CreateTableTwice, Go, Moved
  <2> QED  BY <2>1, Moves DEF At, Running, Starting
<1>5. CASE ReadVersions(p)
  <2> DEFINE r == [pc |-> "migrating", left |-> Files \ recorded]
  <2>1. Moved(p, r)
    BY <1>0, <1>5 DEF ReadVersions, Moved
  <2>2. Accepted(env)
    BY <1>5 DEF ReadVersions, StartInv, ProcessInv, Running, Starting
  <2>3. r \in R /\ r.pc = "migrating" /\ Files \subseteq recorded \cup r.left
    BY DEF Running, Starting
  <2> HIDE DEF r
  <2> QED  BY <2>1, <2>2, <2>3, Moves
<1>6. CASE Apply(p)
  <2>1. PICK f \in Files :
          /\ IsNext(p, f)
          /\ IF Conflicts(f)
               THEN Go(p, "down") /\ UNCHANGED <<recorded, applied>>
               ELSE /\ applied' = [applied EXCEPT ![f] = @ + 1]
                    /\ recorded' = recorded \cup {f}
                    /\ process' = [process EXCEPT ![p] = Without(p, f)]
    BY <1>6 DEF Apply
  <2>2. process[p].pc = "migrating" /\ UNCHANGED <<env, tracked, incidents>>
    BY <1>6 DEF Apply
  <2>3. CASE Conflicts(f)
    <3>1. Moved(p, At("down"))
      BY <1>0, <2>1, <2>2, <2>3 DEF Go, Moved
    <3> QED  BY <3>1, Moves DEF At, Running, Starting
  <2>4. CASE ~Conflicts(f)
    BY <2>1, <2>2, <2>4, Applies
  <2> QED  BY <2>3, <2>4
<1>7. CASE Serve(p)
  <2>1. Moved(p, At("serving"))
    BY <1>0, <1>7 DEF Serve, Go, Moved
  <2>2. Accepted(env) /\ recorded = Files
    BY <1>7 DEF Serve, StartInv, StartTypeOK, ProcessInv, Running, Starting
  <2> QED  BY <2>1, <2>2, Moves DEF At, Running, Starting
<1> QED  BY <1>1, <1>2, <1>3, <1>4, <1>5, <1>6, <1>7 DEF Boot

LEMMA StopStep ==
  ASSUME StartInv, NEW p \in Processes, Stop(p) \/ Exit(p) \/ StartAgain(p) \/ Die(p)
  PROVE  StartInv'
<1>0. process[p] \in [pc : Running \cup {"down", "stopped"}, left : SUBSET Files] /\ tracked \in BOOLEAN
  BY DEF StartInv, StartTypeOK
<1>1. CASE Stop(p)
  <2>1. CASE process[p].pc = "serving"
    <3>1. Moved(p, At("draining"))
      BY <1>0, <1>1, <2>1 DEF Stop, Go, Moved
    <3>2. Accepted(env) /\ recorded = Files
      BY <2>1 DEF StartInv, ProcessInv, Running
    <3> QED  BY <3>1, <3>2, Moves DEF At, Running, Starting
  <2>2. CASE process[p].pc # "serving"
    <3>1. Moved(p, At("stopped"))
      BY <1>0, <1>1, <2>2 DEF Stop, Go, Moved
    <3> QED  BY <3>1, Moves DEF At, Running, Starting
  <2> QED  BY <2>1, <2>2
<1>2. CASE Exit(p)
  <2>1. Moved(p, At("stopped"))
    BY <1>0, <1>2 DEF Exit, Go, Moved
  <2> QED  BY <2>1, Moves DEF At, Running, Starting
<1>3. CASE StartAgain(p)
  <2>1. Moved(p, At("down"))
    BY <1>0, <1>3 DEF StartAgain, Go, Moved
  <2> QED  BY <2>1, Moves DEF At, Running, Starting
<1>4. CASE Die(p)
  <2>1. Moved(p, At("down"))
    BY <1>0, <1>4 DEF Die, Go, Moved
  <2> QED  BY <2>1, Moves DEF At, Running, Starting
<1> QED  BY <1>1, <1>2, <1>3, <1>4

-----------------------------------------------------------------------------
(* The requests and the pages                                              *)

SessionStates == {"unborn", "valid", "ended"}

BrowserTypeOK ==
  /\ session \in [Sessions -> SessionStates]
  /\ jar \in Sessions \cup {NoSession}
  /\ page \in [Pages -> PageRecords]
  /\ request \in [Pages -> RequestRecords]

\* The token of a page came with the account it displays.
PageOk(d) == d.token # NoSession => d.account = SessionUser[d.token]

\* So did the token of a request, and what passed the chain of its route has
\* the account of its token.
RequestOk(r) ==
  /\ r.token # NoSession => r.shown = SessionUser[r.token]
  /\ r.pc \in {"sent", "handler"} => r.did = FALSE
  /\ r.pc = "handler" /\ r.route # "me" => r.as \in Sessions /\ r.token = r.as
  /\ r.pc = "handler" /\ r.route = "upload" => r.key = SessionUser[r.as]
  /\ r.did = TRUE => r.as \in Sessions /\ r.token = r.as

\* Only a session that is over, or a logout, clears a cookie; s is the table
\* of the sessions.
CookieOk(r, s) ==
  /\ r.sent # NoSession => s[r.sent] # "unborn"
  /\ r.clears = TRUE /\ r.route # "logout" => r.sent # NoSession /\ s[r.sent] = "ended"
  /\ r.pc \notin {"handler", "answer"} => r.clears = FALSE

BrowserInv ==
  /\ BrowserTypeOK
  /\ jar # NoSession => session[jar] # "unborn"
  /\ \A g \in Pages : PageOk(page[g])
  /\ \A g \in Pages : RequestOk(request[g]) /\ CookieOk(request[g], session)

\* A session that is over is over for good, and none is unborn again.
Advanced(s, t) ==
  /\ t \in [Sessions -> SessionStates]
  /\ \A x \in Sessions : /\ s[x] # "unborn" => t[x] # "unborn"
                         /\ s[x] = "ended" => t[x] = "ended"

LEMMA CookieStaysOk ==
  ASSUME NEW s, NEW t, Advanced(s, t), NEW r \in RequestRecords, CookieOk(r, s)
  PROVE  CookieOk(r, t)
<1>1. r.sent \in Sessions \cup {NoSession}
  BY DEF RequestRecords
<1> QED  BY <1>1 DEF CookieOk, Advanced

\* The invariant survives when every page and every request either stays the
\* same or is in order.
LEMMA BrowserKept ==
  ASSUME BrowserInv, Advanced(session, session'),
         jar' \in Sessions \cup {NoSession},
         jar' # NoSession => session'[jar'] # "unborn",
         page' \in [Pages -> PageRecords],
         request' \in [Pages -> RequestRecords],
         \A g \in Pages : page'[g] = page[g] \/ PageOk(page'[g]),
         \A g \in Pages : \/ request'[g] = request[g]
                          \/ RequestOk(request'[g]) /\ CookieOk(request'[g], session')
  PROVE  BrowserInv'
<1>1. BrowserTypeOK'
  BY DEF BrowserTypeOK, Advanced
<1>2. \A g \in Pages : PageOk(page'[g])
  BY DEF BrowserInv
<1>3. \A g \in Pages : RequestOk(request'[g])
  BY DEF BrowserInv
<1>4. \A g \in Pages : CookieOk(request'[g], session')
  <2> SUFFICES ASSUME NEW g \in Pages, request'[g] = request[g]
               PROVE  CookieOk(request[g], session')
    OBVIOUS
  <2> QED  BY CookieStaysOk DEF BrowserInv, BrowserTypeOK
<1> QED  BY <1>1, <1>2, <1>3, <1>4 DEF BrowserInv

\* The same, of one page and its request.
LEMMA RequestKept ==
  ASSUME BrowserInv, NEW g \in Pages, NEW r \in RequestRecords,
         request' = [request EXCEPT ![g] = r],
         Advanced(session, session'),
         RequestOk(r), CookieOk(r, session'),
         jar' \in Sessions \cup {NoSession},
         jar' # NoSession => session'[jar'] # "unborn",
         page' \in [Pages -> PageRecords],
         \A h \in Pages : page'[h] = page[h] \/ PageOk(page'[h])
  PROVE  BrowserInv'
<1>1. request' \in [Pages -> RequestRecords]
  BY DEF BrowserInv, BrowserTypeOK
<1>2. \A h \in Pages : request'[h] = request[h] \/ (RequestOk(request'[h]) /\ CookieOk(request'[h], session'))
  BY DEF BrowserInv, BrowserTypeOK
<1> QED  BY <1>1, <1>2, BrowserKept

LEMMA Standing == ASSUME BrowserInv PROVE Advanced(session, session)
BY DEF BrowserInv, BrowserTypeOK, Advanced

LEMMA SessionMoves ==
  ASSUME BrowserInv, NEW s \in Sessions, NEW v \in {"valid", "ended"},
         session[s] = "ended" => v = "ended"
  PROVE  Advanced(session, [session EXCEPT ![s] = v])
BY DEF BrowserInv, BrowserTypeOK, Advanced, SessionStates

\* The records of a request.
LEMMA QuietIs ==
  /\ Quiet \in RequestRecords /\ RequestOk(Quiet)
  /\ \A s : CookieOk(Quiet, s)
<1>1. Quiet \in RequestRecords
  BY DEF Quiet, RequestRecords, Routes
<1> QED  BY <1>1 DEF Quiet, RequestOk, CookieOk

LEMMA LostIs ==
  ASSUME NEW r \in RequestRecords
  PROVE  Lost(r) \in RequestRecords /\ RequestOk(Lost(r)) /\ \A s : CookieOk(Lost(r), s)
<1>1. r.route \in Routes
  BY DEF RequestRecords
<1>2. Quiet \in RequestRecords
  BY QuietIs
<1>3. Lost(r) \in RequestRecords
  BY <1>1, <1>2 DEF RequestRecords, Lost
<1>4. /\ Lost(r).pc = "lost" /\ Lost(r).sent = NoSession /\ Lost(r).token = NoSession
      /\ Lost(r).clears = FALSE /\ Lost(r).did = FALSE
  BY DEF Lost, Quiet
<1> QED  BY <1>3, <1>4 DEF RequestOk, CookieOk

LEMMA SentIs ==
  ASSUME BrowserInv, NEW g \in Pages, NEW route \in Routes
  PROVE  /\ Sent(g, route) \in RequestRecords /\ RequestOk(Sent(g, route))
         /\ CookieOk(Sent(g, route), session)
<1> DEFINE t == IF route \in Unsafe THEN page[g].token ELSE NoSession
<1>1. /\ page[g].token \in Sessions \cup {NoSession} /\ page[g].account \in Users \cup {NoUser}
      /\ PageOk(page[g]) /\ jar \in Sessions \cup {NoSession}
      /\ jar # NoSession => session[jar] # "unborn"
  <2>1. page[g] \in PageRecords /\ PageOk(page[g])
    BY DEF BrowserInv, BrowserTypeOK
  <2> QED  BY <2>1 DEF BrowserInv, BrowserTypeOK, PageRecords
<1>2. t \in Sessions \cup {NoSession} /\ (t # NoSession => page[g].account = SessionUser[t])
  BY <1>1 DEF PageOk
<1> DEFINE q == Sent(g, route)
<1>3. q = [[[[[Quiet EXCEPT !.pc = "sent"] EXCEPT !.route = route] EXCEPT !.sent = jar]
               EXCEPT !.token = t] EXCEPT !.shown = page[g].account]
  BY DEF Sent
<1>4. /\ q.pc = "sent" /\ q.sent = jar /\ q.token = t /\ q.shown = page[g].account
      /\ q.clears = FALSE /\ q.did = FALSE
  <2> HIDE DEF t
  <2> QED  BY <1>3 DEF Quiet
<1>5. q \in RequestRecords
  <2> HIDE DEF t
  <2>1. Quiet \in RequestRecords
    BY QuietIs
  <2> QED  BY <2>1, <1>1, <1>2, <1>3 DEF RequestRecords
<1> HIDE DEF q, t
<1>6. RequestOk(q) /\ CookieOk(q, session)
  BY <1>1, <1>2, <1>4 DEF RequestOk, CookieOk
<1> QED  BY <1>5, <1>6 DEF q

-----------------------------------------------------------------------------
(* The chains                                                              *)

\* A request on its way through the stages of its route.
Passing(r) ==
  /\ r \in RequestRecords
  /\ r.pc \in {"handler", "answer"} /\ r.did = FALSE
  /\ r.token # NoSession => r.shown = SessionUser[r.token]
  /\ CookieOk(r, session)

\* One field of it changes.
LEMMA RefusedIs ==
  ASSUME NEW r, Passing(r)
  PROVE  Passing(Refused(r)) /\ Refused(r).route = r.route /\ Refused(r).pc = "answer"
<1>1. Refused(r) \in RequestRecords
  BY DEF Passing, Refused, RequestRecords
<1>2. /\ Refused(r).pc = "answer" /\ Refused(r).route = r.route /\ Refused(r).did = r.did
      /\ Refused(r).token = r.token /\ Refused(r).shown = r.shown
      /\ Refused(r).sent = r.sent /\ Refused(r).clears = r.clears
  BY DEF Passing, Refused, RequestRecords
<1>3. CookieOk(Refused(r), session)
  BY <1>2 DEF Passing, CookieOk
<1> QED  BY <1>1, <1>2, <1>3 DEF Passing

LEMMA KnownIs ==
  ASSUME NEW r, Passing(r), NEW s \in Sessions
  PROVE  LET q == [r EXCEPT !.as = s] IN Passing(q) /\ q.route = r.route
<1> DEFINE q == [r EXCEPT !.as = s]
<1>1. q \in RequestRecords
  BY DEF Passing, RequestRecords
<1>2. /\ q.pc = r.pc /\ q.route = r.route /\ q.did = r.did /\ q.token = r.token
      /\ q.shown = r.shown /\ q.sent = r.sent /\ q.clears = r.clears
  BY DEF Passing, RequestRecords
<1>3. CookieOk(q, session)
  BY <1>2 DEF Passing, CookieOk
<1> QED  BY <1>1, <1>2, <1>3 DEF Passing

LEMMA ClearsIs ==
  ASSUME NEW r, Passing(r), r.sent # NoSession, session[r.sent] = "ended"
  PROVE  LET q == [r EXCEPT !.clears = TRUE] IN Passing(q) /\ q.route = r.route
<1> DEFINE q == [r EXCEPT !.clears = TRUE]
<1>1. q \in RequestRecords
  BY DEF Passing, RequestRecords
<1>2. /\ q.pc = r.pc /\ q.route = r.route /\ q.did = r.did /\ q.token = r.token
      /\ q.shown = r.shown /\ q.sent = r.sent
  BY DEF Passing, RequestRecords
<1>3. CookieOk(q, session)
  BY <1>2 DEF Passing, CookieOk
<1> QED  BY <1>1, <1>2, <1>3 DEF Passing

LEMMA CountedIs ==
  ASSUME NEW r, Passing(r), NEW k \in Users \cup {NoUser}
  PROVE  LET q == [r EXCEPT !.key = k]
         IN  Passing(q) /\ q.route = r.route /\ q.pc = r.pc /\ q.as = r.as /\ q.token = r.token /\ q.key = k
<1> DEFINE q == [r EXCEPT !.key = k]
<1>1. q \in RequestRecords
  BY DEF Passing, RequestRecords
<1>2. /\ q.pc = r.pc /\ q.route = r.route /\ q.did = r.did /\ q.token = r.token
      /\ q.shown = r.shown /\ q.sent = r.sent /\ q.clears = r.clears /\ q.as = r.as /\ q.key = k
  BY DEF Passing, RequestRecords
<1>3. CookieOk(q, session)
  BY <1>2 DEF Passing, CookieOk
<1> QED  BY <1>1, <1>2, <1>3 DEF Passing

\* The stages.
LEMMA RateLimitIs ==
  ASSUME NEW r, Passing(r), NEW room \in BOOLEAN
  PROVE  /\ Passing(RateLimit(r, room)) /\ RateLimit(r, room).route = r.route
         /\ RateLimit(r, room) = r \/ RateLimit(r, room).pc = "answer"
BY RefusedIs DEF RateLimit, Stage

LEMMA ResolveIs ==
  ASSUME BrowserInv, NEW r, Passing(r), NEW up \in BOOLEAN
  PROVE  Passing(Resolve(r, up)) /\ Resolve(r, up).route = r.route
<1>0. r.sent \in Sessions \cup {NoSession}
  BY DEF Passing, RequestRecords
<1>1. CASE r.pc = "answer" \/ r.sent = NoSession
  BY <1>1 DEF Resolve, Stage
<1>2. CASE r.pc # "answer" /\ r.sent # NoSession /\ ~up
  <2>1. Resolve(r, up) = Refused(r)
    BY <1>2 DEF Resolve, Stage
  <2> QED  BY <2>1, RefusedIs
<1>3. CASE r.pc # "answer" /\ r.sent # NoSession /\ up /\ session[r.sent] = "valid"
  <2>1. Resolve(r, up) = [r EXCEPT !.as = r.sent]
    BY <1>3 DEF Resolve, Stage
  <2>2. r.sent \in Sessions
    BY <1>0, <1>3
  <2> QED  BY <2>1, <2>2, KnownIs
<1>4. CASE r.pc # "answer" /\ r.sent # NoSession /\ up /\ session[r.sent] # "valid"
  <2>1. Resolve(r, up) = [r EXCEPT !.clears = TRUE]
    BY <1>4 DEF Resolve, Stage
  <2>2. session[r.sent] = "ended"
    BY <1>0, <1>4 DEF BrowserInv, BrowserTypeOK, SessionStates, Passing, CookieOk
  <2> QED  BY <1>4, <2>1, <2>2, ClearsIs
<1> QED  BY <1>1, <1>2, <1>3, <1>4

LEMMA RequireUserIs ==
  ASSUME NEW r, Passing(r)
  PROVE  Passing(RequireUser(r)) /\ RequireUser(r).route = r.route
BY RefusedIs DEF RequireUser, Stage

LEMMA CSRFIs ==
  ASSUME NEW r, Passing(r)
  PROVE  LET q == CSRF(r)
         IN  /\ Passing(q) /\ q.route = r.route
             /\ q.pc = "handler" /\ q.route \in Unsafe => q.as \in Sessions /\ q.token = q.as
<1>1. r.as \in Sessions \cup {NoSession}
  BY DEF Passing, RequestRecords
<1>2. CASE r.pc # "answer" /\ r.route \in Unsafe /\ (r.as = NoSession \/ r.token # r.as)
  <2>1. CSRF(r) = Refused(r)
    BY <1>2 DEF CSRF, Stage
  <2> QED  BY <2>1, RefusedIs
<1>3. CASE ~(r.pc # "answer" /\ r.route \in Unsafe /\ (r.as = NoSession \/ r.token # r.as))
  <2>1. CSRF(r) = r
    BY <1>3 DEF CSRF, Stage
  <2> QED  BY <1>1, <1>3, <2>1
<1> QED  BY <1>2, <1>3

\* What the account counts is kept by its account.
LEMMA RateLimitByUserIs ==
  ASSUME NEW r, Passing(r), NEW room \in BOOLEAN
  PROVE  LET q == RateLimitByUser(r, room)
         IN  /\ Passing(q) /\ q.route = r.route
             /\ q.pc = "handler" => /\ r.pc = "handler" /\ q.as = r.as /\ q.token = r.token
                                    /\ r.as # NoSession => q.key = SessionUser[r.as]
<1> DEFINE k == IF r.as = NoSession THEN NoUser ELSE SessionUser[r.as]
           l == RateLimit(r, room)
<1>1. CASE r.pc = "answer"
  <2>1. RateLimitByUser(r, room) = r
    BY <1>1 DEF RateLimitByUser, Stage
  <2> QED  BY <1>1, <2>1
<1>2. CASE r.pc # "answer"
  <2>1. RateLimitByUser(r, room) = [l EXCEPT !.key = k]
    BY <1>2 DEF RateLimitByUser, Stage
  <2>2. k \in Users \cup {NoUser}
    BY SessionsAssumption DEF Passing, RequestRecords
  <2>3. Passing(l) /\ l.route = r.route /\ (l = r \/ l.pc = "answer")
    BY RateLimitIs
  <2> HIDE DEF l, k
  <2>4. LET q == [l EXCEPT !.key = k]
        IN  Passing(q) /\ q.route = l.route /\ q.pc = l.pc /\ q.as = l.as /\ q.token = l.token /\ q.key = k
    BY <2>2, <2>3, CountedIs
  <2>5. r.as # NoSession => k = SessionUser[r.as]
    BY DEF k
  <2> QED  BY <2>1, <2>3, <2>4, <2>5
<1> QED  BY <1>1, <1>2

\* What a chain leaves: a request in order, whatever the database and the
\* limiter answer.
LEMMA ChainIs ==
  ASSUME BrowserInv, NEW r, Passing(r), NEW up \in BOOLEAN, NEW room \in BOOLEAN
  PROVE  LET q == Chain(r, up, room)
         IN  q \in RequestRecords /\ RequestOk(q) /\ CookieOk(q, session)
<1>0. r.route \in Routes
  BY DEF Passing, RequestRecords
<1>1. \A q : /\ Passing(q)
             /\ q.pc = "handler" /\ q.route # "me" => q.as \in Sessions /\ q.token = q.as
             /\ q.pc = "handler" /\ q.route = "upload" => q.key = SessionUser[q.as]
             => q \in RequestRecords /\ RequestOk(q) /\ CookieOk(q, session)
  BY DEF Passing, RequestOk
<1>2. CASE r.route = "me"
  <2>1. Chain(r, up, room) = Resolve(RateLimit(r, room), up)
    BY <1>2 DEF Chain
  <2>2. Passing(Resolve(RateLimit(r, room), up)) /\ Resolve(RateLimit(r, room), up).route = "me"
    BY <1>2, RateLimitIs, ResolveIs
  <2> QED  BY <1>1, <2>1, <2>2
<1>3. CASE r.route \in {"write", "logout"}
  <2> DEFINE q == CSRF(RequireUser(Resolve(RateLimit(r, room), up)))
  <2>1. Chain(r, up, room) = q
    BY <1>3 DEF Chain
  <2>2. LET x == RequireUser(Resolve(RateLimit(r, room), up)) IN Passing(x) /\ x.route = r.route
    BY RateLimitIs, ResolveIs, RequireUserIs
  <2>3. /\ Passing(q) /\ q.route = r.route
        /\ q.pc = "handler" /\ q.route \in Unsafe => q.as \in Sessions /\ q.token = q.as
    BY <2>2, CSRFIs
  <2> HIDE DEF q
  <2> QED  BY <1>1, <1>3, <2>1, <2>3 DEF Unsafe
<1>4. CASE r.route = "upload"
  <2> DEFINE x == CSRF(RequireUser(Resolve(r, up)))
             q == RateLimitByUser(x, room)
  <2>1. Chain(r, up, room) = q
    BY <1>4 DEF Chain
  <2>2. LET y == RequireUser(Resolve(r, up)) IN Passing(y) /\ y.route = r.route
    BY ResolveIs, RequireUserIs
  <2>3. /\ Passing(x) /\ x.route = r.route
        /\ x.pc = "handler" /\ x.route \in Unsafe => x.as \in Sessions /\ x.token = x.as
    BY <2>2, CSRFIs
  <2> HIDE DEF x
  <2>4. /\ Passing(q) /\ q.route = x.route
        /\ q.pc = "handler" => /\ x.pc = "handler" /\ q.as = x.as /\ q.token = x.token
                               /\ x.as # NoSession => q.key = SessionUser[x.as]
    BY <2>3, RateLimitByUserIs
  <2> HIDE DEF q
  <2>5. q.pc = "handler" => q.as \in Sessions /\ q.token = q.as /\ q.key = SessionUser[q.as]
    BY <1>4, <2>3, <2>4, SessionsAssumption DEF Unsafe
  <2> QED  BY <1>1, <2>1, <2>4, <2>5
<1> QED  BY <1>0, <1>2, <1>3, <1>4 DEF Routes

-----------------------------------------------------------------------------
(* The steps of the visitor and of the requests                            *)

LEMMA SignInStep ==
  ASSUME BrowserInv, NEW g \in Pages, NEW s \in Sessions, SignIn(g, s)
  PROVE  BrowserInv'
<1>1. session' = [session EXCEPT ![s] = "valid"] /\ jar' = s /\ UNCHANGED <<page, request>>
  BY DEF SignIn
<1>2. Advanced(session, session') /\ session'[s] # "unborn"
  BY <1>1, SessionMoves DEF SignIn, BrowserInv, BrowserTypeOK
<1>3. page' \in [Pages -> PageRecords] /\ request' \in [Pages -> RequestRecords]
  BY <1>1 DEF BrowserInv, BrowserTypeOK
<1> QED  BY <1>1, <1>2, <1>3, BrowserKept

LEMMA EndSessionStep ==
  ASSUME BrowserInv, NEW s \in Sessions, EndSession(s)
  PROVE  BrowserInv'
<1>1. session' = [session EXCEPT ![s] = "ended"] /\ UNCHANGED <<jar, page, request>>
  BY DEF EndSession
<1>2. Advanced(session, session')
  BY <1>1, SessionMoves
<1>3. /\ page' \in [Pages -> PageRecords] /\ request' \in [Pages -> RequestRecords]
      /\ jar' \in Sessions \cup {NoSession}
  BY <1>1 DEF BrowserInv, BrowserTypeOK
<1>4. jar' # NoSession => session'[jar'] # "unborn"
  BY <1>1, <1>2, <1>3 DEF BrowserInv, Advanced
<1> QED  BY <1>1, <1>2, <1>3, <1>4, BrowserKept

\* A page changes without its account or its token, or closes; its request is
\* in order.
LEMMA PageStep ==
  ASSUME BrowserInv, UNCHANGED <<session, jar>>, NEW g \in Pages,
         NEW d, page' = [page EXCEPT ![g] = d], d \in PageRecords, PageOk(d),
         NEW r, request' = [request EXCEPT ![g] = r],
         r \in RequestRecords, RequestOk(r), CookieOk(r, session)
  PROVE  BrowserInv'
<1>1. page' \in [Pages -> PageRecords]
  BY DEF BrowserInv, BrowserTypeOK
<1>2. \A h \in Pages : page'[h] = page[h] \/ PageOk(page'[h])
  BY DEF BrowserInv, BrowserTypeOK
<1>3. /\ Advanced(session, session') /\ CookieOk(r, session')
      /\ jar' \in Sessions \cup {NoSession}
      /\ jar' # NoSession => session'[jar'] # "unborn"
  BY Standing DEF BrowserInv, BrowserTypeOK
<1> QED  BY <1>1, <1>2, <1>3, RequestKept

LEMMA PageFieldIs ==
  ASSUME BrowserInv, NEW g \in Pages, NEW v \in {"closed", "loading", "ready", "waiting"}
  PROVE  LET d == [page[g] EXCEPT !.pc = v] IN d \in PageRecords /\ PageOk(d)
<1> DEFINE d == [page[g] EXCEPT !.pc = v]
<1>1. page[g] \in PageRecords /\ PageOk(page[g])
  BY DEF BrowserInv, BrowserTypeOK
<1>2. d \in PageRecords /\ d.token = page[g].token /\ d.account = page[g].account
  BY <1>1 DEF PageRecords
<1> QED  BY <1>1, <1>2 DEF PageOk

LEMMA ClosedIs == Closed \in PageRecords /\ PageOk(Closed)
BY DEF Closed, PageRecords, PageOk

LEMMA VisitStep ==
  ASSUME BrowserInv, NEW g \in Pages, Visit(g)
  PROVE  BrowserInv'
<1>0. page \in [Pages -> PageRecords]
  BY DEF BrowserInv, BrowserTypeOK
<1>1. CASE \E s \in Sessions : SignIn(g, s)
  BY <1>1, SignInStep
<1>2. CASE OpenPage(g)
  <2> DEFINE d == [page[g] EXCEPT !.pc = "loading"]
             r == Sent(g, "me")
  <2>1. page' = [page EXCEPT ![g] = d]
    BY <1>0, <1>2 DEF OpenPage
  <2>2. request' = [request EXCEPT ![g] = r] /\ UNCHANGED <<session, jar>>
    BY <1>2 DEF OpenPage
  <2>3. d \in PageRecords /\ PageOk(d)
    BY PageFieldIs
  <2>4. r \in RequestRecords /\ RequestOk(r) /\ CookieOk(r, session)
    BY SentIs DEF Routes
  <2> HIDE DEF d, r
  <2> QED  BY <2>1, <2>2, <2>3, <2>4, PageStep
<1>3. CASE \E route \in Unsafe : Click(g, route)
  <2>1. PICK route \in Unsafe : Click(g, route)
    BY <1>3
  <2> DEFINE d == [page[g] EXCEPT !.pc = "waiting"]
             r == Sent(g, route)
  <2>2. page' = [page EXCEPT ![g] = d]
    BY <1>0, <2>1 DEF Click
  <2>3. request' = [request EXCEPT ![g] = r] /\ UNCHANGED <<session, jar>>
    BY <2>1 DEF Click
  <2>4. d \in PageRecords /\ PageOk(d)
    BY PageFieldIs
  <2>5. r \in RequestRecords /\ RequestOk(r) /\ CookieOk(r, session)
    BY SentIs DEF Routes, Unsafe
  <2> HIDE DEF d, r
  <2> QED  BY <2>2, <2>3, <2>4, <2>5, PageStep
<1>4. CASE Leave(g)
  <2> DEFINE r == IF request[g].pc = "handler" THEN request[g] ELSE Quiet
  <2>1. /\ page' = [page EXCEPT ![g] = Closed]
        /\ request' = [request EXCEPT ![g] = r] /\ UNCHANGED <<session, jar>>
    BY <1>4 DEF Leave
  <2>2. r \in RequestRecords /\ RequestOk(r) /\ CookieOk(r, session)
    BY QuietIs DEF BrowserInv, BrowserTypeOK
  <2> HIDE DEF r
  <2> QED  BY <2>1, <2>2, ClosedIs, PageStep
<1> QED  BY <1>1, <1>2, <1>3, <1>4 DEF Visit

\* A process takes a request, or the request is lost.
LEMMA AcceptStep ==
  ASSUME BrowserInv, NEW g \in Pages, NEW p \in Processes, Accept(g, p)
  PROVE  BrowserInv'
<1>1. PICK up \in BOOLEAN, room \in BOOLEAN :
        request' = [request EXCEPT ![g] = Chain([request[g] EXCEPT !.pc = "handler", !.on = p], up, room)]
  BY DEF Accept
<1> DEFINE r == request[g]
           q == [r EXCEPT !.pc = "handler", !.on = p]
<1>2. r \in RequestRecords /\ RequestOk(r) /\ CookieOk(r, session) /\ r.pc = "sent"
  BY DEF BrowserInv, BrowserTypeOK, Accept
<1> HIDE DEF r
<1>3. q \in RequestRecords
  BY <1>2 DEF RequestRecords
<1>4. /\ q.pc = "handler" /\ q.route = r.route /\ q.did = r.did /\ q.token = r.token
      /\ q.shown = r.shown /\ q.sent = r.sent /\ q.clears = r.clears
  BY <1>2 DEF RequestRecords
<1>5. request' = [request EXCEPT ![g] = Chain(q, up, room)]
  BY <1>1 DEF r
<1> HIDE DEF q
<1>6. Passing(q)
  <2>1. CookieOk(q, session)
    BY <1>2, <1>4 DEF CookieOk
  <2> QED  BY <1>2, <1>3, <1>4, <2>1 DEF RequestOk, Passing
<1> DEFINE c == Chain(q, up, room)
<1>7. c \in RequestRecords /\ RequestOk(c) /\ CookieOk(c, session)
  BY <1>6, ChainIs
<1> HIDE DEF c
<1>8. /\ Advanced(session, session') /\ CookieOk(c, session')
      /\ jar' \in Sessions \cup {NoSession}
      /\ jar' # NoSession => session'[jar'] # "unborn"
      /\ page' \in [Pages -> PageRecords] /\ \A h \in Pages : page'[h] = page[h]
  BY <1>7, Standing DEF BrowserInv, BrowserTypeOK, Accept, BrowserSame
<1> QED  BY <1>5, <1>7, <1>8, RequestKept DEF c

LEMMA LostStep ==
  ASSUME BrowserInv, NEW g \in Pages, UNCHANGED <<session, jar, page>>,
         request' = [request EXCEPT ![g] = Lost(request[g])]
  PROVE  BrowserInv'
<1> DEFINE r == Lost(request[g])
<1>1. r \in RequestRecords /\ RequestOk(r) /\ CookieOk(r, session)
  BY LostIs DEF BrowserInv, BrowserTypeOK
<1> HIDE DEF r
<1>2. /\ Advanced(session, session') /\ CookieOk(r, session')
      /\ jar' \in Sessions \cup {NoSession}
      /\ jar' # NoSession => session'[jar'] # "unborn"
      /\ page' \in [Pages -> PageRecords] /\ \A h \in Pages : page'[h] = page[h]
  BY <1>1, Standing DEF BrowserInv, BrowserTypeOK
<1> QED  BY <1>1, <1>2, RequestKept DEF r

LEMMA CutStep ==
  ASSUME BrowserInv, NEW p \in Processes, Cut(p), BrowserSame
  PROVE  BrowserInv'
<1> USE DEF BrowserSame
<1>1. request' \in [Pages -> RequestRecords]
  BY LostIs DEF Cut, BrowserInv, BrowserTypeOK
<1>2. \A g \in Pages : \/ request'[g] = request[g]
                       \/ RequestOk(request'[g]) /\ CookieOk(request'[g], session')
  BY LostIs DEF Cut, BrowserInv, BrowserTypeOK
<1>3. /\ Advanced(session, session')
      /\ jar' \in Sessions \cup {NoSession}
      /\ jar' # NoSession => session'[jar'] # "unborn"
      /\ page' \in [Pages -> PageRecords] /\ \A h \in Pages : page'[h] = page[h]
  BY Standing DEF BrowserInv, BrowserTypeOK
<1> QED  BY <1>1, <1>2, <1>3, BrowserKept

\* A handler answers: it keeps what the request came with, and clears the
\* cookie only when it is the logout.
LEMMA AnswerKept ==
  ASSUME BrowserInv, NEW g \in Pages, Advanced(session, session'), UNCHANGED <<jar, page>>,
         NEW q \in RequestRecords, request' = [request EXCEPT ![g] = q],
         request[g].pc = "handler", q.pc = "answer",
         q.route = request[g].route, q.sent = request[g].sent, q.token = request[g].token,
         q.shown = request[g].shown, q.as = request[g].as,
         q.did = TRUE => q.route # "me",
         q.clears = TRUE => q.route = "logout" \/ request[g].clears = TRUE
  PROVE  BrowserInv'
<1> DEFINE r == request[g]
<1>1. r \in RequestRecords /\ RequestOk(r) /\ CookieOk(r, session')
  BY CookieStaysOk DEF BrowserInv, BrowserTypeOK
<1>2. RequestOk(q)
  BY <1>1 DEF RequestOk
<1>3. CookieOk(q, session')
  BY <1>1 DEF CookieOk
<1>4. /\ jar' \in Sessions \cup {NoSession}
      /\ jar' # NoSession => session'[jar'] # "unborn"
      /\ page' \in [Pages -> PageRecords] /\ \A h \in Pages : page'[h] = page[h]
  BY DEF BrowserInv, BrowserTypeOK, Advanced
<1> QED  BY <1>2, <1>3, <1>4, RequestKept

LEMMA MeStep ==
  ASSUME BrowserInv, NEW g \in Pages, Me(g)
  PROVE  BrowserInv'
<1> DEFINE r == request[g]
           q == [r EXCEPT !.pc = "answer", !.ok = TRUE]
<1>0. r \in RequestRecords /\ RequestOk(r) /\ r.pc = "handler" /\ r.route = "me"
      /\ request \in [Pages -> RequestRecords]
  BY DEF BrowserInv, BrowserTypeOK, Me, AtHandler
<1>1. request' = [request EXCEPT ![g] = q]
  BY <1>0 DEF Me
<1> HIDE DEF r
<1>2. q \in RequestRecords
  BY <1>0 DEF RequestRecords
<1>3. /\ q.pc = "answer" /\ q.route = r.route /\ q.sent = r.sent /\ q.token = r.token
      /\ q.shown = r.shown /\ q.as = r.as /\ q.did = r.did /\ q.clears = r.clears
  BY <1>0 DEF RequestRecords
<1>4. q.did = FALSE
  BY <1>0, <1>3 DEF RequestOk
<1>5. Advanced(session, session') /\ UNCHANGED <<jar, page>>
  BY Standing DEF Me, BrowserSame
<1> HIDE DEF q
<1> QED  BY <1>0, <1>1, <1>2, <1>3, <1>4, <1>5, AnswerKept DEF r

LEMMA WriteStep ==
  ASSUME BrowserInv, NEW g \in Pages, Write(g)
  PROVE  BrowserInv'
<1>a. PICK did \in BOOLEAN :
        request' = [request EXCEPT ![g].pc = "answer", ![g].ok = did, ![g].did = did]
  BY DEF Write
<1> DEFINE r == request[g]
           q == [r EXCEPT !.pc = "answer", !.ok = did, !.did = did]
<1>0. r \in RequestRecords /\ r.pc = "handler" /\ r.route \in {"write", "upload"}
      /\ request \in [Pages -> RequestRecords]
  BY DEF BrowserInv, BrowserTypeOK, Write, AtHandler
<1>1. request' = [request EXCEPT ![g] = q]
  BY <1>0, <1>a
<1> HIDE DEF r
<1>2. q \in RequestRecords
  BY <1>0 DEF RequestRecords
<1>3. /\ q.pc = "answer" /\ q.route = r.route /\ q.sent = r.sent /\ q.token = r.token
      /\ q.shown = r.shown /\ q.as = r.as /\ q.clears = r.clears
  BY <1>0 DEF RequestRecords
<1>4. Advanced(session, session') /\ UNCHANGED <<jar, page>>
  BY Standing DEF Write, BrowserSame
<1> HIDE DEF q
<1> QED  BY <1>0, <1>1, <1>2, <1>3, <1>4, AnswerKept DEF r

LEMMA LogoutStep ==
  ASSUME BrowserInv, NEW g \in Pages, Logout(g)
  PROVE  BrowserInv'
<1> DEFINE r == request[g]
           q == [r EXCEPT !.pc = "answer", !.ok = TRUE, !.clears = TRUE, !.did = TRUE]
<1>0. r \in RequestRecords /\ r.pc = "handler" /\ r.route = "logout"
      /\ request \in [Pages -> RequestRecords]
  BY DEF BrowserInv, BrowserTypeOK, Logout, AtHandler
<1>1. request' = [request EXCEPT ![g] = q]
  BY <1>0 DEF Logout
<1>2. Advanced(session, session') /\ UNCHANGED <<jar, page>>
  <2>1. \/ session' = [session EXCEPT ![r.sent] = "ended"] \/ UNCHANGED session
    BY DEF Logout
  <2>2. r.sent \notin Sessions => [session EXCEPT ![r.sent] = "ended"] = session
    BY DEF BrowserInv, BrowserTypeOK
  <2> HIDE DEF r
  <2> QED  BY <2>1, <2>2, Standing, SessionMoves DEF Logout
<1> HIDE DEF r
<1>3. q \in RequestRecords
  BY <1>0 DEF RequestRecords
<1>4. /\ q.pc = "answer" /\ q.route = r.route /\ q.sent = r.sent /\ q.token = r.token
      /\ q.shown = r.shown /\ q.as = r.as
  BY <1>0 DEF RequestRecords
<1> HIDE DEF q
<1> QED  BY <1>0, <1>1, <1>2, <1>3, <1>4, AnswerKept DEF r

\* What a page becomes keeps an account with its token.
LEMMA AfterIs ==
  ASSUME BrowserInv, NEW g \in Pages, NEW d \in After(g)
  PROVE  d \in PageRecords /\ PageOk(d)
<1>1. Ready(g) \in PageRecords /\ PageOk(Ready(g))
  BY PageFieldIs DEF Ready
<1>2. request[g].route \in Routes /\ request[g].as \in Sessions \cup {NoSession}
  <2>1. request[g] \in RequestRecords
    BY DEF BrowserInv, BrowserTypeOK
  <2> QED  BY <2>1 DEF RequestRecords
<1>3. ASSUME NEW s \in Sessions
      PROVE  Connected(s) \in PageRecords /\ PageOk(Connected(s))
  BY SessionsAssumption DEF Connected, PageRecords, PageOk
<1>4. CASE request[g].route = "me"
  <2>1. d = Closed \/ (request[g].as # NoSession /\ d = Connected(request[g].as))
    BY <1>4 DEF After
  <2> QED  BY <1>2, <1>3, <2>1, ClosedIs
<1>5. CASE request[g].route # "me"
  <2>1. d = Closed \/ d = Ready(g)
    BY <1>5 DEF After
  <2> QED  BY <1>1, <2>1, ClosedIs
<1> QED  BY <1>4, <1>5

LEMMA DeliverStep ==
  ASSUME BrowserInv, NEW g \in Pages, Deliver(g)
  PROVE  BrowserInv'
<1>1. request' = [request EXCEPT ![g] = Quiet] /\ UNCHANGED session
  BY DEF Deliver
<1>2. /\ Advanced(session, session')
      /\ RequestOk(Quiet) /\ CookieOk(Quiet, session') /\ Quiet \in RequestRecords
  BY <1>1, Standing, QuietIs
<1>3. jar' = jar \/ jar' = NoSession
  BY DEF Deliver
<1>4. jar' \in Sessions \cup {NoSession} /\ (jar' # NoSession => session'[jar'] # "unborn")
  BY <1>1, <1>3 DEF BrowserInv, BrowserTypeOK
<1>5. page' \in [Pages -> PageRecords] /\ \A h \in Pages : page'[h] = page[h] \/ PageOk(page'[h])
  <2>1. CASE page[g].pc = "closed"
    BY <2>1 DEF Deliver, BrowserInv, BrowserTypeOK
  <2>2. CASE page[g].pc # "closed"
    <3>1. PICK d \in After(g) : page' = [page EXCEPT ![g] = d]
      BY <2>2 DEF Deliver
    <3>2. d \in PageRecords /\ PageOk(d)
      BY AfterIs
    <3> QED  BY <3>1, <3>2 DEF BrowserInv, BrowserTypeOK
  <2> QED  BY <2>1, <2>2
<1> QED  BY <1>1, <1>2, <1>4, <1>5, RequestKept

-----------------------------------------------------------------------------
(* The specification                                                       *)

IInv == StartInv /\ BrowserInv

LEMMA InitInv == Init => IInv
<1> SUFFICES ASSUME Init PROVE IInv
  OBVIOUS
<1>1. StartInv
  BY StartInitInv DEF Init
<1>2. BrowserTypeOK
  <2>1. page \in [Pages -> PageRecords]
    BY ClosedIs DEF Init
  <2>2. request \in [Pages -> RequestRecords]
    BY QuietIs DEF Init
  <2> QED  BY <2>1, <2>2 DEF Init, BrowserTypeOK, SessionStates
<1>3. \A g \in Pages : PageOk(page[g])
  BY ClosedIs DEF Init
<1>4. \A g \in Pages : RequestOk(request[g]) /\ CookieOk(request[g], session)
  BY QuietIs DEF Init
<1>5. jar = NoSession
  BY DEF Init
<1> QED  BY <1>1, <1>2, <1>3, <1>4, <1>5 DEF IInv, BrowserInv

LEMMA Same ==
  ASSUME BrowserInv, UNCHANGED <<session, jar, page, request>>
  PROVE  BrowserInv'
BY DEF BrowserInv, BrowserTypeOK

LEMMA HandleStep ==
  ASSUME BrowserInv, NEW g \in Pages, Handle(g)
  PROVE  BrowserInv'
<1>1. CASE \E p \in Processes : Accept(g, p)
  BY <1>1, AcceptStep
<1>2. CASE Me(g) \/ Write(g) \/ Logout(g)
  BY <1>2, MeStep, WriteStep, LogoutStep
<1>3. CASE NotListening(g)
  BY <1>3, LostStep DEF NotListening, BrowserSame
<1>4. CASE Deliver(g)
  BY <1>4, DeliverStep
<1> QED  BY <1>1, <1>2, <1>3, <1>4 DEF Handle

\* The requests leave the start of the processes alone.
LEMMA Undisturbed ==
  ASSUME StartInv, NEW g \in Pages, Visit(g) \/ Handle(g) \/ Lose(g)
  PROVE  StartInv'
<1>1. CASE Visit(g)
  <2>1. ServerSame /\ UNCHANGED incidents
    BY <1>1 DEF Visit, SignIn, OpenPage, Leave, Click
  <2> QED  BY <2>1, StartUndisturbed
<1>2. CASE Handle(g)
  <2>1. ServerSame /\ (UNCHANGED incidents \/ Incident)
    BY <1>2, Zenon DEF Handle, Accept, Me, Write, Logout, NotListening, Deliver
  <2> QED  BY <2>1, StartUndisturbed
<1>3. CASE Lose(g)
  <2>1. ServerSame /\ Incident
    BY <1>3 DEF Lose
  <2> QED  BY <2>1, StartUndisturbed
<1> QED  BY <1>1, <1>2, <1>3

LEMMA NextInv == IInv /\ [Next]_vars => IInv'
<1> SUFFICES ASSUME IInv, [Next]_vars PROVE IInv'
  OBVIOUS
<1> USE DEF IInv
<1>1. ASSUME NEW p \in Processes, GoesOn(p) PROVE IInv'
  <2>1. StartInv'
    BY <1>1, BootStep, StopStep DEF GoesOn
  <2>2. BrowserInv'
    BY <1>1, Same DEF GoesOn, BrowserSame
  <2> QED  BY <2>1, <2>2
<1>2. ASSUME NEW p \in Processes, Ends(p) PROVE IInv'
  BY <1>2, StopStep, CutStep DEF Ends
<1>3. ASSUME NEW g \in Pages, Visit(g) PROVE IInv'
  BY <1>3, Undisturbed, VisitStep
<1>4. ASSUME NEW g \in Pages, Handle(g) PROVE IInv'
  BY <1>4, Undisturbed, HandleStep
<1>5. ASSUME NEW g \in Pages, Lose(g) PROVE IInv'
  <2>1. BrowserInv'
    BY <1>5, LostStep DEF Lose, BrowserSame
  <2> QED  BY <1>5, <2>1, Undisturbed
<1>6. ASSUME NEW s \in Sessions, EndSession(s) PROVE IInv'
  <2>1. StartInv'
    BY <1>6, StartUndisturbed DEF EndSession
  <2> QED  BY <1>6, <2>1, EndSessionStep
<1>7. CASE UNCHANGED vars
  <2>1. StartInv'
    BY <1>7, StartUndisturbed DEF vars, ServerSame
  <2> QED  BY <1>7, <2>1, Same DEF vars
<1> QED  BY <1>1, <1>2, <1>3, <1>4, <1>5, <1>6, <1>7 DEF Next

LEMMA Inductive == Spec => []IInv
<1> QED  BY InitInv, NextInv, PTL DEF Spec

\* Every variable keeps its type, for any number of processes, files, pages and
\* sessions.
THEOREM TypeCorrect == Spec => []TypeOK
<1>1. IInv => TypeOK
  BY DEF IInv, StartInv, BrowserInv, BrowserTypeOK, SessionStates, TypeOK
<1> QED  BY <1>1, Inductive, PTL

\* However many processes start at once and wherever they die, every migration
\* takes effect once, and in its order (store/store.go:69-143).
THEOREM MigrationsOnce == Spec => []MigratedOnce
<1>1. IInv => MigratedOnce
  BY DEF IInv, StartInv
<1> QED  BY <1>1, Inductive, PTL

\* A process that answers requests has every table and a configuration whose
\* cookies browsers keep (cmd/server/main.go:37-101).
THEOREM ServingIsReady == Spec => []ReadyToServe
<1>1. IInv => ReadyToServe
  <2> SUFFICES ASSUME IInv, NEW p \in Processes, process[p].pc \in {"serving", "draining"}
               PROVE  recorded = Files /\ CookieKept(env) /\ ProductionSafe(env)
    BY DEF ReadyToServe
  <2>1. recorded = Files /\ Accepted(env)
    BY DEF IInv, StartInv, ProcessInv, Running
  <2>2. env \in Environment
    BY EnvironmentsAssumption DEF IInv, StartInv, StartTypeOK
  <2> QED  BY <2>1, <2>2, AcceptedIsSound
<1> QED  BY <1>1, Inductive, PTL

\* Whoever signs in or out of the browser meanwhile, a request acts for the
\* account its page displayed (js/api.js:65-86, auth/handlers.go:320-345).
THEOREM ActsAsDisplayed == Spec => []WritesAsDisplayed
<1>1. IInv => WritesAsDisplayed
  <2> SUFFICES ASSUME IInv, NEW g \in Pages, request[g].did
               PROVE  SessionUser[request[g].as] = request[g].shown
    BY DEF WritesAsDisplayed
  <2>1. request[g] \in RequestRecords /\ RequestOk(request[g])
    BY DEF IInv, BrowserInv, BrowserTypeOK
  <2>2. request[g].did = TRUE
    <3>1. request[g].did \in BOOLEAN
      BY <2>1 DEF RequestRecords
    <3> QED  BY <3>1
  <2> QED  BY <2>1, <2>2, SessionsAssumption DEF RequestOk
<1> QED  BY <1>1, Inductive, PTL

\* The handlers that need an account have one, and an upload is counted by it
\* (api/router.go:76-168, auth/session.go:94-101).
THEOREM HandlersKnow == Spec => []AccountKnown
<1>1. IInv => AccountKnown
  BY SessionsAssumption DEF IInv, BrowserInv, RequestOk, AccountKnown
<1> QED  BY <1>1, Inductive, PTL

\* Who clears the cookie of a valid session.
LEMMA LossStep ==
  ASSUME IInv, [Next]_vars, jar # NoSession, session[jar] = "valid", jar' = NoSession
  PROVE  \E g \in Pages : /\ request[g].pc = "answer"
                          /\ request[g].route = "logout" \/ request[g].sent # jar
<1>1. CASE jar' = jar
  BY <1>1
<1>2. CASE jar' # jar
  <2>1. PICK g \in Pages : (\E s \in Sessions : SignIn(g, s)) \/ Deliver(g)
    BY <1>2 DEF Next, vars, GoesOn, Ends, BrowserSame, Visit, OpenPage, Leave, Click, Handle,
                Accept, Me, Write, Logout, NotListening, Lose, EndSession
  <2>2. ~ \E s \in Sessions : SignIn(g, s)
    BY SessionsAssumption DEF SignIn
  <2>3. request[g].pc \in {"answer", "lost"} /\ (jar' = IF request[g].clears THEN NoSession ELSE jar)
    BY <1>2, <2>1, <2>2 DEF Deliver
  <2>4. request[g] \in RequestRecords /\ CookieOk(request[g], session)
    BY DEF IInv, BrowserInv, BrowserTypeOK
  <2>5. request[g].clears = TRUE
    <3>1. request[g].clears \in BOOLEAN
      BY <2>4 DEF RequestRecords
    <3>2. CASE request[g].clears = FALSE
      <4>1. jar' = jar
        BY <2>3, <3>2
      <4> QED  BY <1>2, <4>1
    <3> QED  BY <3>1, <3>2
  <2> QED  BY <2>3, <2>4, <2>5 DEF CookieOk
<1> QED  BY <1>1, <1>2

\* A valid session loses its cookie to a logout, or to the answer of a request
\* that left with another cookie (auth/handlers.go:272-303).
THEOREM LossExplained == Spec => CookieLossExplained
<1>1. IInv /\ [Next]_vars =>
        [(jar # NoSession /\ session[jar] = "valid" /\ jar' = NoSession) =>
           \E g \in Pages : /\ request[g].pc = "answer"
                            /\ request[g].route = "logout" \/ request[g].sent # jar]_vars
  BY LossStep
<1> QED  BY <1>1, Inductive, PTL DEF Spec, CookieLossExplained
=============================================================================
