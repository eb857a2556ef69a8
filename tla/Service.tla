------------------------------- MODULE Service -------------------------------
(***************************************************************************)
(* The server of Startup and the browser of one visitor. The pages of the  *)
(* browser share one cookie jar; a request carries the cookie of the moment *)
(* it leaves, and the CSRF token its page was given together with the       *)
(* account it displays (js/api.js, js/session.js). A serving process passes *)
(* the request through the chain of its route (api/router.go,               *)
(* auth/handlers.go), refuses it or acts, and its answer may clear a cookie *)
(* that is no longer the one it came for. A process finishes its requests   *)
(* while it drains, and takes them with it when it ends.                    *)
(***************************************************************************)
EXTENDS Startup

CONSTANTS
  Pages,        \* the pages of one browser, each with a request at most
  Users,
  NoUser,       \* a page that displays no account
  Sessions,     \* the sessions that logins may open
  NoSession,    \* no cookie, or no session in the context of a request
  SessionUser,  \* sessions.user_id
  NoProcess     \* a request that no process has accepted

ASSUME SessionsAssumption ==
  NoSession \notin Sessions /\ NoUser \notin Users /\ SessionUser \in [Sessions -> Users]

VARIABLES
  session,  \* unborn, valid, or ended: revoked, expired or removed
  jar,      \* the session cookie of the browser
  page,     \* what each page displays, its CSRF token, and whether it waits
  request   \* the request of each page

vars == <<env, process, tracked, recorded, applied, incidents, session, jar, page, request>>

\* The routes, by what their chains and handlers do: /api/me, a writing, an
\* upload and the logout. The other readings have the chain of a writing, but
\* that CSRF asks them for no token (auth/handlers.go:322-326), and change
\* nothing but, as /api/me does, the cookie of a session that is over: they
\* are left out.
Routes == {"me", "write", "upload", "logout"}
Unsafe == {"write", "upload", "logout"}

Closed == [pc |-> "closed", account |-> NoUser, token |-> NoSession]

Quiet ==
  [pc |-> "none", route |-> "me", sent |-> NoSession, token |-> NoSession, shown |-> NoUser,
   as |-> NoSession, key |-> NoUser, ok |-> FALSE, clears |-> FALSE, did |-> FALSE,
   on |-> NoProcess]

\* js/api.js:65-86. A session's CSRF token is drawn with it: the session stands
\* for its token. The buttons work once the page has one, see OpenPage.
Sent(g, route) ==
  [Quiet EXCEPT !.pc = "sent", !.route = route, !.sent = jar,
                !.token = IF route \in Unsafe THEN page[g].token ELSE NoSession,
                !.shown = page[g].account]

\* What a step of the browser or of a request leaves alone.
ServerSame == UNCHANGED <<env, process, tracked, recorded, applied>>
BrowserSame == UNCHANGED <<session, jar, page>>

-----------------------------------------------------------------------------
(* The visitor                                                             *)

Listening == \E p \in Processes : process[p].pc = "serving"

\* auth/handlers.go:186-222. A login ends: a new session, and its cookie.
SignIn(g, s) ==
  /\ Listening
  /\ page[g].pc = "closed" /\ request[g].pc = "none"
  /\ session[s] = "unborn"
  /\ session' = [session EXCEPT ![s] = "valid"]
  /\ jar' = s
  /\ UNCHANGED <<page, request, incidents>> /\ ServerSame

\* A session ends for reasons of its own: a removal, an expiry.
EndSession(s) ==
  /\ session[s] = "valid"
  /\ session' = [session EXCEPT ![s] = "ended"]
  /\ UNCHANGED <<jar, page, request, incidents>> /\ ServerSame

\* A page is served and asks who is connected; its buttons are wired when it
\* knows (js/session.js:10-24, app.js:92-105, accounts.js:82-93).
OpenPage(g) ==
  /\ Listening
  /\ page[g].pc = "closed" /\ request[g].pc = "none"
  /\ page' = [page EXCEPT ![g].pc = "loading"]
  /\ request' = [request EXCEPT ![g] = Sent(g, "me")]
  /\ UNCHANGED <<session, jar, incidents>> /\ ServerSame

\* A button of a page that displays its account.
Click(g, route) ==
  /\ page[g].pc = "ready"
  /\ page' = [page EXCEPT ![g].pc = "waiting"]
  /\ request' = [request EXCEPT ![g] = Sent(g, route)]
  /\ UNCHANGED <<session, jar, incidents>> /\ ServerSame

\* The visitor leaves a page that has loaded: a handler that has started goes
\* on, and nobody hears of it.
Leave(g) ==
  /\ page[g].pc \in {"ready", "waiting"}
  /\ page' = [page EXCEPT ![g] = Closed]
  /\ request' = [request EXCEPT ![g] = IF request[g].pc = "handler" THEN request[g] ELSE Quiet]
  /\ UNCHANGED <<session, jar, incidents>> /\ ServerSame

-----------------------------------------------------------------------------
(* The chains of the router. A stage is a function of the request; it       *)
(* leaves alone a request that was refused before. `up` says that the       *)
(* database answers, `room` that the limiter admits, as Limiter decides.    *)
(* SameOriginWrite (httpx/middleware.go:209) lets these pages, which are    *)
(* the site's own, pass.                                                    *)

Refused(r) == [r EXCEPT !.pc = "answer"]

Stage(r, next) == IF r.pc = "answer" THEN r ELSE next

\* httpx/ratelimit.go:128-157, by address.
RateLimit(r, room) == Stage(r, IF room THEN r ELSE Refused(r))

\* api/router.go:86-91. By the account of the context, if there is one.
RateLimitByUser(r, room) ==
  Stage(r, [RateLimit(r, room) EXCEPT !.key = IF r.as = NoSession THEN NoUser ELSE SessionUser[r.as]])

ResolveClearing(r, up) ==
  Stage(r, IF r.sent = NoSession THEN r
           ELSE IF up /\ session[r.sent] = "valid" THEN [r EXCEPT !.as = r.sent]
           ELSE [r EXCEPT !.clears = TRUE])

\* auth/handlers.go:272-303. The cookie of a session that is over is cleared;
\* when the database does not answer nothing is known and the cookie stays.
Resolve(r, up) ==
  Stage(r, IF r.sent = NoSession THEN r
           ELSE IF ~up THEN Refused(r)
           ELSE IF session[r.sent] = "valid" THEN [r EXCEPT !.as = r.sent]
           ELSE [r EXCEPT !.clears = TRUE])

\* auth/handlers.go:307-316.
RequireUser(r) == Stage(r, IF r.as = NoSession THEN Refused(r) ELSE r)

CSRFOfAnyPage(r) ==
  Stage(r, IF r.route \in Unsafe /\ r.as = NoSession THEN Refused(r) ELSE r)

\* auth/handlers.go:320-345.
CSRF(r) ==
  Stage(r, IF r.route \in Unsafe /\ (r.as = NoSession \/ r.token # r.as) THEN Refused(r) ELSE r)

ChainLimitingFirst(r, up, room) ==
  CASE r.route = "me" -> Resolve(RateLimit(r, room), up)
    [] r.route = "upload" -> CSRF(RequireUser(Resolve(RateLimitByUser(r, room), up)))
    [] OTHER -> CSRF(RequireUser(Resolve(RateLimit(r, room), up)))

\* api/router.go:103-168: what runs before the handler of each route.
Chain(r, up, room) ==
  CASE r.route = "me" -> Resolve(RateLimit(r, room), up)
    [] r.route = "upload" -> RateLimitByUser(CSRF(RequireUser(Resolve(r, up))), room)
    [] OTHER -> CSRF(RequireUser(Resolve(RateLimit(r, room), up)))

-----------------------------------------------------------------------------
(* The server                                                              *)

\* A serving process accepts the request; its chain looks the session up once.
Accept(g, p) ==
  /\ request[g].pc = "sent"
  /\ process[p].pc = "serving"
  /\ \E up, room \in BOOLEAN :
       /\ request' = [request EXCEPT ![g] = Chain([request[g] EXCEPT !.pc = "handler", !.on = p], up, room)]
       /\ IF up THEN UNCHANGED incidents ELSE Incident
  /\ BrowserSame /\ ServerSame

AtHandler(g, route) == request[g].pc = "handler" /\ request[g].route = route

\* auth/handlers.go:249-265. What the context says.
Me(g) ==
  /\ AtHandler(g, "me")
  /\ request' = [request EXCEPT ![g].pc = "answer", ![g].ok = TRUE]
  /\ BrowserSame /\ ServerSame /\ UNCHANGED incidents

\* A writing or an upload acts for the account of the context, or is refused
\* for what it asks.
Write(g) ==
  /\ AtHandler(g, "write") \/ AtHandler(g, "upload")
  /\ \E did \in BOOLEAN :
       request' = [request EXCEPT ![g].pc = "answer", ![g].ok = did, ![g].did = did]
  /\ BrowserSame /\ ServerSame /\ UNCHANGED incidents

\* auth/handlers.go:227-242. The session of the cookie is revoked, or the
\* database refuses: the answer is the same.
Logout(g) ==
  /\ AtHandler(g, "logout")
  /\ \/ session' = [session EXCEPT ![request[g].sent] = "ended"] /\ UNCHANGED incidents
     \/ Incident /\ UNCHANGED session
  /\ request' = [request EXCEPT ![g].pc = "answer", ![g].ok = TRUE,
                                ![g].clears = TRUE, ![g].did = TRUE]
  /\ UNCHANGED <<jar, page>> /\ ServerSame

\* An error instead of an answer.
Lost(r) == [Quiet EXCEPT !.pc = "lost", !.route = r.route]

\* No process listens.
NotListening(g) ==
  /\ request[g].pc = "sent"
  /\ ~Listening
  /\ request' = [request EXCEPT ![g] = Lost(request[g])]
  /\ BrowserSame /\ ServerSame /\ UNCHANGED incidents

\* The network loses the answer to what may have been done.
Lose(g) ==
  /\ request[g].pc = "answer"
  /\ Incident
  /\ request' = [request EXCEPT ![g] = Lost(request[g])]
  /\ BrowserSame /\ ServerSame

\* A process ends with the requests it was handling.
Cut(p) ==
  request' = [g \in Pages |-> IF request[g].on = p /\ request[g].pc = "handler"
                                THEN Lost(request[g]) ELSE request[g]]

-----------------------------------------------------------------------------
(* The answer                                                              *)

Ready(g) == [page[g] EXCEPT !.pc = "ready"]

ConnectedByAccount(s) == [pc |-> "ready", account |-> SessionUser[s], token |-> SessionUser[s]]

Connected(s) == [pc |-> "ready", account |-> SessionUser[s], token |-> s]

AfterForgettingButton(g) ==
  CASE request[g].route = "me" ->
         IF request[g].ok /\ request[g].as # NoSession THEN {Connected(request[g].as)} ELSE {Closed}
    [] request[g].route = "logout" -> {Closed}
    [] request[g].route = "write" -> IF request[g].ok THEN {Closed, Ready(g)} ELSE {page[g]}
    [] OTHER -> {Ready(g)}

\* What the callback of the page makes of the answer: js/session.js:10-45,
\* app.js:67-85, accounts.js:15-36 and 60-80. A page without an account goes
\* home, a creation that succeeds opens its wheel, and the removal of one's own
\* access goes home; the others give the button back.
After(g) ==
  CASE request[g].route = "me" ->
         IF request[g].ok /\ request[g].as # NoSession THEN {Connected(request[g].as)} ELSE {Closed}
    [] request[g].route = "logout" -> {Closed}
    [] request[g].route = "write" -> IF request[g].ok THEN {Closed, Ready(g)} ELSE {Ready(g)}
    [] OTHER -> {Ready(g)}

\* The answer or the error reaches the browser, if its page is still there.
Deliver(g) ==
  /\ request[g].pc \in {"answer", "lost"}
  /\ request' = [request EXCEPT ![g] = Quiet]
  /\ IF page[g].pc = "closed"
       THEN UNCHANGED <<jar, page>>
       ELSE /\ jar' = IF request[g].clears THEN NoSession ELSE jar
            /\ \E next \in After(g) : page' = [page EXCEPT ![g] = next]
  /\ UNCHANGED <<session, incidents>> /\ ServerSame

-----------------------------------------------------------------------------
(* The specification                                                       *)

Init ==
  /\ StartInit
  /\ session = [s \in Sessions |-> "unborn"]
  /\ jar = NoSession
  /\ page = [g \in Pages |-> Closed]
  /\ request = [g \in Pages |-> Quiet]

Visit(g) ==
  \/ \E s \in Sessions : SignIn(g, s)
  \/ OpenPage(g) \/ Leave(g)
  \/ \E route \in Unsafe : Click(g, route)

Handle(g) ==
  \/ \E p \in Processes : Accept(g, p)
  \/ Me(g) \/ Write(g) \/ Logout(g) \/ NotListening(g) \/ Deliver(g)

\* A step of a process, and the requests it ends with.
Ends(p) == (Exit(p) \/ Die(p)) /\ Cut(p) /\ BrowserSame

GoesOn(p) == (Boot(p) \/ Stop(p) \/ StartAgain(p)) /\ UNCHANGED request /\ BrowserSame

BootsOn(p) == Boot(p) /\ UNCHANGED request /\ BrowserSame

Next ==
  \/ \E p \in Processes : GoesOn(p) \/ Ends(p)
  \/ \E g \in Pages : Visit(g) \/ Handle(g) \/ Lose(g)
  \/ \E s \in Sessions : EndSession(s)

Spec == Init /\ [][Next]_vars

\* Docker starts again what failed and a process that starts goes on; net/http
\* runs a request to its end; a browser hands its page an answer or an error.
\* Nobody has to click, nor to start what he stopped.
Fairness ==
  /\ \A p \in Processes : WF_vars(BootsOn(p))
  /\ \A g \in Pages : WF_vars(Handle(g))

FairSpec == Spec /\ Fairness

-----------------------------------------------------------------------------
(* Properties                                                              *)

PageRecords ==
  [pc : {"closed", "loading", "ready", "waiting"}, account : Users \cup {NoUser},
   token : Sessions \cup {NoSession}]

RequestRecords ==
  [pc : {"none", "sent", "handler", "answer", "lost"}, route : Routes,
   sent : Sessions \cup {NoSession}, token : Sessions \cup {NoSession},
   shown : Users \cup {NoUser}, as : Sessions \cup {NoSession}, key : Users \cup {NoUser},
   ok : BOOLEAN, clears : BOOLEAN, did : BOOLEAN, on : Processes \cup {NoProcess}]

\* Every variable of the server and of the browser has its type.
TypeOK ==
  /\ StartTypeOK
  /\ session \in [Sessions -> {"unborn", "valid", "ended"}]
  /\ jar \in Sessions \cup {NoSession}
  /\ page \in [Pages -> PageRecords]
  /\ request \in [Pages -> RequestRecords]

\* What a request does is done for the account its page displayed when the
\* button was pressed, whoever signed in or out of the browser meanwhile.
WritesAsDisplayed ==
  \A g \in Pages : request[g].did => SessionUser[request[g].as] = request[g].shown

\* Only a request with an account reaches a handler that calls MustUser, which
\* panics without one (auth/session.go:94-101), and an upload is counted by
\* its account, not by the address a whole class shares (api/router.go:76).
AccountKnown ==
  \A g \in Pages : request[g].pc = "handler" =>
    /\ request[g].route # "me" => request[g].as # NoSession
    /\ request[g].route = "upload" => request[g].key = SessionUser[request[g].as]

\* A valid session loses its cookie to a logout, or to the answer of a request
\* that left with an older cookie, never to a failure of the database: "On
\* signale l'indisponibilité, on ne touche à rien" (auth/handlers.go:282-286).
CookieLossExplained ==
  [][(jar # NoSession /\ session[jar] = "valid" /\ jar' = NoSession) =>
       \E g \in Pages : /\ request[g].pc = "answer"
                        /\ request[g].route = "logout" \/ request[g].sent # jar]_vars

\* No page waits for ever, whichever process dies, drains or is replaced.
WaitEnds ==
  \A g \in Pages :
    (page[g].pc \in {"loading", "waiting"}) ~> (page[g].pc \in {"ready", "closed"})
=============================================================================
