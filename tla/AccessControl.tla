---------------------------- MODULE AccessControl ----------------------------
(***************************************************************************)
(* Who may use Spin the Wheel: the whitelist `allowed_emails`, the tables  *)
(* `users`, `oauth_states` and `sessions`, the two cookies of a browser,   *)
(* and the requests that change them concurrently:                         *)
(*   - Google logins               (auth/handlers.go, Start and Callback)  *)
(*   - logouts                     (auth/handlers.go, Logout)              *)
(*   - changes of the whitelist    (api/wheels.go, addAllowed and          *)
(*                                  deleteAllowed)                         *)
(*   - restarts of the server      (cmd/server/main.go)                    *)
(* A step is one statement of a transaction, one autocommitted statement,  *)
(* or the arrival of a response, whose cookies reach the browser at once.  *)
(* A token is told apart from the others by the row that holds its hash.   *)
(***************************************************************************)
EXTENDS Integers, FiniteSets

CONSTANTS
  Emails,           \* the addresses, in lower case
  NoEmail,          \* a Google account that has never logged in
  Subs,             \* the identifiers of Google accounts (users.google_sub)
  NoSub,            \* the account of a session or login without one
  Profiles,         \* the verified <<sub, email>> pairs Google may answer
  BootstrapEmails,  \* BOOTSTRAP_ADMIN_EMAILS
  Browsers,         \* the browsers
  NoBrowser,        \* the browser of an OAuth state that is not issued yet
  States,           \* the OAuth states newToken can draw
  NoState,          \* no OAuth state: an empty cookie
  Sessions,         \* the session tokens newToken can draw
  NoSession,        \* no session: an empty cookie
  Logins,           \* the callbacks that can be in progress together
  Requests          \* the authenticated requests in progress together

ASSUME AccountsAssumption ==
  /\ BootstrapEmails \subseteq Emails
  /\ Profiles \subseteq Subs \X Emails
  /\ NoEmail \notin Emails /\ NoSub \notin Subs

ASSUME TokensAssumption ==
  /\ NoBrowser \notin Browsers
  /\ NoState \notin States
  /\ NoSession \notin Sessions

VARIABLES
  allowed,  \* allowed_emails, as committed
  user,     \* users: the address of each Google account
  state,    \* oauth_states: progress, and the browser the state was sent to
  session,  \* sessions: status, account, and the OAuth state it came from
  oauth,    \* each browser's OAuth state cookie
  cookie,   \* each browser's session cookie
  login,    \* the callbacks in progress
  request,  \* the logouts and whitelist requests in progress
  late,     \* history: the sessions that came after a removal, see CreateSession
  passed    \* history: the accounts whose callback a removal met, see RevokeSessions

vars == <<allowed, user, state, session, oauth, cookie, login, request, late, passed>>

-----------------------------------------------------------------------------
(* Tables and types                                                        *)

IdleLogin == [pc |-> "idle", browser |-> NoBrowser, state |-> NoState,
              sub |-> NoSub, email |-> NoEmail]

IdleRequest == [pc |-> "idle", email |-> NoEmail, victims |-> {},
                browser |-> NoBrowser, session |-> NoSession]

LoginStates ==
  {IdleLogin}
    \cup [pc : {"compared", "consumed"}, browser : Browsers, state : States,
          sub : {NoSub}, email : {NoEmail}]
    \cup [pc : {"allowed", "upserted"}, browser : Browsers, state : States,
          sub : Subs, email : Emails]

RequestStates ==
  {IdleRequest}
    \cup [pc : {"logout"}, email : {NoEmail}, victims : {{}},
          browser : Browsers, session : Sessions]
    \cup [pc : {"adding", "removing", "deleted", "revoked"}, email : Emails,
          victims : SUBSET Sessions, browser : {NoBrowser}, session : {NoSession}]

\* LookupSession (store/users.go:185-205) resolves the session.
Valid(s) == session[s].status = "open"

\* The valid sessions of the account that has this address.
SessionsOf(e) == {s \in Sessions : Valid(s) /\ user[session[s].sub] = e}

\* A removal holds the row of the address in allowed_emails.
RowLocked(e) == \E r \in Requests : request[r].pc \in {"deleted", "revoked"} /\ request[r].email = e

\* The removal of the address has run its UPDATE of the sessions, or is over.
Closed(e) == e \notin allowed \/ \E r \in Requests : request[r].pc = "revoked" /\ request[r].email = e

\* The callbacks that may still give a session to an account of the address:
\* past the lookup, with this address or for an account that has it.
PastLookup(l) == login[l].pc \in {"allowed", "upserted"}

Passing(e) ==
  {<<login[l].sub, e>> :
     l \in {k \in Logins : PastLookup(k) /\ e \in {login[k].email, user[login[k].sub]}}}

\* A removal holds the row of the session.
SessionLocked(s) == \E r \in Requests : s \in request[r].victims

-----------------------------------------------------------------------------
(* Logins                                                                  *)

\* auth/handlers.go:55-85. A fresh state, in the table and in the cookie: a
\* login started in another tab of the browser loses its cookie.
Start(b, st) ==
  /\ state[st].status = "unborn"
  /\ state' = [state EXCEPT ![st] = [status |-> "issued", browser |-> b]]
  /\ oauth' = [oauth EXCEPT ![b] = st]
  /\ UNCHANGED <<allowed, user, session, cookie, login, request, late, passed>>

\* auth/handlers.go:92-128. A callback that brings an error, no code, or a
\* state other than the cookie's clears the cookie and goes no further.
RefuseCallback(b) ==
  /\ oauth[b] # NoState
  /\ oauth' = [oauth EXCEPT ![b] = NoState]
  /\ UNCHANGED <<allowed, user, state, session, cookie, login, request, late, passed>>

\* auth/handlers.go:113-121. A callback with any state that was ever issued,
\* compared with the cookie of the browser.
CallbackUncompared(l, b, st) ==
  /\ login[l].pc = "idle"
  /\ state[st].status # "unborn"
  /\ oauth[b] # NoState
  /\ login' = [login EXCEPT ![l] = [IdleLogin EXCEPT !.pc = "compared", !.browser = b, !.state = st]]
  /\ UNCHANGED <<allowed, user, state, session, oauth, cookie, request, late, passed>>

Callback(l, b, st) ==
  /\ login[l].pc = "idle"
  /\ state[st].status # "unborn"
  /\ oauth[b] = st
  /\ login' = [login EXCEPT ![l] = [IdleLogin EXCEPT !.pc = "compared", !.browser = b, !.state = st]]
  /\ UNCHANGED <<allowed, user, state, session, oauth, cookie, request, late, passed>>

\* store/users.go:145-161. The conditional UPDATE: only one of the callbacks
\* with the same state finds it unconsumed, and none finds it expired.
ConsumeAnyOAuthState(l) ==
  /\ login[l].pc = "compared"
  /\ state[login[l].state].status # "expired"
  /\ state' = [state EXCEPT ![login[l].state].status = "consumed"]
  /\ login' = [login EXCEPT ![l].pc = "consumed"]
  /\ UNCHANGED <<allowed, user, session, oauth, cookie, request, late, passed>>

ConsumeOAuthState(l) ==
  /\ login[l].pc = "compared"
  /\ state[login[l].state].status = "issued"
  /\ state' = [state EXCEPT ![login[l].state].status = "consumed"]
  /\ login' = [login EXCEPT ![l].pc = "consumed"]
  /\ UNCHANGED <<allowed, user, session, oauth, cookie, request, late, passed>>

CheckAnyProfile(l) ==
  /\ login[l].pc = "consumed"
  /\ \E p \in Profiles :
       login' = [login EXCEPT ![l].pc = "allowed", ![l].sub = p[1], ![l].email = p[2]]
  /\ UNCHANGED <<allowed, user, state, session, oauth, cookie, request, late, passed>>

\* auth/handlers.go:142-186. Google answers with a verified profile, whose
\* address is looked up in the whitelist. A transaction that has not
\* committed its removal is not seen.
CheckAllowed(l) ==
  /\ login[l].pc = "consumed"
  /\ \E p \in Profiles :
       /\ p[2] \in allowed
       /\ login' = [login EXCEPT ![l].pc = "allowed", ![l].sub = p[1], ![l].email = p[2]]
       /\ passed' = IF Closed(p[2]) THEN passed \cup {p} ELSE passed
  /\ UNCHANGED <<allowed, user, state, session, oauth, cookie, request, late>>

UpsertAnyUser(l) ==
  LET sub == login[l].sub
      e   == login[l].email
  IN  /\ login[l].pc = "allowed"
      /\ user' = [user EXCEPT ![sub] = e]
      /\ login' = [login EXCEPT ![l].pc = "upserted"]
      /\ late' = IF Closed(e) THEN late \cup {s \in Sessions : session[s].sub = sub} ELSE late
      /\ UNCHANGED <<allowed, state, session, oauth, cookie, request, passed>>

\* store/users.go:112-129. Creates the account or gives it the address of
\* the profile. Both columns are UNIQUE, ON CONFLICT covers google_sub only:
\* the address of another account makes the statement, and the login, fail.
UpsertUser(l) ==
  LET sub == login[l].sub
      e   == login[l].email
  IN  /\ login[l].pc = "allowed"
      /\ \A other \in Subs \ {sub} : user[other] # e
      /\ user' = [user EXCEPT ![sub] = e]
      /\ login' = [login EXCEPT ![l].pc = "upserted"]
      /\ late' = IF Closed(e) THEN late \cup {s \in Sessions : session[s].sub = sub} ELSE late
      /\ UNCHANGED <<allowed, state, session, oauth, cookie, request, passed>>

\* store/users.go:166-181, then auth/handlers.go:209-223 and the response.
\* `late` remembers that the removal of the address was past the point where
\* it could have seen the session.
CreateSession(l, s) ==
  LET b == login[l].browser
  IN  /\ login[l].pc = "upserted"
      /\ session[s].status = "unborn"
      /\ session' = [session EXCEPT ![s] =
                       [status |-> "open", sub |-> login[l].sub, from |-> login[l].state]]
      /\ late' = IF Closed(user[login[l].sub]) THEN late \cup {s} ELSE late
      /\ cookie' = [cookie EXCEPT ![b] = s]
      /\ oauth' = [oauth EXCEPT ![b] = NoState]
      /\ login' = [login EXCEPT ![l] = IdleLogin]
      /\ UNCHANGED <<allowed, user, state, request, passed>>

\* Any refusal or error of Callback after the comparison: the state is not
\* the table's, Google refuses, the address is unverified or not allowed, a
\* statement fails.
FailLogin(l) ==
  /\ login[l].pc # "idle"
  /\ oauth' = [oauth EXCEPT ![login[l].browser] = NoState]
  /\ login' = [login EXCEPT ![l] = IdleLogin]
  /\ UNCHANGED <<allowed, user, state, session, cookie, request, late, passed>>

-----------------------------------------------------------------------------
(* Requests with a session cookie                                          *)

\* auth/handlers.go:272-303. The session of the cookie is valid: the request
\* runs, whatever becomes of the session meanwhile.
Resolve(r, b) ==
  /\ request[r].pc = "idle"
  /\ cookie[b] # NoSession
  /\ Valid(cookie[b])
  /\ request' = [request EXCEPT ![r] = [IdleRequest EXCEPT !.pc = "logout", !.browser = b, !.session = cookie[b]]]
  /\ UNCHANGED <<allowed, user, state, session, oauth, cookie, login, late, passed>>

\* The same for a change of the whitelist: any account may make it.
ResolveChange(r, b, e) ==
  /\ request[r].pc = "idle"
  /\ cookie[b] # NoSession
  /\ Valid(cookie[b])
  /\ \E pc \in {"adding", "removing"} :
       request' = [request EXCEPT ![r] = [IdleRequest EXCEPT !.pc = pc, !.email = e]]
  /\ UNCHANGED <<allowed, user, state, session, oauth, cookie, login, late, passed>>

\* auth/handlers.go:290-293. The cookie of a session that is no longer valid
\* is cleared.
ResolveStale(b) ==
  /\ cookie[b] # NoSession
  /\ ~Valid(cookie[b])
  /\ cookie' = [cookie EXCEPT ![b] = NoSession]
  /\ UNCHANGED <<allowed, user, state, session, oauth, login, request, late, passed>>

\* auth/handlers.go:227-242. An error of the UPDATE is logged and ignored; the
\* browser forgets whichever session cookie it has by now.
Logout(r) ==
  /\ request[r].pc = "logout"
  /\ ~SessionLocked(request[r].session)
  /\ \/ session' = [session EXCEPT ![request[r].session].status =
                      IF @ = "open" THEN "revoked" ELSE @]
     \/ UNCHANGED session
  /\ cookie' = [cookie EXCEPT ![request[r].browser] = NoSession]
  /\ request' = [request EXCEPT ![r] = IdleRequest]
  /\ UNCHANGED <<allowed, user, state, oauth, login, late, passed>>

\* store/users.go:69-79. The INSERT waits for the removal of the same address;
\* an address that is there keeps its row.
AddAllowedEmail(r) ==
  /\ request[r].pc = "adding"
  /\ ~RowLocked(request[r].email)
  /\ allowed' = allowed \cup {request[r].email}
  /\ request' = [request EXCEPT ![r] = IdleRequest]
  /\ UNCHANGED <<user, state, session, oauth, cookie, login, late, passed>>

\* store/users.go:84-97. The removal's transaction deletes the row, waiting
\* for another removal of it; no row is a 404.
DeleteRow(r) ==
  /\ request[r].pc = "removing"
  /\ ~RowLocked(request[r].email)
  /\ request' = [request EXCEPT ![r] = IF request[r].email \in allowed
                                         THEN [@ EXCEPT !.pc = "deleted"]
                                         ELSE IdleRequest]
  /\ UNCHANGED <<allowed, user, state, session, oauth, cookie, login, late, passed>>

\* store/users.go:99-105. The UPDATE locks the sessions its snapshot shows.
\* `passed` remembers the callbacks that may add to them until the COMMIT, and
\* after it: those past the lookup now, or by the COMMIT, see CheckAllowed.
RevokeSessions(r) ==
  /\ request[r].pc = "deleted"
  /\ \A s \in SessionsOf(request[r].email) : ~SessionLocked(s)
  /\ request' = [request EXCEPT ![r].pc = "revoked", ![r].victims = SessionsOf(request[r].email)]
  /\ passed' = {p \in passed : p[2] # request[r].email} \cup Passing(request[r].email)
  /\ UNCHANGED <<allowed, user, state, session, oauth, cookie, login, late>>

CommitRowOnly(r) ==
  /\ request[r].pc = "revoked"
  /\ allowed' = allowed \ {request[r].email}
  /\ request' = [request EXCEPT ![r] = IdleRequest]
  /\ UNCHANGED <<user, state, session, oauth, cookie, login, late, passed>>

\* store/users.go:106. COMMIT: row and sessions go together.
CommitRemoval(r) ==
  /\ request[r].pc = "revoked"
  /\ allowed' = allowed \ {request[r].email}
  /\ session' = [s \in Sessions |-> IF s \in request[r].victims
                                      THEN [session[s] EXCEPT !.status = "revoked"]
                                      ELSE session[s]]
  /\ request' = [request EXCEPT ![r] = IdleRequest]
  /\ UNCHANGED <<user, state, oauth, cookie, login, late, passed>>

\* A statement fails or the request is cancelled: the deferred Rollback.
FailRequest(r) ==
  /\ request[r].pc # "idle"
  /\ request' = [request EXCEPT ![r] = IdleRequest]
  /\ UNCHANGED <<allowed, user, state, session, oauth, cookie, login, late, passed>>

-----------------------------------------------------------------------------
(* Time and restarts                                                       *)

\* expires_at passes: ConsumeOAuthState no longer finds the state.
ExpireState(st) ==
  /\ state[st].status = "issued"
  /\ state' = [state EXCEPT ![st].status = "expired"]
  /\ UNCHANGED <<allowed, user, session, oauth, cookie, login, request, late, passed>>

\* expires_at passes: LookupSession no longer finds the session. Nothing
\* moves expires_at: TouchSession writes last_seen_at only.
ExpireSession(s) ==
  /\ Valid(s)
  /\ session' = [session EXCEPT ![s].status = "expired"]
  /\ UNCHANGED <<allowed, user, state, oauth, cookie, login, request, late, passed>>

\* main.go:65-70 and store/store.go:149-168. The process ends and starts again:
\* its transactions are undone, browsers keep their cookies, and every start
\* puts the addresses of the environment into the whitelist.
Restart ==
  /\ allowed' = allowed \cup BootstrapEmails
  /\ login' = [l \in Logins |-> IdleLogin]
  /\ request' = [r \in Requests |-> IdleRequest]
  /\ UNCHANGED <<user, state, session, oauth, cookie, late, passed>>

-----------------------------------------------------------------------------
(* The specification                                                       *)

\* The first start has filled the whitelist.
Init ==
  /\ allowed = BootstrapEmails
  /\ user = [g \in Subs |-> NoEmail]
  /\ state = [st \in States |-> [status |-> "unborn", browser |-> NoBrowser]]
  /\ session = [s \in Sessions |-> [status |-> "unborn", sub |-> NoSub, from |-> NoState]]
  /\ oauth = [b \in Browsers |-> NoState]
  /\ cookie = [b \in Browsers |-> NoSession]
  /\ login = [l \in Logins |-> IdleLogin]
  /\ request = [r \in Requests |-> IdleRequest]
  /\ late = {}
  /\ passed = {}

LoginStep(l) ==
  \/ \E b \in Browsers, st \in States : Callback(l, b, st)
  \/ ConsumeOAuthState(l)
  \/ CheckAllowed(l)
  \/ UpsertUser(l)
  \/ \E s \in Sessions : CreateSession(l, s)
  \/ FailLogin(l)

RequestStep(r) ==
  \/ Logout(r) \/ AddAllowedEmail(r)
  \/ DeleteRow(r) \/ RevokeSessions(r) \/ CommitRemoval(r)
  \/ FailRequest(r)

Next ==
  \/ \E b \in Browsers : \/ \E st \in States : Start(b, st)
                         \/ RefuseCallback(b)
                         \/ ResolveStale(b)
                         \/ \E r \in Requests : \/ Resolve(r, b)
                                                \/ \E e \in Emails : ResolveChange(r, b, e)
  \/ \E l \in Logins : LoginStep(l)
  \/ \E r \in Requests : RequestStep(r)
  \/ \E st \in States : ExpireState(st)
  \/ \E s \in Sessions : ExpireSession(s)
  \/ Restart

Spec == Init /\ [][Next]_vars

-----------------------------------------------------------------------------
(* Properties                                                              *)

\* Every variable has the type its table, cookie or handler gives it, and no
\* two accounts share an address.
TypeOK ==
  /\ allowed \subseteq Emails
  /\ user \in [Subs -> Emails \cup {NoEmail}]
  /\ \A g, h \in Subs : g # h /\ user[g] # NoEmail => user[g] # user[h]
  /\ state \in [States -> [status : {"unborn", "issued", "consumed", "expired"},
                           browser : Browsers \cup {NoBrowser}]]
  /\ session \in [Sessions -> [status : {"unborn", "open", "revoked", "expired"},
                               sub : Subs \cup {NoSub}, from : States \cup {NoState}]]
  /\ \A s \in Sessions : session[s].status # "unborn" => session[s].sub \in Subs
  /\ oauth \in [Browsers -> States \cup {NoState}]
  /\ cookie \in [Browsers -> Sessions \cup {NoSession}]
  /\ login \in [Logins -> LoginStates]
  /\ request \in [Requests -> RequestStates]
  /\ \A r \in Requests : \A s \in request[r].victims : session[s].status # "unborn"
  /\ late \subseteq Sessions
  /\ passed \subseteq Subs \X Emails

\* Removing an address leaves a valid session to its account only when the
\* session, or the address of its account, came after the removal had run its
\* UPDATE: everything older is revoked with it (store/users.go:99-106).
LateSessionsOnly ==
  \A s \in Sessions : Valid(s) /\ user[session[s].sub] \notin allowed => s \in late

\* An OAuth state yields one session at most, even when the browser sends its
\* callback twice at the same time (store/users.go:142-144).
OneSessionPerState ==
  \A s, t \in Sessions :
    s # t /\ session[s].status # "unborn" /\ session[t].status # "unborn"
      => session[s].from # session[t].from

\* A browser never carries a session that was opened by a login started in
\* another browser (auth/handlers.go:74-78, forced login).
BrowserBound ==
  \A b \in Browsers : cookie[b] # NoSession => state[session[cookie[b]].from].browser = b

\* An account that has access although its address was removed had a callback
\* past the whitelist lookup while the removal ran (auth/handlers.go:172): the
\* race is over with the callbacks the removal met. No callback that is looked
\* up later lets the account in, and no session that a failed logout
\* (auth/handlers.go:229), a change of address or a crash has left open survives.
EscapedHadPassed ==
  \A s \in Sessions : Valid(s) /\ user[session[s].sub] \notin allowed =>
    <<session[s].sub, user[session[s].sub]>> \in passed

\* What store/users.go:99 and README.md:171 say: removing access closes the
\* sessions at once, so that no address off the whitelist has a valid session.
NoAccessAfterRemoval ==
  \A s \in Sessions : Valid(s) => user[session[s].sub] \in allowed

\* What config.go:32 and .env.example say: the environment feeds the whitelist
\* at the first start, after which only the accounts manage it.
OnlyAccountsAdd ==
  [][\A e \in Emails : e \notin allowed /\ e \in allowed' =>
       \E r \in Requests : request[r].pc = "adding" /\ request[r].email = e]_vars

-----------------------------------------------------------------------------
(* Inductive strengthenings, for the proofs                                *)

\* The sessions a removal has not locked are late, from its UPDATE on.
RemovalInv ==
  \A r \in Requests : request[r].pc = "revoked" =>
    \A s \in SessionsOf(request[r].email) : s \in request[r].victims \/ s \in late

AccessInv == LateSessionsOnly /\ RemovalInv

\* From its UPDATE on, a removal has locked the sessions of the address or has
\* met a callback of their account; it has the row of the address to itself.
Removing(r) == request[r].pc \in {"deleted", "revoked"}

Bears(l, e) ==
  \/ PastLookup(l) /\ login[l].email = e
  \/ login[l].pc = "upserted" /\ user[login[l].sub] = e

Caught(s, e) == \E r \in Requests : request[r].pc = "revoked" /\ request[r].email = e /\ s \in request[r].victims

RowInv ==
  \A r \in Requests : Removing(r) =>
    /\ request[r].email \in allowed
    /\ \A q \in Requests : q # r /\ Removing(q) => request[q].email # request[r].email

AddressInv ==
  /\ \A l \in Logins : login[l].pc = "upserted" => user[login[l].sub] \in Emails
  /\ \A s \in Sessions : session[s].status # "unborn" => user[session[s].sub] \in Emails

PassedInv ==
  \A e \in Emails : Closed(e) =>
    /\ \A l \in Logins : Bears(l, e) => <<login[l].sub, e>> \in passed
    /\ \A s \in SessionsOf(e) : <<session[s].sub, e>> \in passed \/ Caught(s, e)

EscapeInv == RowInv /\ AddressInv /\ PassedInv

\* A login past ConsumeOAuthState is the only one to hold its state, which has
\* not yielded a session yet; a session came from a consumed state.
Holds(l) == login[l].pc \in {"consumed", "allowed", "upserted"}

StatesInv ==
  /\ OneSessionPerState
  /\ \A s \in Sessions : session[s].status # "unborn" =>
       session[s].from \in States /\ state[session[s].from].status = "consumed"
  /\ \A l \in Logins : Holds(l) =>
       /\ state[login[l].state].status = "consumed"
       /\ \A s \in Sessions : session[s].status # "unborn" => session[s].from # login[l].state
       /\ \A k \in Logins : k # l /\ Holds(k) => login[k].state # login[l].state

\* A browser's cookie and its callbacks hold states that were issued to it.
BrowserInv ==
  /\ BrowserBound
  /\ \A b \in Browsers : cookie[b] # NoSession =>
       /\ session[cookie[b]].status # "unborn" /\ session[cookie[b]].from \in States
       /\ state[session[cookie[b]].from].status # "unborn"
  /\ \A b \in Browsers : oauth[b] # NoState =>
       state[oauth[b]].browser = b /\ state[oauth[b]].status # "unborn"
  /\ \A l \in Logins : login[l].pc # "idle" =>
       /\ state[login[l].state].browser = login[l].browser
       /\ state[login[l].state].status # "unborn"
=============================================================================
