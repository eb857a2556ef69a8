------------------------- MODULE AccessControlProofs -------------------------
(***************************************************************************)
(* Theorems about AccessControl, for every set of addresses, accounts,     *)
(* browsers, tokens, callbacks and requests.                               *)
(***************************************************************************)
EXTENDS AccessControl, TLAPS

(***************************************************************************)
(* Types.                                                                  *)
(***************************************************************************)

\* What a callback holds at each of its steps.
LEMMA LoginFields ==
  ASSUME TypeOK, NEW l \in Logins
  PROVE  /\ login[l].pc \in {"idle", "compared", "consumed", "allowed", "upserted"}
         /\ login[l].pc # "idle" => login[l].browser \in Browsers /\ login[l].state \in States
         /\ login[l].pc \in {"allowed", "upserted"} => login[l].sub \in Subs /\ login[l].email \in Emails
         /\ login[l] \in [pc : {"idle", "compared", "consumed", "allowed", "upserted"},
                          browser : Browsers \cup {NoBrowser}, state : States \cup {NoState},
                          sub : Subs \cup {NoSub}, email : Emails \cup {NoEmail}]
  BY DEF TypeOK, LoginStates, IdleLogin

\* What a request holds at each of its steps.
LEMMA RequestFields ==
  ASSUME TypeOK, NEW r \in Requests
  PROVE  /\ request[r].pc \in {"idle", "logout", "adding", "removing", "deleted", "revoked"}
         /\ request[r].victims \subseteq Sessions
         /\ request[r].pc = "logout" => request[r].browser \in Browsers /\ request[r].session \in Sessions
         /\ request[r].pc \in {"adding", "removing", "deleted", "revoked"} =>
              /\ request[r].email \in Emails
              /\ request[r] \in [pc : {"adding", "removing", "deleted", "revoked"}, email : Emails,
                                 victims : SUBSET Sessions, browser : {NoBrowser}, session : {NoSession}]
  BY DEF TypeOK, RequestStates, IdleRequest

LEMMA InitTypes == Init => TypeOK
  BY AccountsAssumption DEF Init, TypeOK, LoginStates, RequestStates, IdleRequest

\* Every step keeps the types; two accounts never share an address because
\* UpsertUser fails rather than give one away.
LEMMA StepTypes == TypeOK /\ [Next]_vars => TypeOK'
<1> SUFFICES ASSUME TypeOK, [Next]_vars PROVE TypeOK'
  OBVIOUS
<1> USE DEF TypeOK
<1>1. ASSUME NEW b \in Browsers, NEW st \in States, Start(b, st) PROVE TypeOK'
  BY <1>1 DEF Start
<1>2. ASSUME NEW b \in Browsers, RefuseCallback(b) PROVE TypeOK'
  BY <1>2 DEF RefuseCallback
<1>3. ASSUME NEW b \in Browsers, ResolveStale(b) PROVE TypeOK'
  BY <1>3 DEF ResolveStale
<1>4. ASSUME NEW b \in Browsers, NEW r \in Requests, Resolve(r, b) PROVE TypeOK'
  <2>1. request'[r] \in RequestStates
    BY <1>4 DEF Resolve, RequestStates, IdleRequest
  <2> QED
    BY <1>4, <2>1 DEF Resolve, IdleRequest
<1>5. ASSUME NEW b \in Browsers, NEW r \in Requests, NEW e \in Emails, ResolveChange(r, b, e)
      PROVE TypeOK'
  <2>1. PICK pc \in {"adding", "removing"} :
          request' = [request EXCEPT ![r] = [IdleRequest EXCEPT !.pc = pc, !.email = e]]
    BY <1>5 DEF ResolveChange
  <2>2. [IdleRequest EXCEPT !.pc = pc, !.email = e] \in RequestStates
    BY DEF RequestStates, IdleRequest
  <2> QED
    BY <1>5, <2>1, <2>2 DEF ResolveChange, IdleRequest
<1>6. ASSUME NEW l \in Logins, LoginStep(l) PROVE TypeOK'
  <2>1. IdleLogin \in LoginStates
    BY DEF LoginStates
  <2>2. ASSUME NEW b \in Browsers, NEW st \in States, Callback(l, b, st) PROVE TypeOK'
    <3>1. login'[l] \in LoginStates
      BY <2>2 DEF Callback, LoginStates, IdleLogin
    <3> QED
      BY <2>2, <3>1 DEF Callback
  <2>3. CASE ConsumeOAuthState(l)
    <3>1. /\ login[l].state \in States
          /\ login[l] \in [pc : {"compared", "consumed"}, browser : Browsers, state : States,
                           sub : {NoSub}, email : {NoEmail}]
      BY <2>3, LoginFields DEF ConsumeOAuthState, LoginStates, IdleLogin
    <3>2. login'[l] \in LoginStates
      BY <2>3, <3>1 DEF ConsumeOAuthState, LoginStates
    <3> QED
      BY <2>3, <3>1, <3>2 DEF ConsumeOAuthState
  <2>4. CASE CheckAllowed(l)
    <3>1. PICK p \in Profiles :
            login' = [login EXCEPT ![l].pc = "allowed", ![l].sub = p[1], ![l].email = p[2]]
      BY <2>4 DEF CheckAllowed
    <3>2. p[1] \in Subs /\ p[2] \in Emails
      BY AccountsAssumption
    <3>3. login[l].browser \in Browsers /\ login[l].state \in States
      BY <2>4, LoginFields DEF CheckAllowed
    <3>4. login'[l] = [login[l] EXCEPT !.pc = "allowed", !.sub = p[1], !.email = p[2]]
      BY <3>1
    <3>5. login'[l] \in LoginStates
      BY <3>2, <3>3, <3>4, LoginFields DEF LoginStates
    <3>6. passed' \subseteq Subs \X Emails
      BY <2>4, AccountsAssumption DEF CheckAllowed
    <3>7. UNCHANGED <<allowed, user, state, session, oauth, cookie, request, late>>
      BY <2>4 DEF CheckAllowed
    <3> QED
      BY <3>1, <3>5, <3>6, <3>7
  <2>5. CASE UpsertUser(l)
    <3>1. /\ login[l].pc = "allowed"
          /\ login[l].sub \in Subs /\ login[l].email \in Emails
      BY <2>5, LoginFields DEF UpsertUser
    <3>2. login'[l] \in LoginStates
      BY <2>5, <3>1 DEF UpsertUser, LoginStates, IdleLogin
    <3>3. user' = [user EXCEPT ![login[l].sub] = login[l].email]
      BY <2>5 DEF UpsertUser
    <3>4. \A g, h \in Subs : g # h /\ user'[g] # NoEmail => user'[g] # user'[h]
      BY <2>5, <3>1, <3>3 DEF UpsertUser
    <3>5. late' \subseteq Sessions
      BY <2>5 DEF UpsertUser
    <3> QED
      BY <2>5, <3>1, <3>2, <3>3, <3>4, <3>5 DEF UpsertUser
  <2>6. ASSUME NEW s \in Sessions, CreateSession(l, s) PROVE TypeOK'
    <3>1. /\ login[l].browser \in Browsers /\ login[l].state \in States
          /\ login[l].sub \in Subs
      BY <2>6, LoginFields DEF CreateSession
    <3>2. late' \subseteq Sessions
      BY <2>6 DEF CreateSession
    <3> QED
      BY <2>1, <2>6, <3>1, <3>2 DEF CreateSession
  <2>7. CASE FailLogin(l)
    BY <2>1, <2>7, LoginFields DEF FailLogin
  <2> QED
    BY <1>6, <2>2, <2>3, <2>4, <2>5, <2>6, <2>7 DEF LoginStep
<1>7. ASSUME NEW r \in Requests, RequestStep(r) PROVE TypeOK'
  <2>1. IdleRequest \in RequestStates
    BY DEF RequestStates
  <2>2. CASE Logout(r)
    <3>1. request[r].browser \in Browsers /\ request[r].session \in Sessions
      BY <2>2, RequestFields DEF Logout
    <3>2. \/ session' = [session EXCEPT ![request[r].session].status =
                           IF @ = "open" THEN "revoked" ELSE @]
          \/ session' = session
      BY <2>2 DEF Logout
    <3>5. /\ request' \in [Requests -> RequestStates]
          /\ \A q \in Requests : request'[q].victims \subseteq request[q].victims
      BY <2>1, <2>2 DEF Logout, IdleRequest
    <3>6. /\ cookie' \in [Browsers -> Sessions \cup {NoSession}]
          /\ UNCHANGED <<allowed, user, state, oauth, login, late, passed>>
      BY <2>2, <3>1 DEF Logout
    <3>3. CASE session' = session
      BY <3>3, <3>5, <3>6
    <3>4. CASE session' = [session EXCEPT ![request[r].session].status =
                             IF @ = "open" THEN "revoked" ELSE @]
      <4> DEFINE Rows == [status : {"unborn", "open", "revoked", "expired"},
                          sub : Subs \cup {NoSub}, from : States \cup {NoState}]
                 k == request[r].session
                 new == [session[k] EXCEPT !.status = IF @ = "open" THEN "revoked" ELSE @]
      <4>0. new \in Rows
        <5>1. PICK x \in Rows : session[k] = x
          BY <3>1
        <5>2. new = [status |-> IF x.status = "open" THEN "revoked" ELSE x.status,
                     sub |-> x.sub, from |-> x.from]
          BY <5>1
        <5> QED
          BY <5>2
      <4>1. session' \in [Sessions -> Rows]
        <5>1. session \in [Sessions -> Rows] /\ k \in Sessions
          BY <3>1
        <5>2. session' = [session EXCEPT ![k] = new]
          BY <3>4
        <5> HIDE DEF Rows, new, k
        <5> QED
          BY <4>0, <5>1, <5>2
      <4>2. \A s \in Sessions : /\ session'[s].status = "unborn" <=> session[s].status = "unborn"
                                /\ session'[s].sub = session[s].sub
        BY <3>1, <3>4
      <4>3. \A s \in Sessions : session'[s].status # "unborn" => session'[s].sub \in Subs
        BY <4>2
      <4>4. \A q \in Requests : \A s \in request'[q].victims : session'[s].status # "unborn"
        BY <3>5, <4>2, RequestFields
      <4> QED
        BY <3>5, <3>6, <4>1, <4>3, <4>4
    <3> QED
      BY <3>2, <3>3, <3>4
  <2>3. CASE AddAllowedEmail(r)
    <3>1. allowed' \subseteq Emails
      BY <2>3, RequestFields DEF AddAllowedEmail
    <3> QED
      BY <2>1, <2>3, <3>1 DEF AddAllowedEmail, IdleRequest
  <2>4. CASE DeleteRow(r)
    <3>1. request'[r] \in RequestStates
      BY <2>1, <2>4, RequestFields DEF DeleteRow, RequestStates
    <3> QED
      BY <2>4, <3>1 DEF DeleteRow, IdleRequest
  <2>5. CASE RevokeSessions(r)
    <3>1. SessionsOf(request[r].email) \subseteq Sessions
      BY DEF SessionsOf
    <3>2. request'[r] = [request[r] EXCEPT !.pc = "revoked", !.victims = SessionsOf(request[r].email)]
      BY <2>5 DEF RevokeSessions
    <3>3. request'[r] \in RequestStates
      BY <2>5, <3>1, <3>2, RequestFields DEF RevokeSessions, RequestStates
    <3>4. passed' \subseteq Subs \X Emails
      <4>1. request[r].email \in Emails
        BY <2>5, RequestFields DEF RevokeSessions
      <4>2. Passing(request[r].email) \subseteq Subs \X Emails
        BY <4>1, LoginFields DEF Passing, PastLookup
      <4> QED
        BY <2>5, <4>2 DEF RevokeSessions
    <3>5. \A q \in Requests : \A s \in request'[q].victims : session'[s].status # "unborn"
      BY <2>5, <3>2 DEF RevokeSessions, SessionsOf, Valid
    <3>6. /\ request' \in [Requests -> RequestStates]
          /\ UNCHANGED <<allowed, user, state, session, oauth, cookie, login, late>>
      BY <2>5, <3>2, <3>3 DEF RevokeSessions
    <3> QED
      BY <3>4, <3>5, <3>6
  <2>6. CASE CommitRemoval(r)
    <3>1. allowed' \subseteq Emails
      BY <2>6 DEF CommitRemoval
    <3>2. session' = [s \in Sessions |-> IF s \in request[r].victims
                                           THEN [session[s] EXCEPT !.status = "revoked"]
                                           ELSE session[s]]
      BY <2>6 DEF CommitRemoval
    <3>3. session' \in [Sessions -> [status : {"unborn", "open", "revoked", "expired"},
                                     sub : Subs \cup {NoSub}, from : States \cup {NoState}]]
      BY <3>2
    <3>4. \A s \in Sessions : /\ session'[s].status = "unborn" => session[s].status = "unborn"
                              /\ session'[s].sub = session[s].sub
      BY <3>2
    <3>5. /\ request' \in [Requests -> RequestStates]
          /\ \A q \in Requests : request'[q].victims \subseteq request[q].victims
      BY <2>1, <2>6 DEF CommitRemoval, IdleRequest
    <3>6. UNCHANGED <<user, state, oauth, cookie, login, late, passed>>
      BY <2>6 DEF CommitRemoval
    <3>7. \A s \in Sessions : session'[s].status # "unborn" => session'[s].sub \in Subs
      <4>1. \A s \in request[r].victims : session[s].sub \in Subs
        BY RequestFields
      <4> QED
        BY <3>2, <4>1
    <3>8. \A q \in Requests : \A s \in request'[q].victims : session'[s].status # "unborn"
      BY <3>4, <3>5, RequestFields
    <3> QED
      BY <3>1, <3>3, <3>5, <3>6, <3>7, <3>8
  <2>7. CASE FailRequest(r)
    BY <2>1, <2>7 DEF FailRequest, IdleRequest
  <2> QED
    BY <1>7, <2>2, <2>3, <2>4, <2>5, <2>6, <2>7 DEF RequestStep
<1>8. ASSUME NEW st \in States, ExpireState(st) PROVE TypeOK'
  BY <1>8 DEF ExpireState
<1>9. ASSUME NEW s \in Sessions, ExpireSession(s) PROVE TypeOK'
  <2>1. session' \in [Sessions -> [status : {"unborn", "open", "revoked", "expired"},
                                   sub : Subs \cup {NoSub}, from : States \cup {NoState}]]
    <3>1. session' = [session EXCEPT ![s].status = "expired"]
      BY <1>9 DEF ExpireSession
    <3>2. [session[s] EXCEPT !.status = "expired"]
            \in [status : {"unborn", "open", "revoked", "expired"},
                 sub : Subs \cup {NoSub}, from : States \cup {NoState}]
      OBVIOUS
    <3> QED
      BY <3>1, <3>2
  <2>2. \A t \in Sessions : /\ session'[t].status = "unborn" => session[t].status = "unborn"
                            /\ session'[t].sub = session[t].sub
    BY <1>9 DEF ExpireSession
  <2>3. \A t \in Sessions : session'[t].status # "unborn" => session'[t].sub \in Subs
    BY <1>9, <2>2 DEF ExpireSession, Valid
  <2>4. \A r \in Requests : \A t \in request[r].victims : session'[t].status # "unborn"
    BY <2>2, RequestFields
  <2> QED
    BY <1>9, <2>1, <2>3, <2>4 DEF ExpireSession
<1>10. CASE Restart
  BY <1>10, AccountsAssumption DEF Restart, LoginStates, RequestStates, IdleRequest
<1>11. CASE UNCHANGED vars
  BY <1>11 DEF vars
<1> QED
  BY <1>1, <1>2, <1>3, <1>4, <1>5, <1>6, <1>7, <1>8, <1>9, <1>10, <1>11 DEF Next

\* Every variable has its type in every reachable state, and two accounts
\* never share an address.
THEOREM TypeCorrect == Spec => []TypeOK
<1>1. Init => TypeOK
  BY InitTypes
<1>2. TypeOK /\ [Next]_vars => TypeOK'
  BY StepTypes
<1> QED
  BY <1>1, <1>2, PTL DEF Spec

(***************************************************************************)
(* A removal closes every session that it could see.                       *)
(***************************************************************************)

LEMMA InitAccess == Init => AccessInv
  BY DEF Init, AccessInv, LateSessionsOnly, RemovalInv, SessionsOf, Valid, IdleRequest

\* A step that opens no session, moves no account, closes no address and
\* takes no session out of `late` keeps the invariant.
LEMMA AccessFrame ==
  ASSUME AccessInv,
         \A s \in Sessions : session'[s].status = "open" =>
           session[s].status = "open" /\ session'[s].sub = session[s].sub,
         user' = user, late \subseteq late', allowed \subseteq allowed',
         \A r \in Requests : request'[r].pc = "revoked" => request'[r] = request[r]
  PROVE  AccessInv'
  BY DEF AccessInv, LateSessionsOnly, RemovalInv, SessionsOf, Valid

\* Every step keeps it: the removal by locking what it sees, the logins by
\* being late when the address is closed.
LEMMA StepAccess == TypeOK /\ AccessInv /\ [Next]_vars => AccessInv'
<1> SUFFICES ASSUME TypeOK, AccessInv, [Next]_vars PROVE AccessInv'
  OBVIOUS
<1>1. ASSUME NEW b \in Browsers, NEW st \in States, Start(b, st) PROVE AccessInv'
  BY <1>1, AccessFrame DEF Start
<1>2. ASSUME NEW b \in Browsers, RefuseCallback(b) PROVE AccessInv'
  BY <1>2, AccessFrame DEF RefuseCallback
<1>3. ASSUME NEW b \in Browsers, ResolveStale(b) PROVE AccessInv'
  BY <1>3, AccessFrame DEF ResolveStale
<1>4. ASSUME NEW b \in Browsers, NEW r \in Requests, Resolve(r, b) PROVE AccessInv'
  BY <1>4, AccessFrame DEF Resolve, IdleRequest, TypeOK
<1>5. ASSUME NEW b \in Browsers, NEW r \in Requests, NEW e \in Emails, ResolveChange(r, b, e)
      PROVE AccessInv'
  BY <1>5, AccessFrame DEF ResolveChange, IdleRequest, TypeOK
<1>6. ASSUME NEW l \in Logins, LoginStep(l) PROVE AccessInv'
  <2>1. ASSUME NEW b \in Browsers, NEW st \in States, Callback(l, b, st) PROVE AccessInv'
    BY <2>1, AccessFrame DEF Callback
  <2>2. CASE ConsumeOAuthState(l)
    BY <2>2, AccessFrame DEF ConsumeOAuthState
  <2>3. CASE CheckAllowed(l)
    BY <2>3, AccessFrame DEF CheckAllowed
  <2>4. CASE UpsertUser(l)
    <3> DEFINE sub == login[l].sub
               e   == login[l].email
    <3>1. /\ user' = [user EXCEPT ![sub] = e]
          /\ late' = IF Closed(e) THEN late \cup {s \in Sessions : session[s].sub = sub} ELSE late
          /\ UNCHANGED <<allowed, session, request>>
      BY <2>4 DEF UpsertUser
    <3>2. sub \in Subs /\ e \in Emails
      BY <2>4, LoginFields DEF UpsertUser
    <3>3. \A s \in Sessions : session[s].sub = sub /\ Valid(s) => user'[session[s].sub] = e
      BY <3>1, <3>2 DEF TypeOK
    <3>4. \A s \in Sessions : session[s].sub # sub => user'[session[s].sub] = user[session[s].sub]
      BY <3>1 DEF TypeOK
    <3>5. LateSessionsOnly'
      BY <3>1, <3>3, <3>4 DEF AccessInv, LateSessionsOnly, Valid, Closed
    <3>6. RemovalInv'
      BY <3>1, <3>3, <3>4 DEF AccessInv, RemovalInv, SessionsOf, Valid, Closed
    <3> QED
      BY <3>5, <3>6 DEF AccessInv
  <2>5. ASSUME NEW s \in Sessions, CreateSession(l, s) PROVE AccessInv'
    <3>1. /\ session' = [session EXCEPT ![s] =
                           [status |-> "open", sub |-> login[l].sub, from |-> login[l].state]]
          /\ late' = IF Closed(user[login[l].sub]) THEN late \cup {s} ELSE late
          /\ UNCHANGED <<allowed, user, request>>
      BY <2>5 DEF CreateSession
    <3>2. session'[s].sub = login[l].sub /\ \A t \in Sessions : t # s => session'[t] = session[t]
      BY <3>1 DEF TypeOK
    <3>3. LateSessionsOnly'
      BY <3>1, <3>2 DEF AccessInv, LateSessionsOnly, Valid, Closed
    <3>4. RemovalInv'
      BY <3>1, <3>2 DEF AccessInv, RemovalInv, SessionsOf, Valid, Closed
    <3> QED
      BY <3>3, <3>4 DEF AccessInv
  <2>6. CASE FailLogin(l)
    BY <2>6, AccessFrame DEF FailLogin
  <2> QED
    BY <1>6, <2>1, <2>2, <2>3, <2>4, <2>5, <2>6 DEF LoginStep
<1>7. ASSUME NEW r \in Requests, RequestStep(r) PROVE AccessInv'
  <2>1. CASE Logout(r)
    <3>1. \/ session' = [session EXCEPT ![request[r].session].status =
                           IF @ = "open" THEN "revoked" ELSE @]
          \/ session' = session
      BY <2>1 DEF Logout
    <3>2. \A s \in Sessions : session'[s].status = "open" =>
            session[s].status = "open" /\ session'[s].sub = session[s].sub
      BY <3>1 DEF TypeOK
    <3> QED
      BY <2>1, <3>2, AccessFrame DEF Logout, IdleRequest, TypeOK
  <2>2. CASE AddAllowedEmail(r)
    BY <2>2, AccessFrame DEF AddAllowedEmail, IdleRequest, TypeOK
  <2>3. CASE DeleteRow(r)
    BY <2>3, AccessFrame DEF DeleteRow, IdleRequest, TypeOK
  <2>4. CASE RevokeSessions(r)
    <3>1. /\ request' = [request EXCEPT ![r].pc = "revoked",
                                       ![r].victims = SessionsOf(request[r].email)]
          /\ UNCHANGED <<allowed, user, session, late>>
      BY <2>4 DEF RevokeSessions
    <3>2. /\ request'[r].email = request[r].email
          /\ request'[r].victims = SessionsOf(request[r].email)
          /\ \A q \in Requests : q # r => request'[q] = request[q]
      BY <3>1 DEF TypeOK, RequestStates, IdleRequest
    <3>3. \A e : SessionsOf(e)' = SessionsOf(e)
      BY <3>1 DEF SessionsOf, Valid
    <3>4. RemovalInv'
      BY <3>1, <3>2, <3>3 DEF AccessInv, RemovalInv
    <3> QED
      BY <3>1, <3>4 DEF AccessInv, LateSessionsOnly, Valid
  <2>5. CASE CommitRemoval(r)
    <3>1. /\ request[r].pc = "revoked"
          /\ allowed' = allowed \ {request[r].email}
          /\ session' = [s \in Sessions |-> IF s \in request[r].victims
                                               THEN [session[s] EXCEPT !.status = "revoked"]
                                               ELSE session[s]]
          /\ request' = [request EXCEPT ![r] = IdleRequest]
          /\ UNCHANGED <<user, late>>
      BY <2>5 DEF CommitRemoval
    <3>2. \A s \in Sessions : session'[s].status = "open" =>
            s \notin request[r].victims /\ session'[s] = session[s]
      BY <3>1 DEF TypeOK
    <3>3. LateSessionsOnly'
      BY <3>1, <3>2 DEF AccessInv, LateSessionsOnly, RemovalInv, SessionsOf, Valid
    <3>4. \A q \in Requests : request'[q].pc = "revoked" => request'[q] = request[q]
      BY <3>1 DEF TypeOK, IdleRequest
    <3>5. RemovalInv'
      BY <3>1, <3>2, <3>4 DEF AccessInv, RemovalInv, SessionsOf, Valid
    <3> QED
      BY <3>3, <3>5 DEF AccessInv
  <2>6. CASE FailRequest(r)
    BY <2>6, AccessFrame DEF FailRequest, IdleRequest, TypeOK
  <2> QED
    BY <1>7, <2>1, <2>2, <2>3, <2>4, <2>5, <2>6 DEF RequestStep
<1>8. ASSUME NEW st \in States, ExpireState(st) PROVE AccessInv'
  BY <1>8, AccessFrame DEF ExpireState
<1>9. ASSUME NEW s \in Sessions, ExpireSession(s) PROVE AccessInv'
  <2>1. session' = [session EXCEPT ![s].status = "expired"]
    BY <1>9 DEF ExpireSession
  <2>2. \A t \in Sessions : session'[t].status = "open" => t # s /\ session'[t] = session[t]
    BY <2>1 DEF TypeOK
  <2> QED
    BY <1>9, <2>2, AccessFrame DEF ExpireSession
<1>10. CASE Restart
  BY <1>10, AccessFrame DEF Restart, IdleRequest
<1>11. CASE UNCHANGED vars
  BY <1>11, AccessFrame DEF vars
<1> QED
  BY <1>1, <1>2, <1>3, <1>4, <1>5, <1>6, <1>7, <1>8, <1>9, <1>10, <1>11 DEF Next

\* A removal closes every session except those that came after its UPDATE.
THEOREM RemovalClosesSessions == Spec => []LateSessionsOnly
<1>1. Init => TypeOK /\ AccessInv
  BY InitTypes, InitAccess
<1>2. TypeOK /\ AccessInv /\ [Next]_vars => TypeOK' /\ AccessInv'
  BY StepTypes, StepAccess
<1>3. AccessInv => LateSessionsOnly
  BY DEF AccessInv
<1> QED
  BY <1>1, <1>2, <1>3, PTL DEF Spec

(***************************************************************************)
(* Who keeps access after a removal had a callback that the removal met.   *)
(***************************************************************************)

LEMMA InitEscape == Init => EscapeInv
  BY DEF Init, EscapeInv, RowInv, AddressInv, PassedInv, Removing, Bears, PastLookup,
         SessionsOf, Valid, IdleLogin, IdleRequest

\* A step that opens no session, moves no account, removes no address and
\* brings neither a callback past the lookup nor a removal to its rows keeps
\* the invariant. A removal that is undone leaves its address allowed.
LEMMA EscapeFrame ==
  ASSUME EscapeInv,
         \A s \in Sessions :
           /\ session'[s].status = "open" => session[s].status = "open"
           /\ session'[s].status # "unborn" =>
                session[s].status # "unborn" /\ session'[s].sub = session[s].sub,
         user' = user, passed' = passed, allowed \subseteq allowed',
         \A l \in Logins : PastLookup(l)' => login'[l] = login[l],
         \A r \in Requests : Removing(r)' => request'[r] = request[r]
  PROVE  EscapeInv'
<1>1. RowInv'
  BY DEF EscapeInv, RowInv, Removing
<1>2. AddressInv'
  BY DEF EscapeInv, AddressInv, PastLookup
<1>3. ASSUME NEW e \in Emails, Closed(e)'
      PROVE  /\ \A l \in Logins : Bears(l, e)' => <<login'[l].sub, e>> \in passed'
             /\ \A s \in SessionsOf(e)' : <<session'[s].sub, e>> \in passed' \/ Caught(s, e)'
  <2>1. Closed(e)
    BY <1>3 DEF Closed, Removing
  <2>2. \A l \in Logins : Bears(l, e)' => Bears(l, e) /\ login'[l] = login[l]
    BY DEF Bears, PastLookup
  <2>3. ASSUME NEW s \in SessionsOf(e)'
        PROVE  s \in SessionsOf(e) /\ session'[s].sub = session[s].sub
    BY <2>3 DEF SessionsOf, Valid
  <2>4. ASSUME NEW s \in Sessions, Caught(s, e) PROVE Caught(s, e)'
    <3>1. PICK r \in Requests : request[r].pc = "revoked" /\ request[r].email = e /\ s \in request[r].victims
      BY <2>4 DEF Caught
    <3>2. e \in allowed'
      BY <3>1 DEF EscapeInv, RowInv, Removing
    <3>3. PICK q \in Requests : request'[q].pc = "revoked" /\ request'[q].email = e
      BY <1>3, <3>2 DEF Closed
    <3>4. request'[q] = request[q]
      BY <3>3 DEF Removing
    <3>5. q = r
      BY <3>1, <3>3, <3>4 DEF EscapeInv, RowInv, Removing
    <3> QED
      BY <3>1, <3>4, <3>5 DEF Caught
  <2>5. \A s \in SessionsOf(e)' : s \in Sessions
    BY DEF SessionsOf
  <2> QED
    BY <2>1, <2>2, <2>3, <2>4, <2>5 DEF EscapeInv, PassedInv
<1> QED
  BY <1>1, <1>2, <1>3 DEF EscapeInv, PassedInv

\* A callback passes the lookup: of an address that is being removed, or that
\* nobody removes.
LEMMA LookupEscape ==
  ASSUME TypeOK, EscapeInv, NEW l \in Logins, CheckAllowed(l)
  PROVE  EscapeInv'
<1>1. PICK p \in Profiles :
        /\ login' = [login EXCEPT ![l].pc = "allowed", ![l].sub = p[1], ![l].email = p[2]]
        /\ passed' = IF Closed(p[2]) THEN passed \cup {p} ELSE passed
  BY DEF CheckAllowed
<1>2. UNCHANGED <<allowed, user, session, request>>
  BY DEF CheckAllowed
<1>3. p = <<p[1], p[2]>>
  BY AccountsAssumption
<1>4. /\ login'[l].pc = "allowed" /\ login'[l].sub = p[1] /\ login'[l].email = p[2]
      /\ \A k \in Logins : k # l => login'[k] = login[k]
  BY <1>1, LoginFields DEF TypeOK
<1>5. RowInv'
  BY <1>2 DEF EscapeInv, RowInv, Removing
<1>6. AddressInv'
  BY <1>2, <1>4 DEF EscapeInv, AddressInv
<1>7. ASSUME NEW e \in Emails, Closed(e)'
      PROVE  /\ \A k \in Logins : Bears(k, e)' => <<login'[k].sub, e>> \in passed'
             /\ \A s \in SessionsOf(e)' : <<session'[s].sub, e>> \in passed' \/ Caught(s, e)'
  <2>1. Closed(e)
    BY <1>2, <1>7 DEF Closed
  <2>2. passed \subseteq passed'
    BY <1>1
  <2>3. \A s \in SessionsOf(e)' : s \in SessionsOf(e) /\ session'[s] = session[s]
    BY <1>2 DEF SessionsOf, Valid
  <2>4. \A s : Caught(s, e) => Caught(s, e)'
    BY <1>2 DEF Caught
  <2>5. \A k \in Logins : k # l /\ Bears(k, e)' => Bears(k, e)
    BY <1>2, <1>4 DEF Bears, PastLookup
  <2>6. Bears(l, e)' => e = p[2]
    BY <1>4 DEF Bears
  <2>7. e = p[2] => <<login'[l].sub, e>> \in passed'
    BY <1>1, <1>3, <1>4, <2>1
  <2> QED
    BY <1>4, <2>1, <2>2, <2>3, <2>4, <2>5, <2>6, <2>7 DEF EscapeInv, PassedInv
<1> QED
  BY <1>5, <1>6, <1>7 DEF EscapeInv, PassedInv

\* An account takes the address of a callback, with the sessions it has.
LEMMA UpsertEscape ==
  ASSUME TypeOK, EscapeInv, NEW l \in Logins, UpsertUser(l)
  PROVE  EscapeInv'
<1> DEFINE sub == login[l].sub
           a   == login[l].email
<1>1. /\ login[l].pc = "allowed"
      /\ user' = [user EXCEPT ![sub] = a]
      /\ login' = [login EXCEPT ![l].pc = "upserted"]
      /\ UNCHANGED <<allowed, session, request, passed>>
  BY DEF UpsertUser
<1>2. sub \in Subs /\ a \in Emails
  BY <1>1, LoginFields
<1>3. /\ user'[sub] = a
      /\ \A g \in Subs : g # sub => user'[g] = user[g]
  BY <1>1, <1>2 DEF TypeOK
<1>4. /\ login'[l].pc = "upserted" /\ login'[l].sub = sub /\ login'[l].email = a
      /\ \A k \in Logins : k # l => login'[k] = login[k]
  BY <1>1, LoginFields DEF TypeOK
<1>5. \A k \in Logins : login'[k].pc = "upserted" => login'[k].sub \in Subs
  BY <1>2, <1>4, LoginFields
<1>6. RowInv'
  BY <1>1 DEF EscapeInv, RowInv, Removing
<1>7. AddressInv'
  BY <1>1, <1>2, <1>3, <1>4, <1>5 DEF EscapeInv, AddressInv, TypeOK
<1>8. ASSUME NEW e \in Emails, Closed(e)'
      PROVE  /\ \A k \in Logins : Bears(k, e)' => <<login'[k].sub, e>> \in passed'
             /\ \A s \in SessionsOf(e)' : <<session'[s].sub, e>> \in passed' \/ Caught(s, e)'
  <2>1. Closed(e)
    BY <1>1, <1>8 DEF Closed
  <2>2. e = a => <<sub, e>> \in passed
    BY <1>1, <2>1 DEF EscapeInv, PassedInv, Bears, PastLookup
  <2>3. ASSUME NEW k \in Logins, Bears(k, e)' PROVE <<login'[k].sub, e>> \in passed'
    <3>1. CASE login'[k].sub = sub /\ e = a
      BY <1>1, <2>2, <3>1
    <3>2. CASE k = l
      BY <1>3, <1>4, <2>3, <3>1, <3>2 DEF Bears
    <3>3. CASE k # l /\ ~(login'[k].sub = sub /\ e = a)
      <4>1. Bears(k, e)
        BY <1>2, <1>3, <1>4, <1>5, <2>3, <3>3 DEF Bears, PastLookup
      <4> QED
        BY <1>1, <1>4, <2>1, <3>3, <4>1 DEF EscapeInv, PassedInv
    <3> QED
      BY <3>1, <3>2, <3>3
  <2>4. ASSUME NEW s \in SessionsOf(e)'
        PROVE  <<session'[s].sub, e>> \in passed' \/ Caught(s, e)'
    <3>1. s \in Sessions /\ session'[s] = session[s] /\ Valid(s) /\ user'[session[s].sub] = e
      BY <1>1, <2>4 DEF SessionsOf, Valid
    <3>2. session[s].sub \in Subs
      BY <3>1 DEF TypeOK, Valid
    <3>3. CASE session[s].sub = sub
      BY <1>1, <1>3, <2>2, <3>1, <3>3
    <3>4. CASE session[s].sub # sub
      <4>1. s \in SessionsOf(e)
        BY <1>3, <3>1, <3>2, <3>4 DEF SessionsOf
      <4>2. Caught(s, e) => Caught(s, e)'
        BY <1>1 DEF Caught
      <4> QED
        BY <1>1, <2>1, <4>1, <4>2 DEF EscapeInv, PassedInv
    <3> QED
      BY <3>3, <3>4
  <2> QED
    BY <2>3, <2>4
<1> QED
  BY <1>6, <1>7, <1>8 DEF EscapeInv, PassedInv

\* A callback opens its session, for the address its account has by now.
LEMMA SessionEscape ==
  ASSUME TypeOK, EscapeInv, NEW l \in Logins, NEW t \in Sessions, CreateSession(l, t)
  PROVE  EscapeInv'
<1>1. /\ login[l].pc = "upserted"
      /\ session' = [session EXCEPT ![t] =
                       [status |-> "open", sub |-> login[l].sub, from |-> login[l].state]]
      /\ login' = [login EXCEPT ![l] = IdleLogin]
      /\ UNCHANGED <<allowed, user, request, passed>>
  BY DEF CreateSession
<1>2. /\ session'[t].sub = login[l].sub
      /\ \A s \in Sessions : s # t => session'[s] = session[s]
  BY <1>1 DEF TypeOK
<1>3. \A k \in Logins : login'[k].pc # "idle" => login'[k] = login[k]
  BY <1>1 DEF TypeOK, IdleLogin
<1>4. RowInv'
  BY <1>1 DEF EscapeInv, RowInv, Removing
<1>5. AddressInv'
  BY <1>1, <1>2, <1>3 DEF EscapeInv, AddressInv
<1>6. ASSUME NEW e \in Emails, Closed(e)'
      PROVE  /\ \A k \in Logins : Bears(k, e)' => <<login'[k].sub, e>> \in passed'
             /\ \A s \in SessionsOf(e)' : <<session'[s].sub, e>> \in passed' \/ Caught(s, e)'
  <2>1. Closed(e)
    BY <1>1, <1>6 DEF Closed
  <2>2. \A k \in Logins : Bears(k, e)' => Bears(k, e) /\ login'[k] = login[k]
    BY <1>1, <1>3 DEF Bears, PastLookup
  <2>3. user[login[l].sub] = e => <<login[l].sub, e>> \in passed
    BY <1>1, <2>1 DEF EscapeInv, PassedInv, Bears
  <2>4. \A s \in SessionsOf(e)' : s # t => s \in SessionsOf(e) /\ session'[s] = session[s]
    BY <1>1, <1>2 DEF SessionsOf, Valid
  <2>5. t \in SessionsOf(e)' => user[login[l].sub] = e
    BY <1>1, <1>2 DEF SessionsOf
  <2>6. \A s : Caught(s, e) => Caught(s, e)'
    BY <1>1 DEF Caught
  <2> QED
    BY <1>1, <1>2, <2>1, <2>2, <2>3, <2>4, <2>5, <2>6 DEF EscapeInv, PassedInv
<1> QED
  BY <1>4, <1>5, <1>6 DEF EscapeInv, PassedInv

\* The statements of a removal: it takes the row, locks the sessions while it
\* meets the callbacks, and commits.
LEMMA RemovalEscape ==
  ASSUME TypeOK, EscapeInv, NEW r \in Requests, DeleteRow(r) \/ RevokeSessions(r) \/ CommitRemoval(r)
  PROVE  EscapeInv'
<1> DEFINE a == request[r].email
<1>1. CASE DeleteRow(r)
  <2>1. /\ request[r].pc = "removing" /\ ~RowLocked(a)
        /\ request' = [request EXCEPT ![r] = IF a \in allowed THEN [@ EXCEPT !.pc = "deleted"] ELSE IdleRequest]
        /\ UNCHANGED <<allowed, user, session, login, passed>>
    BY <1>1 DEF DeleteRow
  <2>2. /\ Removing(r)' => request'[r].email = a /\ a \in allowed
        /\ request'[r].pc # "revoked"
        /\ \A q \in Requests : q # r => request'[q] = request[q]
    BY <2>1, RequestFields DEF TypeOK, Removing, IdleRequest
  <2>3. \A q \in Requests : Removing(q) => request[q].email # a
    BY <2>1 DEF RowLocked, Removing
  <2>4. RowInv'
    BY <2>1, <2>2, <2>3 DEF EscapeInv, RowInv, Removing
  <2>5. AddressInv'
    BY <2>1 DEF EscapeInv, AddressInv
  <2>6. \A e : Closed(e)' => Closed(e)
    BY <2>1, <2>2 DEF Closed
  <2>7. \A s, e : Caught(s, e) => Caught(s, e)'
    BY <2>1, <2>2 DEF Caught
  <2>8. \A e : SessionsOf(e)' = SessionsOf(e)
    BY <2>1 DEF SessionsOf, Valid
  <2>9. \A l \in Logins : \A e : Bears(l, e)' = Bears(l, e)
    BY <2>1 DEF Bears, PastLookup
  <2>10. PassedInv'
    BY <2>1, <2>6, <2>7, <2>8, <2>9 DEF EscapeInv, PassedInv
  <2> QED
    BY <2>4, <2>5, <2>10 DEF EscapeInv
<1>2. CASE RevokeSessions(r)
  <2>1. /\ request[r].pc = "deleted"
        /\ request' = [request EXCEPT ![r].pc = "revoked", ![r].victims = SessionsOf(a)]
        /\ passed' = {p \in passed : p[2] # a} \cup Passing(a)
        /\ UNCHANGED <<allowed, user, session, login>>
    BY <1>2 DEF RevokeSessions
  <2>2. /\ request'[r].pc = "revoked" /\ request'[r].email = a /\ request'[r].victims = SessionsOf(a)
        /\ \A q \in Requests : q # r => request'[q] = request[q]
    BY <2>1, RequestFields DEF TypeOK
  <2>3. RowInv'
    <3> DEFINE H(q) == request[q].pc \in {"deleted", "revoked"}
               A(q) == request[q].email
               N(q) == request'[q].pc \in {"deleted", "revoked"}
               B(q) == request'[q].email
    <3>1. \A q \in Requests : B(q) = A(q) /\ (N(q) => H(q))
      BY <2>1, <2>2
    <3>2. \A p \in Requests : H(p) =>
            A(p) \in allowed /\ \A q \in Requests : q # p /\ H(q) => A(q) # A(p)
      BY DEF EscapeInv, RowInv, Removing
    <3> HIDE DEF H, A, N, B
    <3>3. \A p \in Requests : N(p) =>
            B(p) \in allowed /\ \A q \in Requests : q # p /\ N(q) => B(q) # B(p)
      BY <3>1, <3>2
    <3> QED
      BY <2>1, <3>3 DEF RowInv, Removing, N, B
  <2>4. AddressInv'
    BY <2>1 DEF EscapeInv, AddressInv
  <2>5. \A e : SessionsOf(e)' = SessionsOf(e)
    BY <2>1 DEF SessionsOf, Valid
  <2>6. \A l \in Logins : \A e : Bears(l, e)' = Bears(l, e)
    BY <2>1 DEF Bears, PastLookup
  <2>7. ASSUME NEW e \in Emails, Closed(e)'
        PROVE  /\ \A l \in Logins : Bears(l, e) => <<login[l].sub, e>> \in passed'
               /\ \A s \in SessionsOf(e) : <<session[s].sub, e>> \in passed' \/ Caught(s, e)'
    <3>1. CASE e = a
      <4>1. \A l \in Logins : Bears(l, e) => <<login[l].sub, e>> \in Passing(a)
        BY <3>1 DEF Bears, Passing, PastLookup
      <4>2. \A s \in SessionsOf(e) : Caught(s, e)'
        BY <2>2, <3>1 DEF Caught
      <4> QED
        BY <2>1, <4>1, <4>2
    <3>2. CASE e # a
      <4>1. Closed(e)
        BY <2>1, <2>2, <2>7, <3>2 DEF Closed
      <4>2. \A s : Caught(s, e) => Caught(s, e)'
        BY <2>1, <2>2 DEF Caught
      <4>3. \A g : <<g, e>> \in passed => <<g, e>> \in passed'
        BY <2>1, <3>2
      <4> QED
        BY <4>1, <4>2, <4>3 DEF EscapeInv, PassedInv
    <3> QED
      BY <3>1, <3>2
  <2>8. PassedInv'
    BY <2>1, <2>5, <2>6, <2>7 DEF PassedInv
  <2> QED
    BY <2>3, <2>4, <2>8 DEF EscapeInv
<1>3. CASE CommitRemoval(r)
  <2>1. /\ request[r].pc = "revoked"
        /\ allowed' = allowed \ {a}
        /\ session' = [s \in Sessions |-> IF s \in request[r].victims
                                             THEN [session[s] EXCEPT !.status = "revoked"]
                                             ELSE session[s]]
        /\ request' = [request EXCEPT ![r] = IdleRequest]
        /\ UNCHANGED <<user, login, passed>>
    BY <1>3 DEF CommitRemoval
  <2>2. /\ request'[r].pc = "idle"
        /\ \A q \in Requests : q # r => request'[q] = request[q]
    BY <2>1 DEF TypeOK, IdleRequest
  <2>3. \A q \in Requests : q # r /\ Removing(q) => request[q].email # a
    BY <2>1 DEF EscapeInv, RowInv, Removing
  <2>4. RowInv'
    BY <2>1, <2>2, <2>3 DEF EscapeInv, RowInv, Removing
  <2>5. \A s \in Sessions : /\ session'[s].sub = session[s].sub
                            /\ session'[s].status = "open" => s \notin request[r].victims /\ Valid(s)
    BY <2>1 DEF TypeOK, Valid
  <2>6. \A s \in request[r].victims : session[s].status # "unborn"
    BY DEF TypeOK
  <2>7. \A s \in Sessions : session'[s].status # "unborn" => session[s].status # "unborn"
    BY <2>1, <2>6
  <2>8. AddressInv'
    BY <2>1, <2>5, <2>7 DEF EscapeInv, AddressInv
  <2>9. ASSUME NEW e \in Emails, Closed(e)'
        PROVE  /\ \A l \in Logins : Bears(l, e) => <<login[l].sub, e>> \in passed
               /\ \A s \in SessionsOf(e)' : <<session[s].sub, e>> \in passed \/ Caught(s, e)'
    <3>1. Closed(e)
      BY <2>1, <2>2, <2>9 DEF Closed
    <3>2. \A s \in SessionsOf(e)' : s \in SessionsOf(e) /\ s \notin request[r].victims
      BY <2>1, <2>5 DEF SessionsOf, Valid
    <3>3. ASSUME NEW s, s \notin request[r].victims, Caught(s, e) PROVE Caught(s, e)'
      BY <2>2, <3>3 DEF Caught
    <3> QED
      BY <3>1, <3>2, <3>3 DEF EscapeInv, PassedInv
  <2>10. \A l \in Logins : \A e : Bears(l, e)' = Bears(l, e)
    BY <2>1 DEF Bears, PastLookup
  <2>11. \A e : \A s \in SessionsOf(e)' : s \in Sessions
    BY DEF SessionsOf
  <2>12. PassedInv'
    BY <2>1, <2>5, <2>9, <2>10, <2>11 DEF PassedInv
  <2> QED
    BY <2>4, <2>8, <2>12 DEF EscapeInv
<1> QED
  BY <1>1, <1>2, <1>3

LEMMA StepEscape == TypeOK /\ EscapeInv /\ [Next]_vars => EscapeInv'
<1> SUFFICES ASSUME TypeOK, EscapeInv, [Next]_vars PROVE EscapeInv'
  OBVIOUS
<1> USE DEF PastLookup, Removing
<1>1. ASSUME NEW b \in Browsers, NEW st \in States, Start(b, st) PROVE EscapeInv'
  BY <1>1, EscapeFrame DEF Start
<1>2. ASSUME NEW b \in Browsers, RefuseCallback(b) PROVE EscapeInv'
  BY <1>2, EscapeFrame DEF RefuseCallback
<1>3. ASSUME NEW b \in Browsers, ResolveStale(b) PROVE EscapeInv'
  BY <1>3, EscapeFrame DEF ResolveStale
<1>4. ASSUME NEW b \in Browsers, NEW r \in Requests, Resolve(r, b) PROVE EscapeInv'
  BY <1>4, EscapeFrame DEF Resolve, IdleRequest, TypeOK
<1>5. ASSUME NEW b \in Browsers, NEW r \in Requests, NEW e \in Emails, ResolveChange(r, b, e)
      PROVE EscapeInv'
  BY <1>5, EscapeFrame DEF ResolveChange, IdleRequest, TypeOK
<1>6. ASSUME NEW l \in Logins, LoginStep(l) PROVE EscapeInv'
  <2>1. ASSUME NEW b \in Browsers, NEW st \in States, Callback(l, b, st) PROVE EscapeInv'
    BY <2>1, EscapeFrame DEF Callback, IdleLogin, TypeOK
  <2>2. CASE ConsumeOAuthState(l)
    <3>1. \A k \in Logins : PastLookup(k)' => login'[k] = login[k]
      BY <2>2 DEF ConsumeOAuthState, TypeOK
    <3> QED
      BY <2>2, <3>1, EscapeFrame DEF ConsumeOAuthState
  <2>3. CASE FailLogin(l)
    BY <2>3, EscapeFrame DEF FailLogin, IdleLogin, TypeOK
  <2> QED
    BY <1>6, <2>1, <2>2, <2>3, LookupEscape, UpsertEscape, SessionEscape DEF LoginStep
<1>7. ASSUME NEW r \in Requests, RequestStep(r) PROVE EscapeInv'
  <2>1. CASE Logout(r)
    <3>1. \/ session' = [session EXCEPT ![request[r].session].status =
                           IF @ = "open" THEN "revoked" ELSE @]
          \/ session' = session
      BY <2>1 DEF Logout
    <3>2. \A s \in Sessions :
            /\ session'[s].status = "open" => session[s].status = "open"
            /\ session'[s].status # "unborn" =>
                 session[s].status # "unborn" /\ session'[s].sub = session[s].sub
      BY <3>1 DEF TypeOK
    <3> QED
      BY <2>1, <3>2, EscapeFrame DEF Logout, IdleRequest, TypeOK
  <2>2. CASE AddAllowedEmail(r)
    BY <2>2, EscapeFrame DEF AddAllowedEmail, IdleRequest, TypeOK
  <2>3. CASE FailRequest(r)
    BY <2>3, EscapeFrame DEF FailRequest, IdleRequest, TypeOK
  <2> QED
    BY <1>7, <2>1, <2>2, <2>3, RemovalEscape DEF RequestStep
<1>8. ASSUME NEW st \in States, ExpireState(st) PROVE EscapeInv'
  BY <1>8, EscapeFrame DEF ExpireState
<1>9. ASSUME NEW s \in Sessions, ExpireSession(s) PROVE EscapeInv'
  <2>1. session' = [session EXCEPT ![s].status = "expired"] /\ session[s].status = "open"
    BY <1>9 DEF ExpireSession, Valid
  <2>2. \A t \in Sessions :
          /\ session'[t].status = "open" => session[t].status = "open"
          /\ session'[t].status # "unborn" =>
               session[t].status # "unborn" /\ session'[t].sub = session[t].sub
    BY <2>1 DEF TypeOK
  <2> QED
    BY <1>9, <2>2, EscapeFrame DEF ExpireSession
<1>10. CASE Restart
  BY <1>10, EscapeFrame DEF Restart, IdleLogin, IdleRequest
<1>11. CASE UNCHANGED vars
  BY <1>11, EscapeFrame DEF vars
<1> QED
  BY <1>1, <1>2, <1>3, <1>4, <1>5, <1>6, <1>7, <1>8, <1>9, <1>10, <1>11 DEF Next

\* Only the callbacks that a removal met, past the whitelist lookup, leave
\* access to an account whose address was removed.
THEOREM RemovalMissesPassedOnly == Spec => []EscapedHadPassed
<1>1. Init => TypeOK /\ EscapeInv
  BY InitTypes, InitEscape
<1>2. TypeOK /\ EscapeInv /\ [Next]_vars => TypeOK' /\ EscapeInv'
  BY StepTypes, StepEscape
<1>3. EscapeInv => EscapedHadPassed
  <2> SUFFICES ASSUME EscapeInv, NEW s \in Sessions, Valid(s), user[session[s].sub] \notin allowed
               PROVE  <<session[s].sub, user[session[s].sub]>> \in passed
    BY DEF EscapedHadPassed
  <2> DEFINE e == user[session[s].sub]
  <2>1. e \in Emails
    BY DEF EscapeInv, AddressInv, Valid
  <2>2. Closed(e) /\ s \in SessionsOf(e)
    BY DEF Closed, SessionsOf
  <2>3. ~Caught(s, e)
    BY DEF EscapeInv, RowInv, Caught, Removing
  <2> QED
    BY <2>1, <2>2, <2>3 DEF EscapeInv, PassedInv
<1> QED
  BY <1>1, <1>2, <1>3, PTL DEF Spec

(***************************************************************************)
(* An OAuth state is good for one session, in the browser it was sent to.  *)
(***************************************************************************)

LEMMA InitStates == Init => StatesInv /\ BrowserInv
  BY DEF Init, StatesInv, OneSessionPerState, Holds, BrowserInv, BrowserBound, IdleLogin

\* A step that creates no session, gives no state to a callback and takes no
\* consumption back keeps the invariant.
LEMMA StatesFrame ==
  ASSUME TypeOK, StatesInv,
         \A s \in Sessions : session'[s].status # "unborn" =>
           session[s].status # "unborn" /\ session'[s].from = session[s].from,
         \A st \in States : state[st].status = "consumed" => state'[st].status = "consumed",
         \A l \in Logins : login'[l].pc \in {"consumed", "allowed", "upserted"} =>
           Holds(l) /\ login'[l].state = login[l].state
  PROVE  StatesInv'
<1>1. \A l \in Logins : Holds(l)' => Holds(l) /\ login[l].state \in States
                                   /\ login'[l].state = login[l].state
  BY LoginFields DEF Holds
<1>2. OneSessionPerState'
  BY DEF StatesInv, OneSessionPerState
<1>3. \A s \in Sessions : session'[s].status # "unborn" =>
        session'[s].from \in States /\ state'[session'[s].from].status = "consumed"
  BY DEF StatesInv
<1>4. ASSUME NEW l \in Logins, Holds(l)'
      PROVE  /\ state'[login'[l].state].status = "consumed"
             /\ \A s \in Sessions : session'[s].status # "unborn" => session'[s].from # login'[l].state
             /\ \A k \in Logins : k # l /\ Holds(k)' => login'[k].state # login'[l].state
  BY <1>1, <1>4 DEF StatesInv
<1> QED
  BY <1>2, <1>3, <1>4 DEF StatesInv

\* A step that issues no state, starts no callback and creates no session
\* keeps the other one.
LEMMA BrowserFrame ==
  ASSUME TypeOK, BrowserInv,
         \A b \in Browsers : cookie'[b] \in {cookie[b], NoSession},
         \A b \in Browsers : oauth'[b] \in {oauth[b], NoState},
         \A s \in Sessions : session[s].status # "unborn" =>
           session'[s].status # "unborn" /\ session'[s].from = session[s].from,
         \A st \in States : state[st].status # "unborn" =>
           state'[st].status # "unborn" /\ state'[st].browser = state[st].browser,
         \A l \in Logins : login'[l].pc # "idle" =>
           /\ login[l].pc # "idle"
           /\ login'[l].state = login[l].state /\ login'[l].browser = login[l].browser
  PROVE  BrowserInv'
<1>1. \A b \in Browsers : cookie'[b] # NoSession => cookie'[b] = cookie[b] /\ cookie[b] \in Sessions
  BY DEF TypeOK
<1>2. \A b \in Browsers : oauth'[b] # NoState => oauth'[b] = oauth[b] /\ oauth[b] \in States
  BY DEF TypeOK
<1>3. ASSUME NEW b \in Browsers, cookie'[b] # NoSession
      PROVE  /\ state'[session'[cookie'[b]].from].browser = b
             /\ session'[cookie'[b]].status # "unborn" /\ session'[cookie'[b]].from \in States
             /\ state'[session'[cookie'[b]].from].status # "unborn"
  <2> DEFINE s == cookie[b]
  <2>1. s \in Sessions /\ s # NoSession /\ cookie'[b] = s
    BY <1>1, <1>3
  <2>2. /\ state[session[s].from].browser = b
        /\ session[s].status # "unborn" /\ session[s].from \in States
        /\ state[session[s].from].status # "unborn"
    BY <2>1 DEF BrowserInv, BrowserBound
  <2> QED
    BY <2>1, <2>2
<1>4. ASSUME NEW b \in Browsers, oauth'[b] # NoState
      PROVE  state'[oauth'[b]].browser = b /\ state'[oauth'[b]].status # "unborn"
  BY <1>2, <1>4 DEF BrowserInv
<1>5. ASSUME NEW l \in Logins, login'[l].pc # "idle"
      PROVE  state'[login'[l].state].browser = login'[l].browser /\ state'[login'[l].state].status # "unborn"
  <2>1. login[l].pc # "idle" /\ login[l].state \in States
    BY <1>5, LoginFields
  <2> QED
    BY <1>5, <2>1 DEF BrowserInv
<1> QED
  BY <1>3, <1>4, <1>5 DEF BrowserInv, BrowserBound

\* What the requests, the clock and a restart do to sessions, states and
\* callbacks: nothing that the two frames forbid.
LEMMA OtherSteps ==
  ASSUME TypeOK,
         \/ \E r \in Requests : RequestStep(r)
         \/ \E b \in Browsers : RefuseCallback(b) \/ ResolveStale(b)
         \/ \E b \in Browsers, r \in Requests : Resolve(r, b) \/ \E e \in Emails : ResolveChange(r, b, e)
         \/ \E st \in States : ExpireState(st)
         \/ \E s \in Sessions : ExpireSession(s)
         \/ Restart
         \/ UNCHANGED vars
  PROVE  /\ \A b \in Browsers : cookie'[b] \in {cookie[b], NoSession}
         /\ \A b \in Browsers : oauth'[b] \in {oauth[b], NoState}
         /\ \A s \in Sessions : /\ session'[s].status # "unborn" => session[s].status # "unborn"
                                /\ session[s].status # "unborn" => session'[s].status # "unborn"
                                 /\ session'[s].from = session[s].from
         /\ \A st \in States : /\ state[st].status = "consumed" => state'[st].status = "consumed"
                               /\ state[st].status # "unborn" => state'[st].status # "unborn"
                               /\ state'[st].browser = state[st].browser
         /\ \A l \in Logins : login'[l] = login[l] \/ login'[l].pc = "idle"
<1> USE DEF TypeOK
<1>1. CASE \E r \in Requests : RequestStep(r)
  <2>1. PICK r \in Requests : RequestStep(r)
    BY <1>1
  <2>2. UNCHANGED <<oauth, state, login>>
    BY <2>1 DEF RequestStep, Logout, AddAllowedEmail, DeleteRow, RevokeSessions, CommitRemoval, FailRequest
  <2>3. \A b \in Browsers : cookie'[b] \in {cookie[b], NoSession}
    BY <2>1 DEF RequestStep, Logout, AddAllowedEmail, DeleteRow, RevokeSessions, CommitRemoval, FailRequest
  <2>4. \A s \in Sessions : /\ session'[s].status # "unborn" => session[s].status # "unborn"
                            /\ session[s].status # "unborn" => session'[s].status # "unborn"
                            /\ session'[s].from = session[s].from
    <3>1. CASE Logout(r)
      <4>1. \/ session' = [session EXCEPT ![request[r].session].status =
                             IF @ = "open" THEN "revoked" ELSE @]
            \/ session' = session
        BY <3>1 DEF Logout
      <4>2. CASE session' = session
        BY <4>2
      <4>3. CASE session' = [session EXCEPT ![request[r].session].status =
                               IF @ = "open" THEN "revoked" ELSE @]
        BY <4>3
      <4> QED
        BY <4>1, <4>2, <4>3
    <3>2. CASE CommitRemoval(r)
      <4>1. session' = [s \in Sessions |-> IF s \in request[r].victims
                                             THEN [session[s] EXCEPT !.status = "revoked"]
                                             ELSE session[s]]
        BY <3>2 DEF CommitRemoval
      <4>2. \A s \in request[r].victims : session[s].status # "unborn"
        OBVIOUS
      <4>3. \A s \in Sessions : /\ s \in request[r].victims =>
                                     session'[s].status = "revoked" /\ session'[s].from = session[s].from
                                /\ s \notin request[r].victims => session'[s] = session[s]
        BY <4>1
      <4> QED
        BY <4>2, <4>3
    <3>3. CASE AddAllowedEmail(r) \/ DeleteRow(r) \/ RevokeSessions(r) \/ FailRequest(r)
      BY <3>3 DEF AddAllowedEmail, DeleteRow, RevokeSessions, FailRequest
    <3> QED
      BY <2>1, <3>1, <3>2, <3>3 DEF RequestStep
  <2> QED
    BY <2>2, <2>3, <2>4
<1>2. CASE \E b \in Browsers : RefuseCallback(b) \/ ResolveStale(b)
  BY <1>2 DEF RefuseCallback, ResolveStale
<1>3. CASE \E b \in Browsers, r \in Requests : Resolve(r, b) \/ \E e \in Emails : ResolveChange(r, b, e)
  BY <1>3 DEF Resolve, ResolveChange
<1>4. CASE \E st \in States : ExpireState(st)
  BY <1>4 DEF ExpireState
<1>5. CASE \E s \in Sessions : ExpireSession(s)
  BY <1>5 DEF ExpireSession, Valid
<1>6. CASE Restart
  BY <1>6 DEF Restart, IdleLogin
<1>7. CASE UNCHANGED vars
  BY <1>7 DEF vars
<1> QED
  BY <1>1, <1>2, <1>3, <1>4, <1>5, <1>6, <1>7

\* A callback works on one OAuth state, which it consumes before it opens its
\* session.
LEMMA StepStates == TypeOK /\ StatesInv /\ [Next]_vars => StatesInv'
<1> SUFFICES ASSUME TypeOK, StatesInv, [Next]_vars PROVE StatesInv'
  OBVIOUS
<1>1. ASSUME NEW b \in Browsers, NEW st \in States, Start(b, st) PROVE StatesInv'
  <2>1. \A x \in States : state[x].status = "consumed" => state'[x].status = "consumed"
    BY <1>1 DEF Start, TypeOK
  <2> QED
    BY <1>1, <2>1, StatesFrame DEF Start, Holds
<1>2. ASSUME NEW l \in Logins, LoginStep(l) PROVE StatesInv'
  <2>1. ASSUME NEW b \in Browsers, NEW st \in States, Callback(l, b, st) PROVE StatesInv'
    <3>1. \A k \in Logins : k # l => login'[k] = login[k]
      BY <2>1 DEF Callback, TypeOK
    <3>2. login'[l].pc = "compared"
      BY <2>1 DEF Callback, TypeOK, IdleLogin
    <3> QED
      BY <2>1, <3>1, <3>2, StatesFrame DEF Callback, Holds
  <2>2. CASE ConsumeOAuthState(l)
    <3> DEFINE st == login[l].state
    <3>1. st \in States /\ state[st].status = "issued"
      BY <2>2, LoginFields DEF ConsumeOAuthState
    <3>2. /\ state' = [state EXCEPT ![st].status = "consumed"]
          /\ login' = [login EXCEPT ![l].pc = "consumed"]
          /\ session' = session
      BY <2>2 DEF ConsumeOAuthState
    <3>3. /\ state'[st].status = "consumed"
          /\ \A x \in States : x # st => state'[x] = state[x]
      BY <3>1, <3>2 DEF TypeOK
    <3>4. /\ login'[l].state = st
          /\ \A k \in Logins : k # l => login'[k] = login[k]
      BY <3>2 DEF TypeOK, LoginStates, IdleLogin
    <3>5. \A s \in Sessions : session[s].status # "unborn" => session[s].from # st
      BY <3>1 DEF StatesInv
    <3>6. \A k \in Logins : Holds(k) => login[k].state # st /\ login[k].state \in States
      BY <3>1, LoginFields DEF StatesInv, Holds
    <3>7. OneSessionPerState'
      BY <3>2 DEF StatesInv, OneSessionPerState
    <3>8. \A s \in Sessions : session'[s].status # "unborn" =>
            session'[s].from \in States /\ state'[session'[s].from].status = "consumed"
      BY <3>2, <3>3, <3>5 DEF StatesInv
    <3>9. ASSUME NEW k \in Logins, Holds(k)'
          PROVE  /\ state'[login'[k].state].status = "consumed"
                 /\ \A s \in Sessions : session'[s].status # "unborn" => session'[s].from # login'[k].state
                 /\ \A j \in Logins : j # k /\ Holds(j)' => login'[j].state # login'[k].state
      <4>1. \A j \in Logins : j # l => (Holds(j)' <=> Holds(j)) /\ login'[j].state = login[j].state
        BY <3>4 DEF Holds
      <4>2. CASE k = l
        BY <3>2, <3>3, <3>4, <3>5, <3>6, <4>1, <4>2
      <4>3. CASE k # l
        <5>1. /\ Holds(k) /\ login'[k].state = login[k].state
              /\ login[k].state # st /\ login[k].state \in States
          BY <3>6, <3>9, <4>1, <4>3
        <5> QED
          BY <3>2, <3>3, <3>4, <4>1, <5>1 DEF StatesInv
      <4> QED
        BY <4>2, <4>3
    <3> QED
      BY <3>7, <3>8, <3>9 DEF StatesInv
  <2>3. CASE CheckAllowed(l)
    <3>1. PICK p \in Profiles :
            login' = [login EXCEPT ![l].pc = "allowed", ![l].sub = p[1], ![l].email = p[2]]
      BY <2>3 DEF CheckAllowed
    <3>2. /\ login'[l].state = login[l].state
          /\ \A k \in Logins : k # l => login'[k] = login[k]
      BY <3>1 DEF TypeOK, LoginStates, IdleLogin
    <3> QED
      BY <2>3, <3>2, StatesFrame DEF CheckAllowed, Holds
  <2>4. CASE UpsertUser(l)
    <3>1. login' = [login EXCEPT ![l].pc = "upserted"]
      BY <2>4 DEF UpsertUser
    <3>2. /\ login'[l].state = login[l].state
          /\ \A k \in Logins : k # l => login'[k] = login[k]
      BY <3>1 DEF TypeOK, LoginStates, IdleLogin
    <3> QED
      BY <2>4, <3>2, StatesFrame DEF UpsertUser, Holds
  <2>5. ASSUME NEW s \in Sessions, CreateSession(l, s) PROVE StatesInv'
    <3> DEFINE st == login[l].state
    <3>1. /\ login[l].pc = "upserted" /\ session[s].status = "unborn"
          /\ session' = [session EXCEPT ![s] = [status |-> "open", sub |-> login[l].sub, from |-> st]]
          /\ login' = [login EXCEPT ![l] = IdleLogin]
          /\ state' = state
      BY <2>5 DEF CreateSession
    <3>2. /\ st \in States /\ state[st].status = "consumed"
          /\ \A t \in Sessions : session[t].status # "unborn" => session[t].from # st
          /\ \A k \in Logins : k # l /\ Holds(k) => login[k].state # st
      BY <3>1, LoginFields DEF StatesInv, Holds
    <3>3. /\ session'[s].from = st
          /\ \A t \in Sessions : t # s => session'[t] = session[t]
      BY <3>1 DEF TypeOK
    <3>4. /\ ~Holds(l)'
          /\ \A k \in Logins : k # l => login'[k] = login[k] /\ (Holds(k)' <=> Holds(k))
      BY <3>1 DEF TypeOK, Holds, IdleLogin
    <3>5. OneSessionPerState'
      BY <3>2, <3>3 DEF StatesInv, OneSessionPerState
    <3>6. \A t \in Sessions : session'[t].status # "unborn" =>
            session'[t].from \in States /\ state'[session'[t].from].status = "consumed"
      BY <3>1, <3>2, <3>3 DEF StatesInv
    <3>7. ASSUME NEW k \in Logins, Holds(k)'
          PROVE  /\ state'[login'[k].state].status = "consumed"
                 /\ \A t \in Sessions : session'[t].status # "unborn" => session'[t].from # login'[k].state
                 /\ \A j \in Logins : j # k /\ Holds(j)' => login'[j].state # login'[k].state
      <4>1. k # l /\ Holds(k) /\ login'[k] = login[k] /\ login[k].state # st
        BY <3>2, <3>4, <3>7
      <4> QED
        BY <3>1, <3>3, <3>4, <4>1 DEF StatesInv
    <3> QED
      BY <3>5, <3>6, <3>7 DEF StatesInv
  <2>6. CASE FailLogin(l)
    <3>1. \A k \in Logins : login'[k] = login[k] \/ login'[k].pc = "idle"
      BY <2>6 DEF FailLogin, TypeOK, IdleLogin
    <3> QED
      BY <2>6, <3>1, StatesFrame DEF FailLogin, Holds
  <2> QED
    BY <1>2, <2>1, <2>2, <2>3, <2>4, <2>5, <2>6 DEF LoginStep
<1>3. CASE \/ \E r \in Requests : RequestStep(r)
           \/ \E b \in Browsers : RefuseCallback(b) \/ ResolveStale(b)
           \/ \E b \in Browsers, r \in Requests : Resolve(r, b) \/ \E e \in Emails : ResolveChange(r, b, e)
           \/ \E st \in States : ExpireState(st)
           \/ \E s \in Sessions : ExpireSession(s)
           \/ Restart
           \/ UNCHANGED vars
  <2>1. /\ \A b \in Browsers : cookie'[b] \in {cookie[b], NoSession}
        /\ \A b \in Browsers : oauth'[b] \in {oauth[b], NoState}
        /\ \A s \in Sessions : /\ session'[s].status # "unborn" => session[s].status # "unborn"
                               /\ session[s].status # "unborn" => session'[s].status # "unborn"
                                /\ session'[s].from = session[s].from
        /\ \A st \in States : /\ state[st].status = "consumed" => state'[st].status = "consumed"
                              /\ state[st].status # "unborn" => state'[st].status # "unborn"
                              /\ state'[st].browser = state[st].browser
        /\ \A l \in Logins : login'[l] = login[l] \/ login'[l].pc = "idle"
    BY <1>3, OtherSteps
  <2>2. \A l \in Logins : login'[l].pc \in {"consumed", "allowed", "upserted"} =>
          Holds(l) /\ login'[l].state = login[l].state
    BY <2>1 DEF Holds
  <2>3. \A s \in Sessions : session'[s].status # "unborn" =>
          session[s].status # "unborn" /\ session'[s].from = session[s].from
    BY <2>1
  <2>4. \A st \in States : state[st].status = "consumed" => state'[st].status = "consumed"
    BY <2>1
  <2> QED
    BY <2>2, <2>3, <2>4, StatesFrame
<1> QED
  BY <1>1, <1>2, <1>3 DEF Next

\* A session reaches the browser its login was started in.
LEMMA StepBrowsers == TypeOK /\ BrowserInv /\ [Next]_vars => BrowserInv'
<1> SUFFICES ASSUME TypeOK, BrowserInv, [Next]_vars PROVE BrowserInv'
  OBVIOUS
<1>1. ASSUME NEW b \in Browsers, NEW st \in States, Start(b, st) PROVE BrowserInv'
  <2>1. /\ state[st].status = "unborn"
        /\ state' = [state EXCEPT ![st] = [status |-> "issued", browser |-> b]]
        /\ oauth' = [oauth EXCEPT ![b] = st]
        /\ UNCHANGED <<session, cookie, login>>
    BY <1>1 DEF Start
  <2>2. /\ state'[st].status = "issued" /\ state'[st].browser = b
        /\ \A x \in States : x # st => state'[x] = state[x]
    BY <2>1 DEF TypeOK
  <2>3. \A x \in States : state[x].status # "unborn" => state'[x] = state[x]
    BY <2>1, <2>2
  <2>4. \A c \in Browsers : cookie[c] # NoSession => session[cookie[c]].from \in States
    BY DEF BrowserInv
  <2>5. BrowserBound'
    BY <2>1, <2>3, <2>4 DEF BrowserInv, BrowserBound
  <2>6. \A c \in Browsers : cookie'[c] # NoSession =>
          /\ session'[cookie'[c]].status # "unborn" /\ session'[cookie'[c]].from \in States
          /\ state'[session'[cookie'[c]].from].status # "unborn"
    BY <2>1, <2>3, <2>4 DEF BrowserInv
  <2>7. ASSUME NEW c \in Browsers, oauth'[c] # NoState
        PROVE  state'[oauth'[c]].browser = c /\ state'[oauth'[c]].status # "unborn"
    <3>1. CASE c = b
      BY <2>1, <2>2, <3>1 DEF TypeOK
    <3>2. CASE c # b
      <4>1. oauth'[c] = oauth[c] /\ oauth[c] \in States
        BY <2>1, <2>7, <3>2 DEF TypeOK
      <4> QED
        BY <2>3, <2>7, <4>1 DEF BrowserInv
    <3> QED
      BY <3>1, <3>2
  <2>8. \A l \in Logins : login'[l].pc # "idle" =>
          /\ state'[login'[l].state].browser = login'[l].browser
          /\ state'[login'[l].state].status # "unborn"
    BY <2>1, <2>3, LoginFields DEF BrowserInv
  <2> QED
    BY <2>5, <2>6, <2>7, <2>8 DEF BrowserInv
<1>2. ASSUME NEW l \in Logins, LoginStep(l) PROVE BrowserInv'
  <2>1. ASSUME NEW b \in Browsers, NEW st \in States, Callback(l, b, st) PROVE BrowserInv'
    <3>1. /\ oauth[b] = st /\ state[st].status # "unborn"
          /\ login' = [login EXCEPT ![l] = [IdleLogin EXCEPT !.pc = "compared", !.browser = b, !.state = st]]
          /\ UNCHANGED <<state, session, oauth, cookie>>
      BY <2>1 DEF Callback
    <3>2. state[st].browser = b
      BY <3>1, TokensAssumption DEF BrowserInv
    <3>3. /\ login'[l].state = st /\ login'[l].browser = b
          /\ \A k \in Logins : k # l => login'[k] = login[k]
      BY <3>1 DEF TypeOK, IdleLogin
    <3> QED
      BY <3>1, <3>2, <3>3 DEF BrowserInv, BrowserBound
  <2>2. CASE ConsumeOAuthState(l)
    <3>1. /\ state' = [state EXCEPT ![login[l].state].status = "consumed"]
          /\ login' = [login EXCEPT ![l].pc = "consumed"]
          /\ login[l].pc = "compared"
          /\ UNCHANGED <<session, oauth, cookie>>
      BY <2>2 DEF ConsumeOAuthState
    <3>2. \A x \in States : state[x].status # "unborn" =>
            state'[x].status # "unborn" /\ state'[x].browser = state[x].browser
      BY <3>1 DEF TypeOK
    <3>3. \A k \in Logins : login'[k].pc # "idle" =>
            /\ login[k].pc # "idle"
            /\ login'[k].state = login[k].state /\ login'[k].browser = login[k].browser
      BY <3>1 DEF TypeOK, LoginStates, IdleLogin
    <3> QED
      BY <3>1, <3>2, <3>3, BrowserFrame
  <2>3. CASE CheckAllowed(l)
    <3>1. PICK p \in Profiles :
            login' = [login EXCEPT ![l].pc = "allowed", ![l].sub = p[1], ![l].email = p[2]]
      BY <2>3 DEF CheckAllowed
    <3>2. login[l].pc = "consumed" /\ UNCHANGED <<state, session, oauth, cookie>>
      BY <2>3 DEF CheckAllowed
    <3>3. \A k \in Logins : login'[k].pc # "idle" =>
            /\ login[k].pc # "idle"
            /\ login'[k].state = login[k].state /\ login'[k].browser = login[k].browser
      BY <3>1, <3>2 DEF TypeOK, LoginStates, IdleLogin
    <3> QED
      BY <3>2, <3>3, BrowserFrame
  <2>4. CASE UpsertUser(l)
    <3>1. /\ login' = [login EXCEPT ![l].pc = "upserted"]
          /\ login[l].pc = "allowed"
          /\ UNCHANGED <<state, session, oauth, cookie>>
      BY <2>4 DEF UpsertUser
    <3>2. \A k \in Logins : login'[k].pc # "idle" =>
            /\ login[k].pc # "idle"
            /\ login'[k].state = login[k].state /\ login'[k].browser = login[k].browser
      BY <3>1 DEF TypeOK, LoginStates, IdleLogin
    <3> QED
      BY <3>1, <3>2, BrowserFrame
  <2>5. ASSUME NEW s \in Sessions, CreateSession(l, s) PROVE BrowserInv'
    <3> DEFINE b == login[l].browser
               st == login[l].state
    <3>1. /\ login[l].pc = "upserted" /\ session[s].status = "unborn"
          /\ session' = [session EXCEPT ![s] = [status |-> "open", sub |-> login[l].sub, from |-> st]]
          /\ cookie' = [cookie EXCEPT ![b] = s]
          /\ oauth' = [oauth EXCEPT ![b] = NoState]
          /\ login' = [login EXCEPT ![l] = IdleLogin]
          /\ state' = state
      BY <2>5 DEF CreateSession
    <3>2. /\ b \in Browsers /\ st \in States
          /\ state[st].browser = b /\ state[st].status # "unborn"
      BY <3>1, LoginFields DEF BrowserInv
    <3>3. /\ session'[s].from = st /\ session'[s].status = "open"
          /\ \A t \in Sessions : t # s => session'[t] = session[t]
      BY <3>1 DEF TypeOK
    <3>4. ASSUME NEW c \in Browsers, cookie'[c] # NoSession
          PROVE  /\ state'[session'[cookie'[c]].from].browser = c
                 /\ session'[cookie'[c]].status # "unborn" /\ session'[cookie'[c]].from \in States
                 /\ state'[session'[cookie'[c]].from].status # "unborn"
      <4>1. CASE c = b
        <5>1. cookie'[c] = s
          BY <3>1, <3>2, <4>1 DEF TypeOK
        <5> QED
          BY <3>1, <3>2, <3>3, <4>1, <5>1
      <4>2. CASE c # b
        <5>1. cookie'[c] = cookie[c] /\ cookie[c] \in Sessions /\ cookie[c] # NoSession
          BY <3>1, <3>4, <4>2 DEF TypeOK
        <5>2. session[cookie[c]].status # "unborn" /\ cookie[c] # s
          BY <3>1, <5>1 DEF BrowserInv
        <5> QED
          BY <3>1, <3>3, <5>1, <5>2 DEF BrowserInv, BrowserBound
      <4> QED
        BY <4>1, <4>2
    <3>5. \A c \in Browsers : oauth'[c] # NoState => oauth'[c] = oauth[c]
      BY <3>1 DEF TypeOK
    <3>6. \A k \in Logins : login'[k].pc # "idle" => login'[k] = login[k]
      BY <3>1 DEF TypeOK, IdleLogin
    <3> QED
      BY <3>1, <3>4, <3>5, <3>6 DEF BrowserInv, BrowserBound
  <2>6. CASE FailLogin(l)
    <3>1. \A k \in Logins : login'[k] = login[k] \/ login'[k].pc = "idle"
      BY <2>6 DEF FailLogin, TypeOK, IdleLogin
    <3>2. \A c \in Browsers : oauth'[c] \in {oauth[c], NoState}
      BY <2>6 DEF FailLogin, TypeOK
    <3> QED
      BY <2>6, <3>1, <3>2, BrowserFrame DEF FailLogin
  <2> QED
    BY <1>2, <2>1, <2>2, <2>3, <2>4, <2>5, <2>6 DEF LoginStep
<1>3. CASE \/ \E r \in Requests : RequestStep(r)
           \/ \E b \in Browsers : RefuseCallback(b) \/ ResolveStale(b)
           \/ \E b \in Browsers, r \in Requests : Resolve(r, b) \/ \E e \in Emails : ResolveChange(r, b, e)
           \/ \E st \in States : ExpireState(st)
           \/ \E s \in Sessions : ExpireSession(s)
           \/ Restart
           \/ UNCHANGED vars
  <2>1. /\ \A b \in Browsers : cookie'[b] \in {cookie[b], NoSession}
        /\ \A b \in Browsers : oauth'[b] \in {oauth[b], NoState}
        /\ \A s \in Sessions : /\ session'[s].status # "unborn" => session[s].status # "unborn"
                               /\ session[s].status # "unborn" => session'[s].status # "unborn"
                                /\ session'[s].from = session[s].from
        /\ \A st \in States : /\ state[st].status = "consumed" => state'[st].status = "consumed"
                              /\ state[st].status # "unborn" => state'[st].status # "unborn"
                              /\ state'[st].browser = state[st].browser
        /\ \A l \in Logins : login'[l] = login[l] \/ login'[l].pc = "idle"
    BY <1>3, OtherSteps
  <2>2. \A l \in Logins : login'[l].pc # "idle" =>
          /\ login[l].pc # "idle"
          /\ login'[l].state = login[l].state /\ login'[l].browser = login[l].browser
    BY <2>1
  <2>3. \A s \in Sessions : session[s].status # "unborn" =>
          session'[s].status # "unborn" /\ session'[s].from = session[s].from
    BY <2>1
  <2>4. \A st \in States : state[st].status # "unborn" =>
          state'[st].status # "unborn" /\ state'[st].browser = state[st].browser
    BY <2>1
  <2> QED
    BY <2>1, <2>2, <2>3, <2>4, BrowserFrame
<1> QED
  BY <1>1, <1>2, <1>3 DEF Next

\* One OAuth state opens one session at most, however often and however
\* simultaneously its callback is sent.
THEOREM StatesAreSingleUse == Spec => []OneSessionPerState
<1>1. Init => TypeOK /\ StatesInv
  BY InitTypes, InitStates
<1>2. TypeOK /\ StatesInv /\ [Next]_vars => TypeOK' /\ StatesInv'
  BY StepTypes, StepStates
<1>3. StatesInv => OneSessionPerState
  BY DEF StatesInv
<1> QED
  BY <1>1, <1>2, <1>3, PTL DEF Spec

\* A browser only ever carries a session that a login of its own opened.
THEOREM LoginsStayInTheirBrowser == Spec => []BrowserBound
<1>1. Init => TypeOK /\ BrowserInv
  BY InitTypes, InitStates
<1>2. TypeOK /\ BrowserInv /\ [Next]_vars => TypeOK' /\ BrowserInv'
  BY StepTypes, StepBrowsers
<1>3. BrowserInv => BrowserBound
  BY DEF BrowserInv
<1> QED
  BY <1>1, <1>2, <1>3, PTL DEF Spec
=============================================================================
