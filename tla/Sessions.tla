------------------------------- MODULE Sessions -------------------------------
(***************************************************************************)
(* Login sessions end to end: the auth_tokens table of backend/db.py, the  *)
(* token middleware of backend/main.py, the login, me and logout handlers  *)
(* of backend/routes/auth.py, and the browser side: the cookie jar that    *)
(* all tabs share, and each tab's auth store with its 401 interceptor      *)
(* (frontend/src/stores/auth.js).                                          *)
(*                                                                         *)
(* A request is on the wire, then past the middleware, then answered; the  *)
(* answer is handled later still, so requests of one tab and of several    *)
(* overlap freely.  The login limiters in front of the password check are  *)
(* RateLimit's subject: here a login is let in or refused.  Every visit to *)
(* a view behind the router's guard asks /api/me again, so restore(), the  *)
(* logins and the page's other requests may all overlap.                   *)
(***************************************************************************)
EXTENDS Integers

CONSTANTS
    Tokens,     \* what secrets.token_urlsafe can return, each once
    Tabs,       \* browser tabs; they share one cookie jar
    Slots,      \* requests a tab can have outstanding: a set of <<tab, number>>
    TTL,        \* TOKEN_TTL_SECONDS
    MaxTime,    \* bound: last value of the clock
    MaxPass,    \* bound: changes of BMUIPASS
    MaxFaults,  \* bound: statements on auth_tokens that fail
    NoToken

ASSUME SessionsAssumption ==
    /\ NoToken \notin Tokens
    /\ \A c \in Slots : c[1] \in Tabs
    /\ TTL \in Nat \ {0} /\ MaxTime \in Nat /\ MaxPass \in Nat /\ MaxFaults \in Nat

VARIABLES
    now,       \* nowts()
    tokens,    \* the rows of auth_tokens
    born,      \* when each token was issued: its exp is born + TTL
    keyOf,     \* the BMUIPASS its CSRF cookie was derived from, -1 until issued
    pass,      \* the BMUIPASS the server runs with
    jar,       \* the auth cookie; the CSRF cookie always comes and goes with it
    place,     \* the view each tab shows: the login page or another one
    authed,    \* each tab's authed flag
    selected,  \* devicesStore.selectedIds is not empty
    call,      \* the outstanding requests
    faults,
    \* history
    revoked,   \* tokens the server said it logged out
    undeleted  \* tokens it could not delete then

server == <<tokens, born, keyOf>>
page == <<place, authed, selected>>
vars == <<now, server, pass, jar, page, call, faults, revoked, undeleted>>

Kinds == {"login", "me", "get", "post", "logout"}
Unsafe == {"post", "logout"}   \* methods that need the CSRF header
Idle == [kind |-> "none", token |-> NoToken, home |-> FALSE, at |-> "none"]

\* A 401 is "refused"; any other error, and an answer that never comes, is "failed".
Answers == {"ok", "refused", "failed"}

Exp(tk) == born[tk] + TTL

Init ==
    /\ now = 0
    /\ tokens = {}
    /\ born = [tk \in Tokens |-> 0]
    /\ keyOf = [tk \in Tokens |-> -1]
    /\ pass = 0
    /\ jar = NoToken
    /\ place = [t \in Tabs |-> "login"]
    /\ authed = [t \in Tabs |-> FALSE]
    /\ selected = [t \in Tabs |-> FALSE]
    /\ call = [c \in Slots |-> Idle]
    /\ faults = 0 /\ revoked = {} /\ undeleted = {}

-----------------------------------------------------------------------------
\* The browser sends a request with the cookie the jar holds at that moment.  A
\* view that goes to the login page when the call has failed says home.

Request(kind, home) == [kind |-> kind, token |-> jar, home |-> home, at |-> "sent"]

Send(c, kind, home) ==
    /\ call[c] = Idle
    /\ call' = [call EXCEPT ![c] = Request(kind, home)]
    /\ UNCHANGED <<now, server, pass, jar, authed, selected, revoked, undeleted, faults>>

\* Requests of the page, logged in or not, and the logout button.
Work(c, kind) ==
    /\ kind \in {"get", "post", "logout"}
    /\ kind # "get" => place[c[1]] = "app"
    /\ Send(c, kind, kind = "logout")
    /\ UNCHANGED place

\* login(), on the login page; nothing holds the Enter key back meanwhile.
Login(c) ==
    /\ place[c[1]] = "login"
    /\ Send(c, "login", FALSE)
    /\ UNCHANGED place

\* The router lets the tab into another view, which calls restore() on mount.
Visit(c) ==
    /\ authed[c[1]]
    /\ Send(c, "me", TRUE)
    /\ place' = [place EXCEPT ![c[1]] = "app"]

\* The tab goes to the login page: that way is always open, and the guard's way
\* for a tab that is logged out.
Leave(t) ==
    /\ place[t] = "app"
    /\ place' = [place EXCEPT ![t] = "login"]
    /\ UNCHANGED <<now, server, pass, jar, authed, selected, call, revoked, undeleted, faults>>

\* The operator ticks devices: a dashboard whose page was logged out still lists them.
Select(t) ==
    /\ place[t] = "app"
    /\ selected' = [selected EXCEPT ![t] = TRUE]
    /\ UNCHANGED <<now, server, pass, jar, place, authed, call, revoked, undeleted, faults>>

-----------------------------------------------------------------------------
\* The server.

\* An error names no token.
Answer(c, v) ==
    call' = [call EXCEPT ![c].at = v,
                         ![c].token = IF v \in {"refused", "failed"} THEN NoToken ELSE @]

\* A statement on auth_tokens fails: the table is locked for too long.
Fault == faults < MaxFaults /\ faults' = faults + 1

\* get_token_record finds nothing, which is also what it makes of a fault.
NotFound(c) == (call[c].token \notin tokens /\ UNCHANGED faults) \/ Fault

\* delete_token says nothing of a fault, and the row stays.
Deleted(tk) ==
    \/ tokens' = tokens \ {tk} /\ UNCHANGED faults
    \/ tokens' = tokens /\ Fault

\* _csrf_for_token: the cookie was derived from the password of today.
CsrfMatches(c) == keyOf[call[c].token] = pass

\* Mutant: the cutoff is a second early.
UnexpiredEarly == {tk \in tokens : Exp(tk) > now + 1}

\* What cleanup_expired_tokens leaves.
Unexpired == {tk \in tokens : Exp(tk) > now}

\* insert_token.
Inserted(rows, tk) == rows \cup {tk}

\* api_login accepts the password: issue_token sweeps, which may fail in silence,
\* then inserts a new token, and the answer carries both cookies.
LoginOk(c, tk) ==
    /\ call[c].kind = "login" /\ call[c].at = "sent"
    /\ keyOf[tk] = -1
    /\ now + TTL <= MaxTime
    /\ \/ tokens' = Inserted(Unexpired, tk) /\ UNCHANGED faults
       \/ tokens' = Inserted(tokens, tk) /\ Fault
    /\ born' = [born EXCEPT ![tk] = now]
    /\ keyOf' = [keyOf EXCEPT ![tk] = pass]
    /\ call' = [call EXCEPT ![c].token = tk, ![c].at = "ok"]
    /\ UNCHANGED <<now, pass, jar, page, revoked, undeleted>>

\* ... or refuses it, with a 401, or with the 429 of a limiter.
LoginRefused(c) ==
    /\ call[c].kind = "login" /\ call[c].at = "sent"
    /\ Answer(c, "refused") \/ Answer(c, "failed")
    /\ UNCHANGED <<now, server, pass, jar, page, revoked, undeleted, faults>>

\* token_auth_mw: no cookie, or a token it cannot find in the table.
RefuseUnknown(c) ==
    /\ call[c].kind # "login" /\ call[c].at = "sent"
    /\ NotFound(c)
    /\ Answer(c, "refused")
    /\ UNCHANGED <<now, server, pass, jar, page, revoked, undeleted>>

\* It has expired: the row is deleted at once.
RefuseExpired(c) ==
    /\ call[c].kind # "login" /\ call[c].at = "sent"
    /\ call[c].token \in tokens
    /\ Exp(call[c].token) <= now
    /\ Deleted(call[c].token)
    /\ Answer(c, "refused")
    /\ UNCHANGED <<now, born, keyOf, pass, jar, page, revoked, undeleted>>

\* The CSRF cookie was derived from an older password.
Forbid(c) ==
    /\ call[c].kind \in Unsafe /\ call[c].at = "sent"
    /\ call[c].token \in tokens /\ Exp(call[c].token) > now
    /\ ~CsrfMatches(c)
    /\ Answer(c, "failed")
    /\ UNCHANGED <<now, server, pass, jar, page, revoked, undeleted, faults>>

Admit(c) ==
    /\ call[c].kind # "login" /\ call[c].at = "sent"
    /\ call[c].token \in tokens /\ Exp(call[c].token) > now
    /\ call[c].kind \in Unsafe => CsrfMatches(c)
    /\ Answer(c, "admitted")
    /\ UNCHANGED <<now, server, pass, jar, page, revoked, undeleted, faults>>

\* Mutant: logout clears the cookies only.
HandleCookieOnly(c) ==
    /\ call[c].at = "admitted"
    /\ Answer(c, IF call[c].kind = "me" /\ call[c].token \notin tokens THEN "refused" ELSE "ok")
    /\ UNCHANGED <<now, server, pass, jar, page, revoked, undeleted, faults>>

\* The handlers run, in a thread, after the middleware: api_logout deletes the
\* token and answers ok whatever became of that, api_me looks it up again.
HandleLogout(c) ==
    /\ call[c].kind = "logout"
    /\ Deleted(call[c].token)
    /\ undeleted' = IF call[c].token \in tokens' THEN undeleted \cup {call[c].token} ELSE undeleted
    /\ Answer(c, "ok")

HandleMe(c) ==
    /\ call[c].kind = "me"
    /\ \/ NotFound(c) /\ Answer(c, "refused")
       \/ call[c].token \in tokens /\ UNCHANGED faults /\ Answer(c, "ok")
    /\ UNCHANGED <<tokens, undeleted>>

HandleOther(c) ==
    /\ call[c].kind \in {"get", "post"}
    /\ Answer(c, "ok")
    /\ UNCHANGED <<tokens, undeleted, faults>>

Handle(c) ==
    /\ call[c].at = "admitted"
    /\ HandleLogout(c) \/ HandleMe(c) \/ HandleOther(c)
    /\ UNCHANGED <<now, born, keyOf, pass, jar, page, revoked>>

Serve(c) ==
    \/ \E tk \in Tokens : LoginOk(c, tk)
    \/ LoginRefused(c)
    \/ RefuseUnknown(c)
    \/ RefuseExpired(c)
    \/ Forbid(c)
    \/ Admit(c)
    \/ Handle(c)

\* The request or its answer never arrives.
Lose(c) ==
    /\ call[c].at \in {"sent", "ok", "refused"}
    /\ Answer(c, "failed")
    /\ UNCHANGED <<now, server, pass, jar, page, revoked, undeleted, faults>>

\* The cleanup loop, every minute.
Cleanup ==
    /\ tokens' = Unexpired
    /\ UNCHANGED <<now, born, keyOf, pass, jar, page, call, revoked, undeleted, faults>>

\* The operator changes BMUIPASS and restarts; the table stays.
ChangePassword ==
    /\ pass < MaxPass
    /\ pass' = pass + 1
    /\ UNCHANGED <<now, server, jar, page, call, revoked, undeleted, faults>>

Tick ==
    /\ now < MaxTime
    /\ now' = now + 1
    /\ UNCHANGED <<server, pass, jar, page, call, revoked, undeleted, faults>>

-----------------------------------------------------------------------------
\* The browser handles an answer.  Cookies first: an "ok" login sets both, an
\* "ok" logout deletes both.
Cookies(c) ==
    /\ jar' = IF call[c].at # "ok" THEN jar
              ELSE IF call[c].kind = "login" THEN call[c].token
              ELSE IF call[c].kind = "logout" THEN NoToken
              ELSE jar
    /\ revoked' = IF call[c].kind = "logout" /\ call[c].at = "ok"
                  THEN revoked \cup {call[c].token} ELSE revoked
    /\ UNCHANGED <<now, server, pass, faults, undeleted>>

\* The 401 interceptor of a page that is logged in awaits logout(), whatever
\* the request was: a logout too.
AutoLogout(c) ==
    /\ call[c].at = "refused" /\ authed[c[1]]
    /\ call' = [call EXCEPT ![c] = Request("logout", call[c].home)]
    /\ Cookies(c)
    /\ UNCHANGED page

\* The view that made the call goes to the login page when it has failed.
GoesHome(c) == place' = IF call[c].home THEN [place EXCEPT ![c[1]] = "login"] ELSE place

\* The rest of logout(), once its request has ended in any way.
SignedOut(c) ==
    /\ authed' = [authed EXCEPT ![c[1]] = FALSE]
    /\ selected' = [selected EXCEPT ![c[1]] = FALSE]

LogoutEnds(c) ==
    /\ call[c].kind = "logout" /\ call[c].at \in Answers
    /\ ~(call[c].at = "refused" /\ authed[c[1]])
    /\ call' = [call EXCEPT ![c] = Idle]
    /\ SignedOut(c)
    /\ GoesHome(c)
    /\ Cookies(c)

\* login() and restore() succeed; the login page then lists the devices and asks
\* the router for the dashboard, a Visit.
Entered(c) ==
    /\ call[c].kind \in {"login", "me"} /\ call[c].at = "ok"
    /\ call' = [call EXCEPT ![c] = Idle]
    /\ authed' = [authed EXCEPT ![c[1]] = TRUE]
    /\ UNCHANGED <<place, selected>>
    /\ Cookies(c)

\* They fail: login() clears the flag, restore() leaves it as it is, and neither
\* the selection.
NotEntered(c) ==
    /\ call[c].kind \in {"login", "me"} /\ call[c].at \in Answers \ {"ok"}
    /\ ~(call[c].at = "refused" /\ authed[c[1]])
    /\ call' = [call EXCEPT ![c] = Idle]
    /\ authed' = [authed EXCEPT ![c[1]] = IF call[c].kind = "login" THEN FALSE ELSE @]
    /\ GoesHome(c)
    /\ UNCHANGED selected
    /\ Cookies(c)

\* restore() found the cookie valid but /api/health failed: it logs out.
HealthFails(c) ==
    /\ call[c].kind = "me" /\ call[c].at = "ok"
    /\ call' = [call EXCEPT ![c] = Request("logout", call[c].home)]
    /\ Cookies(c)
    /\ UNCHANGED page

WorkEnds(c) ==
    /\ call[c].kind \in {"get", "post"} /\ call[c].at \in Answers
    /\ ~(call[c].at = "refused" /\ authed[c[1]])
    /\ call' = [call EXCEPT ![c] = Idle]
    /\ Cookies(c)
    /\ UNCHANGED page

Receive(c) ==
    \/ AutoLogout(c)
    \/ LogoutEnds(c)
    \/ Entered(c)
    \/ NotEntered(c)
    \/ HealthFails(c)
    \/ WorkEnds(c)

\* max_age is up: the browser drops both cookies.
CookieExpires ==
    /\ jar # NoToken /\ Exp(jar) <= now
    /\ jar' = NoToken
    /\ UNCHANGED <<now, server, pass, page, call, revoked, undeleted, faults>>

-----------------------------------------------------------------------------
Next ==
    \/ \E c \in Slots :
        \/ \E kind \in Kinds : Work(c, kind)
        \/ Login(c) \/ Visit(c)
        \/ Serve(c)
        \/ Lose(c)
        \/ Receive(c)
    \/ \E t \in Tabs : Leave(t) \/ Select(t)
    \/ Cleanup
    \/ ChangePassword
    \/ Tick
    \/ CookieExpires

Spec == Init /\ [][Next]_vars

\* The server answers what reaches it, browsers handle what they are answered,
\* the clock and the cleanup loop go on.  Nobody has to click anything.
Fairness ==
    /\ \A c \in Slots : WF_vars(Serve(c)) /\ WF_vars(Receive(c))
    /\ WF_vars(Tick) /\ WF_vars(Cleanup)

FairSpec == Spec /\ Fairness

-----------------------------------------------------------------------------
\* Types; no row of the table is from the future.
TypeOK ==
    /\ now \in 0..MaxTime
    /\ tokens \subseteq Tokens
    /\ born \in [Tokens -> Nat] /\ \A tk \in tokens : born[tk] <= now
    /\ keyOf \in [Tokens -> -1..MaxPass]
    /\ pass \in 0..MaxPass
    /\ jar \in Tokens \cup {NoToken}
    /\ place \in [Tabs -> {"login", "app"}]
    /\ authed \in [Tabs -> BOOLEAN] /\ selected \in [Tabs -> BOOLEAN]
    /\ call \in [Slots -> [kind : Kinds \cup {"none"}, token : Tokens \cup {NoToken},
                           home : BOOLEAN, at : Answers \cup {"none", "sent", "admitted"}]]
    /\ faults \in Nat /\ revoked \subseteq Tokens /\ undeleted \subseteq Tokens

\* A session the server reported as logged out is dead for good, also for
\* requests of other tabs that still carry its cookie and for logins and sweeps
\* that overlap with it; unless the database refused to delete it.
RevokedStaysDead == revoked \cap tokens \subseteq undeleted

\* A session ends early only by a logout that carried its token: neither the
\* sweeps, nor a login of another tab, nor a refused request takes a live one.
SessionsEndForCause ==
    [][\A tk \in tokens \ tokens' :
        \/ Exp(tk) <= now
        \/ \E c \in Slots : call[c].kind = "logout" /\ call[c].token = tk
                            /\ call'[c].at = "ok"]_vars

\* "Without this, a 401 auto-logout [...] would leave selectedIds populated, so when
\* the user logs back in selectedCount would show a phantom count and a batch action
\* could send stale device IDs to the server" (auth.js:80-85): a page that logs in
\* starts with no selection, however it was logged out before.
LoginStartsUnselected ==
    [][\A t \in Tabs : ~authed[t] /\ authed'[t] => ~selected'[t]]_vars

\* "any request made before restore() (e.g. dashboard refresh after a stale
\* token) still triggers the auto-logout flow" (auth.js:111-113): a page whose
\* request was answered 401 ends up on the login page.
StaleTokenLogsOut ==
    \A c \in Slots :
        (call[c].kind = "get" /\ call[c].at = "refused" /\ authed[c[1]]) ~> ~authed[c[1]]
=============================================================================
