---------------------------- MODULE SessionsProofs ----------------------------
(***************************************************************************)
(* Proofs about the browser's stores and the routes they call: Sessions,   *)
(* for any number of tokens, tabs, requests and faults and any lifetime of *)
(* a token, and DevicesStore, for any table, page size and groups and any  *)
(* number of overlapping refreshes.                                        *)
(***************************************************************************)
EXTENDS Sessions, DevicesStore, FiniteSetTheorems, TLAPS

\* TypeOK in four parts.
ServerTypes ==
    /\ now \in 0..MaxTime
    /\ tokens \subseteq Tokens
    /\ born \in [Tokens -> Nat] /\ \A tk \in tokens : born[tk] <= now
    /\ keyOf \in [Tokens -> -1..MaxPass]
    /\ pass \in 0..MaxPass
    /\ faults \in Nat

CallTypes ==
    call \in [Slots -> [kind : Kinds \cup {"none"}, token : Tokens \cup {NoToken},
                       home : BOOLEAN, at : Answers \cup {"none", "sent", "admitted"}]]

PageTypes ==
    /\ place \in [Tabs -> {"login", "app"}]
    /\ authed \in [Tabs -> BOOLEAN] /\ selected \in [Tabs -> BOOLEAN]

CookieTypes == jar \in Tokens \cup {NoToken} /\ revoked \subseteq Tokens /\ undeleted \subseteq Tokens

\* A token that was issued is never issued again.
Issued(tk) == tk \in Tokens /\ keyOf[tk] # -1

\* What the table holds, what passed the middleware and what was reported as
\* logged out has been issued.
IssuedFirst ==
    /\ \A tk \in tokens \cup revoked : Issued(tk)
    /\ \A c \in Slots : call[c].at = "admitted" => Issued(call[c].token)

\* A logout on its way back has taken its token with it, if the database let it.
LogoutsDelete ==
    \A c \in Slots :
        (call[c].kind = "logout" /\ call[c].at = "ok") =>
            /\ Issued(call[c].token)
            /\ call[c].token \in tokens => call[c].token \in undeleted

IInv ==
    /\ ServerTypes
    /\ CallTypes
    /\ PageTypes
    /\ CookieTypes
    /\ IssuedFirst
    /\ LogoutsDelete
    /\ RevokedStaysDead

-----------------------------------------------------------------------------
LEMMA StepServerTypes == IInv /\ [Next]_vars => ServerTypes'
<1> SUFFICES ASSUME IInv, [Next]_vars PROVE ServerTypes'
  OBVIOUS
<1> USE DEF IInv, ServerTypes, CallTypes, server, page
<1>1. ASSUME NEW c \in Slots, NEW kind \in Kinds, Work(c, kind) PROVE ServerTypes'
  BY <1>1 DEF Work, Send, Request
<1>2. ASSUME NEW c \in Slots, Login(c) \/ Visit(c) PROVE ServerTypes'
  BY <1>2 DEF Login, Visit, Send, Request
<1>3. ASSUME NEW t \in Tabs, Leave(t) \/ Select(t) PROVE ServerTypes'
  BY <1>3 DEF Leave, Select
<1>4. ASSUME NEW c \in Slots, NEW tk \in Tokens, LoginOk(c, tk) PROVE ServerTypes'
  BY <1>4 DEF LoginOk, Inserted, Unexpired, Exp, Fault
<1>5. ASSUME NEW c \in Slots, LoginRefused(c) PROVE ServerTypes'
  BY <1>5 DEF LoginRefused, Answer
<1>6. ASSUME NEW c \in Slots, RefuseUnknown(c) PROVE ServerTypes'
  BY <1>6 DEF RefuseUnknown, NotFound, Answer, Fault
<1>7. ASSUME NEW c \in Slots, RefuseExpired(c) PROVE ServerTypes'
  BY <1>7 DEF RefuseExpired, Deleted, Answer, Fault
<1>8. ASSUME NEW c \in Slots, Forbid(c) PROVE ServerTypes'
  BY <1>8 DEF Forbid, Answer
<1>9. ASSUME NEW c \in Slots, Admit(c) PROVE ServerTypes'
  BY <1>9 DEF Admit, Answer
<1>10. ASSUME NEW c \in Slots, Handle(c) PROVE ServerTypes'
  BY <1>10 DEF Handle, HandleLogout, HandleMe, HandleOther, Deleted, NotFound, Answer, Fault
<1>11. ASSUME NEW c \in Slots, Lose(c) PROVE ServerTypes'
  BY <1>11 DEF Lose, Answer
<1>12. ASSUME NEW c \in Slots, AutoLogout(c) PROVE ServerTypes'
  BY <1>12 DEF AutoLogout, Cookies, Request
<1>13. ASSUME NEW c \in Slots, LogoutEnds(c) PROVE ServerTypes'
  BY <1>13 DEF LogoutEnds, SignedOut, Cookies, Answers
<1>14. ASSUME NEW c \in Slots, Entered(c) PROVE ServerTypes'
  BY <1>14 DEF Entered, Cookies
<1>15. ASSUME NEW c \in Slots, NotEntered(c) PROVE ServerTypes'
  BY <1>15 DEF NotEntered, Cookies
<1>16. ASSUME NEW c \in Slots, HealthFails(c) PROVE ServerTypes'
  BY <1>16 DEF HealthFails, Cookies, Request
<1>17. ASSUME NEW c \in Slots, WorkEnds(c) PROVE ServerTypes'
  BY <1>17 DEF WorkEnds, Cookies
<1>18. ASSUME Cleanup PROVE ServerTypes'
  BY <1>18 DEF Cleanup, Unexpired
<1>19. ASSUME ChangePassword PROVE ServerTypes'
  BY <1>19, SessionsAssumption DEF ChangePassword, SessionsAssumption
<1>20. ASSUME Tick PROVE ServerTypes'
  BY <1>20, SessionsAssumption DEF Tick, SessionsAssumption
<1>21. ASSUME CookieExpires PROVE ServerTypes'
  BY <1>21 DEF CookieExpires
<1>22. CASE UNCHANGED vars
  BY <1>22 DEF vars
<1> QED
  BY <1>1, <1>2, <1>3, <1>4, <1>5, <1>6, <1>7, <1>8, <1>9, <1>10, <1>11, <1>12, <1>13, <1>14, <1>15, <1>16, <1>17, <1>18, <1>19, <1>20, <1>21, <1>22 DEF Next, Serve, Receive

LEMMA StepCallTypes == IInv /\ [Next]_vars => CallTypes'
<1> SUFFICES ASSUME IInv, [Next]_vars PROVE CallTypes'
  OBVIOUS
<1> USE DEF IInv, CallTypes, CookieTypes, Kinds, Answers, Idle, server, page
<1>1. ASSUME NEW c \in Slots, NEW kind \in Kinds, Work(c, kind) PROVE CallTypes'
  BY <1>1 DEF Work, Send, Request
<1>2. ASSUME NEW c \in Slots, Login(c) \/ Visit(c) PROVE CallTypes'
  <2>1. Request("login", FALSE) \in [kind : Kinds \cup {"none"}, token : Tokens \cup {NoToken}, home : BOOLEAN, at : Answers \cup {"none", "sent", "admitted"}]
    BY DEF Request
  <2>2. Request("me", TRUE) \in [kind : Kinds \cup {"none"}, token : Tokens \cup {NoToken}, home : BOOLEAN, at : Answers \cup {"none", "sent", "admitted"}]
    BY DEF Request
  <2>3. CASE Login(c)
    BY <2>1, <2>3 DEF Login, Send
  <2>4. CASE Visit(c)
    BY <2>2, <2>4 DEF Visit, Send
  <2> QED
    BY <1>2, <2>3, <2>4
<1>3. ASSUME NEW t \in Tabs, Leave(t) \/ Select(t) PROVE CallTypes'
  BY <1>3 DEF Leave, Select
<1>4. ASSUME NEW c \in Slots, NEW tk \in Tokens, LoginOk(c, tk) PROVE CallTypes'
  BY <1>4 DEF LoginOk, Inserted, Unexpired, Exp, Fault
<1>5. ASSUME NEW c \in Slots, LoginRefused(c) PROVE CallTypes'
  BY <1>5 DEF LoginRefused, Answer
<1>6. ASSUME NEW c \in Slots, RefuseUnknown(c) PROVE CallTypes'
  BY <1>6 DEF RefuseUnknown, NotFound, Answer, Fault
<1>7. ASSUME NEW c \in Slots, RefuseExpired(c) PROVE CallTypes'
  BY <1>7 DEF RefuseExpired, Deleted, Answer, Fault
<1>8. ASSUME NEW c \in Slots, Forbid(c) PROVE CallTypes'
  BY <1>8 DEF Forbid, Answer
<1>9. ASSUME NEW c \in Slots, Admit(c) PROVE CallTypes'
  BY <1>9 DEF Admit, Answer
<1>10. ASSUME NEW c \in Slots, Handle(c) PROVE CallTypes'
  BY <1>10 DEF Handle, HandleLogout, HandleMe, HandleOther, Deleted, NotFound, Answer, Fault
<1>11. ASSUME NEW c \in Slots, Lose(c) PROVE CallTypes'
  <2>1. Answer(c, "failed")
    BY <1>11 DEF Lose
  <2> QED
    BY <2>1 DEF Answer
<1>12. ASSUME NEW c \in Slots, AutoLogout(c) PROVE CallTypes'
  BY <1>12 DEF AutoLogout, Cookies, Request
<1>13. ASSUME NEW c \in Slots, LogoutEnds(c) PROVE CallTypes'
  BY <1>13 DEF LogoutEnds, SignedOut, Cookies, Answers
<1>14. ASSUME NEW c \in Slots, Entered(c) PROVE CallTypes'
  BY <1>14 DEF Entered, Cookies
<1>15. ASSUME NEW c \in Slots, NotEntered(c) PROVE CallTypes'
  BY <1>15 DEF NotEntered, Cookies
<1>16. ASSUME NEW c \in Slots, HealthFails(c) PROVE CallTypes'
  BY <1>16 DEF HealthFails, Cookies, Request
<1>17. ASSUME NEW c \in Slots, WorkEnds(c) PROVE CallTypes'
  BY <1>17 DEF WorkEnds, Cookies
<1>18. ASSUME Cleanup PROVE CallTypes'
  BY <1>18 DEF Cleanup, Unexpired
<1>19. ASSUME ChangePassword PROVE CallTypes'
  BY <1>19 DEF ChangePassword
<1>20. ASSUME Tick PROVE CallTypes'
  BY <1>20 DEF Tick
<1>21. ASSUME CookieExpires PROVE CallTypes'
  BY <1>21 DEF CookieExpires
<1>22. CASE UNCHANGED vars
  BY <1>22 DEF vars
<1> QED
  BY <1>1, <1>2, <1>3, <1>4, <1>5, <1>6, <1>7, <1>8, <1>9, <1>10, <1>11, <1>12, <1>13, <1>14, <1>15, <1>16, <1>17, <1>18, <1>19, <1>20, <1>21, <1>22 DEF Next, Serve, Receive

LEMMA StepPageTypes == IInv /\ [Next]_vars => PageTypes'
<1> SUFFICES ASSUME IInv, [Next]_vars PROVE PageTypes'
  OBVIOUS
<1> USE DEF IInv, PageTypes, CallTypes, server, page
<1>1. ASSUME NEW c \in Slots, NEW kind \in Kinds, Work(c, kind) PROVE PageTypes'
  BY <1>1 DEF Work, Send, Request
<1>2. ASSUME NEW c \in Slots, Login(c) \/ Visit(c) PROVE PageTypes'
  BY <1>2 DEF Login, Visit, Send, Request
<1>3. ASSUME NEW t \in Tabs, Leave(t) \/ Select(t) PROVE PageTypes'
  BY <1>3 DEF Leave, Select
<1>4. ASSUME NEW c \in Slots, NEW tk \in Tokens, LoginOk(c, tk) PROVE PageTypes'
  BY <1>4 DEF LoginOk, Inserted, Unexpired, Exp, Fault
<1>5. ASSUME NEW c \in Slots, LoginRefused(c) PROVE PageTypes'
  BY <1>5 DEF LoginRefused, Answer
<1>6. ASSUME NEW c \in Slots, RefuseUnknown(c) PROVE PageTypes'
  BY <1>6 DEF RefuseUnknown, NotFound, Answer, Fault
<1>7. ASSUME NEW c \in Slots, RefuseExpired(c) PROVE PageTypes'
  BY <1>7 DEF RefuseExpired, Deleted, Answer, Fault
<1>8. ASSUME NEW c \in Slots, Forbid(c) PROVE PageTypes'
  BY <1>8 DEF Forbid, Answer
<1>9. ASSUME NEW c \in Slots, Admit(c) PROVE PageTypes'
  BY <1>9 DEF Admit, Answer
<1>10. ASSUME NEW c \in Slots, Handle(c) PROVE PageTypes'
  BY <1>10 DEF Handle, HandleLogout, HandleMe, HandleOther, Deleted, NotFound, Answer, Fault
<1>11. ASSUME NEW c \in Slots, Lose(c) PROVE PageTypes'
  BY <1>11 DEF Lose, Answer
<1>12. ASSUME NEW c \in Slots, AutoLogout(c) PROVE PageTypes'
  BY <1>12 DEF AutoLogout, Cookies, Request
<1>13. ASSUME NEW c \in Slots, LogoutEnds(c) PROVE PageTypes'
  BY <1>13 DEF GoesHome, LogoutEnds, SignedOut, Cookies, Answers
<1>14. ASSUME NEW c \in Slots, Entered(c) PROVE PageTypes'
  BY <1>14 DEF Entered, Cookies
<1>15. ASSUME NEW c \in Slots, NotEntered(c) PROVE PageTypes'
  BY <1>15 DEF GoesHome, NotEntered, Cookies
<1>16. ASSUME NEW c \in Slots, HealthFails(c) PROVE PageTypes'
  BY <1>16 DEF HealthFails, Cookies, Request
<1>17. ASSUME NEW c \in Slots, WorkEnds(c) PROVE PageTypes'
  BY <1>17 DEF WorkEnds, Cookies
<1>18. ASSUME Cleanup PROVE PageTypes'
  BY <1>18 DEF Cleanup, Unexpired
<1>19. ASSUME ChangePassword PROVE PageTypes'
  BY <1>19 DEF ChangePassword
<1>20. ASSUME Tick PROVE PageTypes'
  BY <1>20 DEF Tick
<1>21. ASSUME CookieExpires PROVE PageTypes'
  BY <1>21 DEF CookieExpires
<1>22. CASE UNCHANGED vars
  BY <1>22 DEF vars
<1> QED
  BY <1>1, <1>2, <1>3, <1>4, <1>5, <1>6, <1>7, <1>8, <1>9, <1>10, <1>11, <1>12, <1>13, <1>14, <1>15, <1>16, <1>17, <1>18, <1>19, <1>20, <1>21, <1>22 DEF Next, Serve, Receive

LEMMA StepCookieTypes == IInv /\ [Next]_vars => CookieTypes'
<1> SUFFICES ASSUME IInv, [Next]_vars PROVE CookieTypes'
  OBVIOUS
<1> USE DEF IInv, CookieTypes, CallTypes, LogoutsDelete, Issued, IssuedFirst, server, page
<1>1. ASSUME NEW c \in Slots, NEW kind \in Kinds, Work(c, kind) PROVE CookieTypes'
  BY <1>1 DEF Work, Send, Request
<1>2. ASSUME NEW c \in Slots, Login(c) \/ Visit(c) PROVE CookieTypes'
  BY <1>2 DEF Login, Visit, Send, Request
<1>3. ASSUME NEW t \in Tabs, Leave(t) \/ Select(t) PROVE CookieTypes'
  BY <1>3 DEF Leave, Select
<1>4. ASSUME NEW c \in Slots, NEW tk \in Tokens, LoginOk(c, tk) PROVE CookieTypes'
  BY <1>4 DEF LoginOk, Inserted, Unexpired, Exp, Fault
<1>5. ASSUME NEW c \in Slots, LoginRefused(c) PROVE CookieTypes'
  BY <1>5 DEF LoginRefused, Answer
<1>6. ASSUME NEW c \in Slots, RefuseUnknown(c) PROVE CookieTypes'
  BY <1>6 DEF RefuseUnknown, NotFound, Answer, Fault
<1>7. ASSUME NEW c \in Slots, RefuseExpired(c) PROVE CookieTypes'
  BY <1>7 DEF RefuseExpired, Deleted, Answer, Fault
<1>8. ASSUME NEW c \in Slots, Forbid(c) PROVE CookieTypes'
  BY <1>8 DEF Forbid, Answer
<1>9. ASSUME NEW c \in Slots, Admit(c) PROVE CookieTypes'
  BY <1>9 DEF Admit, Answer
<1>10. ASSUME NEW c \in Slots, Handle(c) PROVE CookieTypes'
  BY <1>10 DEF Handle, HandleLogout, HandleMe, HandleOther, Deleted, NotFound, Answer, Fault
<1>11. ASSUME NEW c \in Slots, Lose(c) PROVE CookieTypes'
  BY <1>11 DEF Lose, Answer
<1>12. ASSUME NEW c \in Slots, AutoLogout(c) PROVE CookieTypes'
  BY <1>12 DEF AutoLogout, Cookies, Request
<1>13. ASSUME NEW c \in Slots, LogoutEnds(c) PROVE CookieTypes'
  BY <1>13 DEF LogoutEnds, SignedOut, Cookies, Answers
<1>14. ASSUME NEW c \in Slots, Entered(c) PROVE CookieTypes'
  BY <1>14 DEF Entered, Cookies
<1>15. ASSUME NEW c \in Slots, NotEntered(c) PROVE CookieTypes'
  BY <1>15 DEF NotEntered, Cookies
<1>16. ASSUME NEW c \in Slots, HealthFails(c) PROVE CookieTypes'
  BY <1>16 DEF HealthFails, Cookies, Request
<1>17. ASSUME NEW c \in Slots, WorkEnds(c) PROVE CookieTypes'
  BY <1>17 DEF WorkEnds, Cookies
<1>18. ASSUME Cleanup PROVE CookieTypes'
  BY <1>18 DEF Cleanup, Unexpired
<1>19. ASSUME ChangePassword PROVE CookieTypes'
  BY <1>19 DEF ChangePassword
<1>20. ASSUME Tick PROVE CookieTypes'
  BY <1>20 DEF Tick
<1>21. ASSUME CookieExpires PROVE CookieTypes'
  BY <1>21 DEF CookieExpires
<1>22. CASE UNCHANGED vars
  BY <1>22 DEF vars
<1> QED
  BY <1>1, <1>2, <1>3, <1>4, <1>5, <1>6, <1>7, <1>8, <1>9, <1>10, <1>11, <1>12, <1>13, <1>14, <1>15, <1>16, <1>17, <1>18, <1>19, <1>20, <1>21, <1>22 DEF Next, Serve, Receive

LEMMA StepIssued == IInv /\ [Next]_vars => IssuedFirst'
<1> SUFFICES ASSUME IInv, [Next]_vars PROVE IssuedFirst'
  OBVIOUS
<1> USE DEF IInv, IssuedFirst, LogoutsDelete, Issued, ServerTypes, CallTypes, Kinds, Answers, Idle, server, page
<1>1. ASSUME NEW c \in Slots, NEW kind \in Kinds, Work(c, kind) PROVE IssuedFirst'
  BY <1>1 DEF Work, Send, Request
<1>2. ASSUME NEW c \in Slots, Login(c) \/ Visit(c) PROVE IssuedFirst'
  BY <1>2 DEF Login, Visit, Send, Request
<1>3. ASSUME NEW t \in Tabs, Leave(t) \/ Select(t) PROVE IssuedFirst'
  BY <1>3 DEF Leave, Select
<1>4. ASSUME NEW c \in Slots, NEW tk \in Tokens, LoginOk(c, tk) PROVE IssuedFirst'
  BY <1>4 DEF LoginOk, Inserted, Unexpired, Exp, Fault
<1>5. ASSUME NEW c \in Slots, LoginRefused(c) PROVE IssuedFirst'
  BY <1>5 DEF LoginRefused, Answer
<1>6. ASSUME NEW c \in Slots, RefuseUnknown(c) PROVE IssuedFirst'
  BY <1>6 DEF RefuseUnknown, NotFound, Answer, Fault
<1>7. ASSUME NEW c \in Slots, RefuseExpired(c) PROVE IssuedFirst'
  BY <1>7 DEF RefuseExpired, Deleted, Answer, Fault
<1>8. ASSUME NEW c \in Slots, Forbid(c) PROVE IssuedFirst'
  BY <1>8 DEF Forbid, Answer
<1>9. ASSUME NEW c \in Slots, Admit(c) PROVE IssuedFirst'
  BY <1>9 DEF Admit, Answer
<1>10. ASSUME NEW c \in Slots, Handle(c) PROVE IssuedFirst'
  BY <1>10 DEF Handle, HandleLogout, HandleMe, HandleOther, Deleted, NotFound, Answer, Fault
<1>11. ASSUME NEW c \in Slots, Lose(c) PROVE IssuedFirst'
  BY <1>11 DEF Lose, Answer
<1>12. ASSUME NEW c \in Slots, AutoLogout(c) PROVE IssuedFirst'
  BY <1>12 DEF AutoLogout, Cookies, Request
<1>13. ASSUME NEW c \in Slots, LogoutEnds(c) PROVE IssuedFirst'
  BY <1>13 DEF LogoutEnds, SignedOut, Cookies, Answers
<1>14. ASSUME NEW c \in Slots, Entered(c) PROVE IssuedFirst'
  BY <1>14 DEF Entered, Cookies
<1>15. ASSUME NEW c \in Slots, NotEntered(c) PROVE IssuedFirst'
  BY <1>15 DEF NotEntered, Cookies
<1>16. ASSUME NEW c \in Slots, HealthFails(c) PROVE IssuedFirst'
  BY <1>16 DEF HealthFails, Cookies, Request
<1>17. ASSUME NEW c \in Slots, WorkEnds(c) PROVE IssuedFirst'
  BY <1>17 DEF WorkEnds, Cookies
<1>18. ASSUME Cleanup PROVE IssuedFirst'
  BY <1>18 DEF Cleanup, Unexpired
<1>19. ASSUME ChangePassword PROVE IssuedFirst'
  BY <1>19 DEF ChangePassword
<1>20. ASSUME Tick PROVE IssuedFirst'
  BY <1>20 DEF Tick
<1>21. ASSUME CookieExpires PROVE IssuedFirst'
  BY <1>21 DEF CookieExpires
<1>22. CASE UNCHANGED vars
  BY <1>22 DEF vars
<1> QED
  BY <1>1, <1>2, <1>3, <1>4, <1>5, <1>6, <1>7, <1>8, <1>9, <1>10, <1>11, <1>12, <1>13, <1>14, <1>15, <1>16, <1>17, <1>18, <1>19, <1>20, <1>21, <1>22 DEF Next, Serve, Receive

LEMMA StepLogouts == IInv /\ [Next]_vars => LogoutsDelete'
<1> SUFFICES ASSUME IInv, [Next]_vars PROVE LogoutsDelete'
  OBVIOUS
<1> USE DEF IInv, IssuedFirst, LogoutsDelete, Issued, ServerTypes, CallTypes, Kinds, Answers, Idle, server, page
<1>1. ASSUME NEW c \in Slots, NEW kind \in Kinds, Work(c, kind) PROVE LogoutsDelete'
  BY <1>1 DEF Work, Send, Request
<1>2. ASSUME NEW c \in Slots, Login(c) \/ Visit(c) PROVE LogoutsDelete'
  BY <1>2 DEF Login, Visit, Send, Request
<1>3. ASSUME NEW t \in Tabs, Leave(t) \/ Select(t) PROVE LogoutsDelete'
  BY <1>3 DEF Leave, Select
<1>4. ASSUME NEW c \in Slots, NEW tk \in Tokens, LoginOk(c, tk) PROVE LogoutsDelete'
  BY <1>4 DEF LoginOk, Inserted, Unexpired, Exp, Fault
<1>5. ASSUME NEW c \in Slots, LoginRefused(c) PROVE LogoutsDelete'
  BY <1>5 DEF LoginRefused, Answer
<1>6. ASSUME NEW c \in Slots, RefuseUnknown(c) PROVE LogoutsDelete'
  BY <1>6 DEF RefuseUnknown, NotFound, Answer, Fault
<1>7. ASSUME NEW c \in Slots, RefuseExpired(c) PROVE LogoutsDelete'
  BY <1>7 DEF RefuseExpired, Deleted, Answer, Fault
<1>8. ASSUME NEW c \in Slots, Forbid(c) PROVE LogoutsDelete'
  BY <1>8 DEF Forbid, Answer
<1>9. ASSUME NEW c \in Slots, Admit(c) PROVE LogoutsDelete'
  BY <1>9 DEF Admit, Answer
<1>10. ASSUME NEW c \in Slots, Handle(c) PROVE LogoutsDelete'
  BY <1>10 DEF Handle, HandleLogout, HandleMe, HandleOther, Deleted, NotFound, Answer, Fault
<1>11. ASSUME NEW c \in Slots, Lose(c) PROVE LogoutsDelete'
  BY <1>11 DEF Lose, Answer
<1>12. ASSUME NEW c \in Slots, AutoLogout(c) PROVE LogoutsDelete'
  BY <1>12 DEF AutoLogout, Cookies, Request
<1>13. ASSUME NEW c \in Slots, LogoutEnds(c) PROVE LogoutsDelete'
  BY <1>13 DEF LogoutEnds, SignedOut, Cookies, Answers
<1>14. ASSUME NEW c \in Slots, Entered(c) PROVE LogoutsDelete'
  BY <1>14 DEF Entered, Cookies
<1>15. ASSUME NEW c \in Slots, NotEntered(c) PROVE LogoutsDelete'
  BY <1>15 DEF NotEntered, Cookies
<1>16. ASSUME NEW c \in Slots, HealthFails(c) PROVE LogoutsDelete'
  BY <1>16 DEF HealthFails, Cookies, Request
<1>17. ASSUME NEW c \in Slots, WorkEnds(c) PROVE LogoutsDelete'
  BY <1>17 DEF WorkEnds, Cookies
<1>18. ASSUME Cleanup PROVE LogoutsDelete'
  BY <1>18 DEF Cleanup, Unexpired
<1>19. ASSUME ChangePassword PROVE LogoutsDelete'
  BY <1>19 DEF ChangePassword
<1>20. ASSUME Tick PROVE LogoutsDelete'
  BY <1>20 DEF Tick
<1>21. ASSUME CookieExpires PROVE LogoutsDelete'
  BY <1>21 DEF CookieExpires
<1>22. CASE UNCHANGED vars
  BY <1>22 DEF vars
<1> QED
  BY <1>1, <1>2, <1>3, <1>4, <1>5, <1>6, <1>7, <1>8, <1>9, <1>10, <1>11, <1>12, <1>13, <1>14, <1>15, <1>16, <1>17, <1>18, <1>19, <1>20, <1>21, <1>22 DEF Next, Serve, Receive

LEMMA StepRevoked == IInv /\ [Next]_vars => RevokedStaysDead'
<1> SUFFICES ASSUME IInv, [Next]_vars PROVE RevokedStaysDead'
  OBVIOUS
<1> USE DEF IInv, RevokedStaysDead, IssuedFirst, Issued, LogoutsDelete, ServerTypes, CookieTypes, server, page
<1>1. ASSUME NEW c \in Slots, NEW kind \in Kinds, Work(c, kind) PROVE RevokedStaysDead'
  BY <1>1 DEF Work, Send, Request
<1>2. ASSUME NEW c \in Slots, Login(c) \/ Visit(c) PROVE RevokedStaysDead'
  BY <1>2 DEF Login, Visit, Send, Request
<1>3. ASSUME NEW t \in Tabs, Leave(t) \/ Select(t) PROVE RevokedStaysDead'
  BY <1>3 DEF Leave, Select
<1>4. ASSUME NEW c \in Slots, NEW tk \in Tokens, LoginOk(c, tk) PROVE RevokedStaysDead'
  BY <1>4 DEF LoginOk, Inserted, Unexpired, Exp, Fault
<1>5. ASSUME NEW c \in Slots, LoginRefused(c) PROVE RevokedStaysDead'
  BY <1>5 DEF LoginRefused, Answer
<1>6. ASSUME NEW c \in Slots, RefuseUnknown(c) PROVE RevokedStaysDead'
  BY <1>6 DEF RefuseUnknown, NotFound, Answer, Fault
<1>7. ASSUME NEW c \in Slots, RefuseExpired(c) PROVE RevokedStaysDead'
  BY <1>7 DEF RefuseExpired, Deleted, Answer, Fault
<1>8. ASSUME NEW c \in Slots, Forbid(c) PROVE RevokedStaysDead'
  BY <1>8 DEF Forbid, Answer
<1>9. ASSUME NEW c \in Slots, Admit(c) PROVE RevokedStaysDead'
  BY <1>9 DEF Admit, Answer
<1>10. ASSUME NEW c \in Slots, Handle(c) PROVE RevokedStaysDead'
  BY <1>10 DEF Handle, HandleLogout, HandleMe, HandleOther, Deleted, NotFound, Answer, Fault
<1>11. ASSUME NEW c \in Slots, Lose(c) PROVE RevokedStaysDead'
  BY <1>11 DEF Lose, Answer
<1>12. ASSUME NEW c \in Slots, AutoLogout(c) PROVE RevokedStaysDead'
  BY <1>12 DEF AutoLogout, Cookies, Request
<1>13. ASSUME NEW c \in Slots, LogoutEnds(c) PROVE RevokedStaysDead'
  BY <1>13 DEF LogoutEnds, SignedOut, Cookies, Answers
<1>14. ASSUME NEW c \in Slots, Entered(c) PROVE RevokedStaysDead'
  BY <1>14 DEF Entered, Cookies
<1>15. ASSUME NEW c \in Slots, NotEntered(c) PROVE RevokedStaysDead'
  BY <1>15 DEF NotEntered, Cookies
<1>16. ASSUME NEW c \in Slots, HealthFails(c) PROVE RevokedStaysDead'
  BY <1>16 DEF HealthFails, Cookies, Request
<1>17. ASSUME NEW c \in Slots, WorkEnds(c) PROVE RevokedStaysDead'
  BY <1>17 DEF WorkEnds, Cookies
<1>18. ASSUME Cleanup PROVE RevokedStaysDead'
  BY <1>18 DEF Cleanup, Unexpired
<1>19. ASSUME ChangePassword PROVE RevokedStaysDead'
  BY <1>19 DEF ChangePassword
<1>20. ASSUME Tick PROVE RevokedStaysDead'
  BY <1>20 DEF Tick
<1>21. ASSUME CookieExpires PROVE RevokedStaysDead'
  BY <1>21 DEF CookieExpires
<1>22. CASE UNCHANGED vars
  BY <1>22 DEF vars
<1> QED
  BY <1>1, <1>2, <1>3, <1>4, <1>5, <1>6, <1>7, <1>8, <1>9, <1>10, <1>11, <1>12, <1>13, <1>14, <1>15, <1>16, <1>17, <1>18, <1>19, <1>20, <1>21, <1>22 DEF Next, Serve, Receive

-----------------------------------------------------------------------------
LEMMA InitHolds == Init => IInv
<1> SUFFICES ASSUME Init PROVE IInv
  OBVIOUS
<1> USE DEF Init
<1>1. ServerTypes
  BY SessionsAssumption DEF ServerTypes, SessionsAssumption
<1>2. CallTypes /\ CookieTypes
  BY DEF CallTypes, CookieTypes, Idle
<1>3. PageTypes
  BY DEF PageTypes
<1>4. IssuedFirst /\ LogoutsDelete
  BY DEF IssuedFirst, LogoutsDelete, Idle
<1>5. RevokedStaysDead
  BY DEF RevokedStaysDead
<1> QED
  BY <1>1, <1>2, <1>3, <1>4, <1>5 DEF IInv

LEMMA Inductive == Spec => []IInv
<1>1. IInv /\ [Next]_vars => IInv'
  BY StepServerTypes, StepCallTypes, StepPageTypes, StepCookieTypes, StepIssued, StepLogouts,
     StepRevoked DEF IInv
<1> QED
  BY <1>1, InitHolds, PTL DEF Spec

\* Every reachable state has the types TypeOK gives.
THEOREM TypeCorrect == Spec => []TypeOK
<1>1. IInv => TypeOK
  BY DEF IInv, ServerTypes, CallTypes, PageTypes, CookieTypes, TypeOK
<1> QED
  BY <1>1, Inductive, PTL

\* A session reported as logged out (api_logout) never comes back to auth_tokens,
\* unless the database refused to delete it.
THEOREM LoggedOutIsDead == Spec => []RevokedStaysDead
<1>1. IInv => RevokedStaysDead
  BY DEF IInv
<1> QED
  BY <1>1, Inductive, PTL

\* A row of auth_tokens goes when it has expired, or with a logout that carried it.
THEOREM SessionsEndOnlyForCause == Spec => SessionsEndForCause
<1> DEFINE Cause(tk) ==
      \/ Exp(tk) <= now
      \/ \E c \in Slots : call[c].kind = "logout" /\ call[c].token = tk /\ call'[c].at = "ok"
<1>1. ASSUME IInv, Next, NEW tk \in tokens \ tokens' PROVE Cause(tk)
  <2> USE DEF IInv, ServerTypes, CallTypes, Exp, server, page
  <2>1. ASSUME NEW c \in Slots, NEW new \in Tokens, LoginOk(c, new) PROVE Cause(tk)
    BY <1>1, <2>1, SessionsAssumption DEF LoginOk, Inserted, Unexpired, SessionsAssumption
  <2>2. ASSUME NEW c \in Slots, RefuseExpired(c) PROVE Cause(tk)
    BY <2>2 DEF RefuseExpired, Deleted
  <2>3. ASSUME NEW c \in Slots, Handle(c) PROVE Cause(tk)
    <3>1. call[c].kind = "logout" /\ call[c].token = tk
      BY <1>1, <2>3 DEF Handle, HandleLogout, HandleMe, HandleOther, Deleted
    <3>2. Answer(c, "ok")
      BY <2>3, <3>1 DEF Handle, HandleLogout, HandleMe, HandleOther
    <3> QED
      BY <1>1, <3>1, <3>2 DEF Answer
  <2>4. CASE Cleanup
    BY <1>1, <2>4, SessionsAssumption DEF Cleanup, Unexpired, SessionsAssumption
  <2>5. ASSUME NEW c \in Slots,
               LoginRefused(c) \/ RefuseUnknown(c) \/ Forbid(c) \/ Admit(c) \/ Lose(c)
        PROVE Cause(tk)
    BY <2>5 DEF LoginRefused, RefuseUnknown, Forbid, Admit, Lose
  <2>6. ASSUME NEW c \in Slots, Receive(c) PROVE Cause(tk)
    BY <2>6 DEF Receive, AutoLogout, LogoutEnds, Entered, NotEntered, HealthFails, WorkEnds, Cookies
  <2>7. ASSUME NEW c \in Slots, (\E kind \in Kinds : Work(c, kind)) \/ Login(c) \/ Visit(c) PROVE Cause(tk)
    BY <2>7 DEF Work, Login, Visit, Send
  <2>8. ASSUME NEW t \in Tabs, Leave(t) \/ Select(t) PROVE Cause(tk)
    BY <2>8 DEF Leave, Select
  <2>9. CASE ChangePassword \/ Tick \/ CookieExpires
    BY <2>9 DEF ChangePassword, Tick, CookieExpires
  <2> QED
    BY <1>1, <2>1, <2>2, <2>3, <2>4, <2>5, <2>6, <2>7, <2>8, <2>9 DEF Next, Serve
<1>2. IInv /\ [Next]_vars => [\A tk \in tokens \ tokens' : Cause(tk)]_vars
  BY <1>1
<1> QED
  BY <1>2, Inductive, PTL DEF Spec, SessionsEndForCause

-----------------------------------------------------------------------------
(***************************************************************************)
(* DevicesStore.                                                           *)
(***************************************************************************)

AskType == [n : 1..MaxAsks, page : 1..MaxId, filter : Filters,
            stage : {"sent", "counted", "answered"}, items : SUBSET Item, pages : 0..MaxId]

WriteType == [kind : {"none", "edit", "delete", "batch"}, ids : SUBSET Ids,
              stage : {"none", "sent", "answered"}]

\* An answer has no more rows than a page.
AnswersFitPage == \A a \in asks : Cardinality(a.items) <= PageSize

\* Refreshes under way are told apart by their numbers.
AsksAreNumbered ==
    \A a, b \in asks : a.n <= asked /\ (a.n = b.n => a = b)

\* In order, the newest refresh decides what is shown in the end, and unless the
\* search text has just changed it was sent for the filter the controls show.
NewestDecides ==
    inOrder /\ ~typing =>
        /\ (asks = {} /\ asked > 0) => shownFor = <<devicesPage, filter>>
        /\ asks # {} => \E a \in asks : a.n = asked /\ a.filter = filter

Pages == [g \in Filters |-> PagesOf(g)]
InRange(p, g) == p = 1 \/ p <= Pages[g]

\* One refresh at a time, in order, no row that left a filter and no search text
\* that waits: the page and the number of pages are never beyond what the filter has.
LoneAsksFit ==
    (alone /\ inOrder /\ ~left /\ ~typing) =>
        /\ \A a, b \in asks : a = b
        /\ \A a \in asks :
              /\ a.page = devicesPage /\ a.filter = filter /\ InRange(a.page, filter)
              /\ a.stage # "sent" => a.pages <= Pages[filter]
        /\ asks = {} => InRange(devicesPage, filter) /\ devicesPages <= Pages[filter]

StoreInv ==
    /\ StoreTypeOK
    /\ AnswersFitPage
    /\ AsksAreNumbered
    /\ NewestDecides
    /\ LoneAsksFit

LEMMA StoreNumbers ==
    /\ PageSize \in Nat \ {0} /\ MaxId \in Nat \ {0}
    /\ MaxAsks \in Nat /\ MaxPending \in Nat /\ MaxChanges \in Nat
    /\ IsFiniteSet(Ids) /\ Cardinality(Ids) = MaxId
<1>1. MaxId \in Nat \ {0}
  BY StoreAssumption
<1>2. IsFiniteSet(Ids) /\ Cardinality(Ids) = MaxId
  BY <1>1, FS_Interval DEF Ids
<1> QED BY <1>2, StoreAssumption

LEMMA MatchingBounded ==
    ASSUME StoreTypeOK, NEW g
    PROVE  /\ Matching(g) \subseteq DOMAIN rows /\ Matching(g) \subseteq Ids
           /\ IsFiniteSet(Matching(g)) /\ Cardinality(Matching(g)) \in 0..MaxId
<1>1. Matching(g) \subseteq DOMAIN rows /\ Matching(g) \subseteq Ids
  BY DEF Matching, StoreTypeOK
<1>2. IsFiniteSet(Matching(g)) /\ Cardinality(Matching(g)) <= MaxId
  BY <1>1, StoreNumbers, FS_Subset
<1>3. Cardinality(Matching(g)) \in Nat
  BY <1>2, FS_CardinalityType
<1> QED BY <1>1, <1>2, <1>3, StoreNumbers

\* Facts of integer division, for the number of pages and the rows of a page.
LEMMA PagesOfRows ==
    ASSUME NEW m \in Nat, NEW size \in Nat \ {0}
    PROVE  (m + size - 1) \div size \in 0..m
OBVIOUS

LEMMA MoreRowsMorePages ==
    ASSUME NEW m \in Nat, NEW k \in Nat, m <= k, NEW size \in Nat \ {0}
    PROVE  (m + size - 1) \div size <= (k + size - 1) \div size
OBVIOUS

LEMMA RowsOfPage ==
    ASSUME NEW k \in Nat, NEW size \in Nat \ {0}, NEW p \in Nat, (k \div size) + 1 = p
    PROVE  k \in (p - 1) * size .. (p - 1) * size + size - 1
OBVIOUS

LEMMA PagesBounded ==
    ASSUME StoreTypeOK, NEW g
    PROVE  PagesOf(g) \in 0..MaxId
<1>1. Cardinality(Matching(g)) \in 0..MaxId /\ Cardinality(Matching(g)) \in Nat
  BY MatchingBounded
<1>2. PagesOf(g) \in 0..Cardinality(Matching(g))
  BY <1>1, StoreNumbers, PagesOfRows DEF PagesOf
<1> QED BY <1>1, <1>2, StoreNumbers

\* A newer row has fewer rows before it on the list.
LEMMA NewerComesBefore ==
    ASSUME NEW S, S \subseteq Ids, NEW r \in S, NEW s \in S, r < s
    PROVE  Cardinality({q \in S : q > s}) < Cardinality({q \in S : q > r})
<1> DEFINE A == {q \in S : q > s}
           B == {q \in S : q > r}
<1>1. IsFiniteSet(S) /\ S \subseteq Int
  <2>1. IsFiniteSet(S)
    BY StoreNumbers, FS_Subset
  <2>2. S \subseteq Int
    BY DEF Ids
  <2> QED BY <2>1, <2>2
<1>2. A \in SUBSET B
  <2>1. \A q \in S : q > s => q > r
    BY <1>1
  <2> QED BY <2>1
<1>3. s \in B
  BY <1>1
<1>4. s \notin A
  BY <1>1
<1>5. IsFiniteSet(B)
  BY <1>1, FS_Subset
<1>6. IsFiniteSet(A) /\ Cardinality(A) <= Cardinality(B) /\ Cardinality(A) # Cardinality(B)
  <2> HIDE DEF A, B
  <2> QED BY <1>2, <1>3, <1>4, <1>5, FS_Subset
<1>7. Cardinality(A) \in Nat /\ Cardinality(B) \in Nat
  <2> HIDE DEF A, B
  <2> QED BY <1>5, <1>6, FS_CardinalityType
<1> QED BY <1>6, <1>7

\* A page has rows of the table, and no more than PageSize of them.
LEMMA PageBounded ==
    ASSUME StoreTypeOK, NEW p \in Nat, NEW g
    PROVE  PageOf(p, g) \subseteq Item /\ Cardinality(PageOf(p, g)) <= PageSize
<1> DEFINE S == Matching(g)
           before(r) == Cardinality({q \in S : q > r})
           T == (p - 1) * PageSize .. (p - 1) * PageSize + PageSize - 1
           f == [i \in PageOf(p, g) |-> before(i.id)]
<1>1. S \subseteq DOMAIN rows /\ S \subseteq Ids /\ IsFiniteSet(S)
  BY MatchingBounded
<1>2. rows \in [DOMAIN rows -> Row]
  BY DEF StoreTypeOK
<1>3. ASSUME NEW i \in PageOf(p, g)
      PROVE  /\ i.id \in S /\ i = [id |-> i.id, board |-> rows[i.id].board]
             /\ (before(i.id) \div PageSize) + 1 = p
  <2>1. PICK r \in Matching(g) :
            /\ i = [id |-> r, board |-> rows[r].board]
            /\ (Cardinality({q \in Matching(g) : q > r}) \div PageSize) + 1 = p
    BY <1>3 DEF PageOf
  <2>2. i.id = r
    BY <2>1
  <2> QED BY <2>1, <2>2
<1>4. PageOf(p, g) \subseteq Item
  <2> SUFFICES ASSUME NEW i \in PageOf(p, g) PROVE i \in Item
    OBVIOUS
  <2>1. i.id \in Ids /\ rows[i.id].board \in Boards /\ i = [id |-> i.id, board |-> rows[i.id].board]
    <3> HIDE DEF before
    <3> QED BY <1>1, <1>2, <1>3 DEF Row
  <2> QED BY <2>1 DEF Item
<1>5. ASSUME NEW r \in S PROVE before(r) \in Nat
  <2>1. IsFiniteSet({q \in S : q > r})
    BY <1>1, FS_Subset
  <2> QED BY <2>1, FS_CardinalityType
<1>6. \A r, s \in S : before(r) = before(s) => r = s
  <2> SUFFICES ASSUME NEW r \in S, NEW s \in S, before(r) = before(s) PROVE r = s
    OBVIOUS
  <2>1. r \in Int /\ s \in Int
    BY <1>1 DEF Ids
  <2>2. r < s => before(s) < before(r)
    BY <1>1, NewerComesBefore
  <2>3. s < r => before(r) < before(s)
    BY <1>1, NewerComesBefore
  <2>4. before(r) \in Nat /\ before(s) \in Nat
    BY <1>5
  <2> HIDE DEF before
  <2> QED BY <2>1, <2>2, <2>3, <2>4
<1>7. \A i \in PageOf(p, g) : f[i] \in T
  <2> SUFFICES ASSUME NEW i \in PageOf(p, g) PROVE before(i.id) \in T
    OBVIOUS
  <2>1. i.id \in S /\ (before(i.id) \div PageSize) + 1 = p
    BY <1>3
  <2>2. before(i.id) \in Nat
    BY <1>5, <2>1
  <2> HIDE DEF before
  <2> QED BY <2>1, <2>2, StoreNumbers, RowsOfPage
<1>8. \A i, j \in PageOf(p, g) : f[i] = f[j] => i = j
  <2> SUFFICES ASSUME NEW i \in PageOf(p, g), NEW j \in PageOf(p, g), before(i.id) = before(j.id)
               PROVE  i = j
    OBVIOUS
  <2> HIDE DEF before
  <2>1. i.id = j.id
    BY <1>3, <1>6
  <2> QED BY <1>3, <2>1
<1>9. f \in Injection(PageOf(p, g), T)
  <2>1. f \in [PageOf(p, g) -> T]
    <3> HIDE DEF before, T
    <3> QED BY <1>7
  <2> HIDE DEF f, T
  <2> QED BY <1>8, <2>1 DEF Injection, IsInjective
<1>10. IsFiniteSet(T) /\ Cardinality(T) = PageSize
  <2>1. (p - 1) * PageSize \in Int /\ PageSize \in Nat \ {0}
    BY StoreNumbers
  <2>2. \A a \in Int : IsFiniteSet(a .. a + PageSize - 1) /\ Cardinality(a .. a + PageSize - 1) = PageSize
    BY <2>1, FS_Interval
  <2> QED BY <2>1, <2>2
<1>11. Cardinality(PageOf(p, g)) <= Cardinality(T)
  <2> HIDE DEF f, T
  <2> QED BY <1>9, <1>10, FS_Injection
<1> HIDE DEF T
<1> QED BY <1>4, <1>10, <1>11

LEMMA AskTypes ==
    ASSUME StoreInv, NEW p \in 1..MaxId, NEW f \in Filters, Ask(p, f)
    PROVE  /\ asks' \subseteq AskType /\ asked' \in 0..MaxAsks /\ alone' \in BOOLEAN
           /\ AnswersFitPage'
<1> DEFINE new == [n |-> asked + 1, page |-> p, filter |-> f, stage |-> "sent",
                   items |-> {}, pages |-> 0]
<1>1. asks' = asks \cup {new} /\ asked' = asked + 1 /\ alone' = (alone /\ asks = {})
  BY DEF Ask
<1>2. asked \in 0..MaxAsks /\ asked < MaxAsks /\ asks \subseteq AskType
  BY DEF Ask, StoreInv, StoreTypeOK, AskType
<1>3. new \in AskType
  BY <1>2, StoreNumbers DEF AskType
<1>4. Cardinality(new.items) <= PageSize
  BY FS_EmptySet, StoreNumbers
<1>5. AnswersFitPage'
  <2> HIDE DEF new
  <2> QED BY <1>1, <1>4 DEF AnswersFitPage, StoreInv
<1>6. asks' \subseteq AskType
  <2> HIDE DEF new
  <2> QED BY <1>1, <1>2, <1>3
<1>7. alone' \in BOOLEAN
  BY <1>1
<1> QED BY <1>1, <1>2, <1>5, <1>6, <1>7, StoreNumbers

LEMMA StepStoreTypes ==
    StoreInv /\ [StoreNext]_storeVars => StoreTypeOK' /\ AnswersFitPage'
<1> SUFFICES ASSUME StoreInv, [StoreNext]_storeVars PROVE StoreTypeOK' /\ AnswersFitPage'
  OBVIOUS
<1>0. /\ StoreTypeOK /\ AnswersFitPage /\ write \in WriteType
      /\ \A g \in Groups \cup {All}, t \in Texts \cup {NoText} : <<g, t>> \in Filters
      /\ filter[1] \in Groups \cup {All} /\ filter[2] \in Texts \cup {NoText}
  BY DEF StoreInv, StoreTypeOK, WriteType, Filters
<1> USE DEF StoreTypeOK, AnswersFitPage, table, shown, controls, refreshes, started
<1>1. ASSUME NEW a \in asks, Count(a) PROVE StoreTypeOK' /\ AnswersFitPage'
  <2> DEFINE new == [a EXCEPT !.stage = "counted", !.pages = PagesOf(a.filter)]
  <2>1. PagesOf(a.filter) \in 0..MaxId
    BY <1>0, PagesBounded
  <2>2. a \in AskType /\ Cardinality(a.items) <= PageSize
    BY <1>0 DEF AskType
  <2>3. new \in AskType /\ new.items = a.items
    BY <2>1, <2>2 DEF AskType
  <2>4. asks' = (asks \ {a}) \cup {new}
    BY <1>1 DEF Count
  <2> HIDE DEF new
  <2>5. asks' \subseteq AskType /\ AnswersFitPage'
    BY <1>0, <2>2, <2>3, <2>4 DEF AskType
  <2> QED BY <1>0, <1>1, <2>5 DEF Count, AskType
<1>2. ASSUME NEW a \in asks, Fetch(a) PROVE StoreTypeOK' /\ AnswersFitPage'
  <2> DEFINE new == [a EXCEPT !.stage = "answered", !.items = PageOf(a.page, a.filter)]
  <2>1. a \in AskType /\ a.page \in Nat
    BY <1>0 DEF AskType
  <2>2. PageOf(a.page, a.filter) \subseteq Item /\ Cardinality(PageOf(a.page, a.filter)) <= PageSize
    BY <1>0, <2>1, PageBounded
  <2>3. new \in AskType /\ new.items = PageOf(a.page, a.filter)
    BY <2>1, <2>2 DEF AskType
  <2>4. asks' = (asks \ {a}) \cup {new}
    BY <1>2 DEF Fetch
  <2> HIDE DEF new
  <2>5. asks' \subseteq AskType /\ AnswersFitPage'
    BY <1>0, <2>2, <2>3, <2>4 DEF AskType
  <2> QED BY <1>0, <1>2, <2>5 DEF Fetch, AskType
<1>3. ASSUME NEW a \in asks, AnswerComes(a) PROVE StoreTypeOK' /\ AnswersFitPage'
  <2>1. a \in AskType /\ Cardinality(a.items) <= PageSize
    BY <1>0 DEF AskType
  <2>2. /\ devices' \subseteq Item /\ Cardinality(devices') <= PageSize
        /\ devicesPage' \in 1..MaxId /\ devicesPages' \in 0..MaxId
        /\ shownFor' \in (1..MaxId) \X Filters
    BY <1>3, <2>1 DEF AnswerComes, AskType
  <2>3. asks' \subseteq asks /\ inOrder' \in BOOLEAN
    BY <1>3 DEF AnswerComes
  <2> QED BY <1>0, <1>3, <2>2, <2>3 DEF AnswerComes
<1>4. ASSUME NEW a \in asks, AnswerFails(a) PROVE StoreTypeOK' /\ AnswersFitPage'
  <2>1. asks' \subseteq asks /\ inOrder' \in BOOLEAN
    BY <1>4 DEF AnswerFails
  <2> QED BY <1>0, <1>4, <2>1 DEF AnswerFails
<1>5. CASE Delete
  <2>1. DOMAIN rows' \subseteq Ids /\ rows' \in [DOMAIN rows' -> Row]
    BY <1>0, <1>5 DEF Delete
  <2>2. changes' \in 0..MaxChanges
    BY <1>0, <1>5, StoreNumbers DEF Delete, Change
  <2>3. write' \in WriteType
    BY <1>0, <1>5 DEF Delete, WriteType
  <2> QED BY <1>0, <1>5, <2>1, <2>2, <2>3 DEF Delete
<1>6. ASSUME NEW r \in Ids, OtherDeletes(r) PROVE StoreTypeOK' /\ AnswersFitPage'
  <2>1. DOMAIN rows' \subseteq Ids /\ rows' \in [DOMAIN rows' -> Row]
    BY <1>0, <1>6 DEF OtherDeletes
  <2>2. changes' \in 0..MaxChanges
    BY <1>0, <1>6, StoreNumbers DEF OtherDeletes, Change
  <2> QED BY <1>0, <1>6, <2>1, <2>2 DEF OtherDeletes
<1>7. ASSUME NEW r \in Ids, NEW row \in Row, ScanAdds(r, row) PROVE StoreTypeOK' /\ AnswersFitPage'
  <2>1. DOMAIN rows' \subseteq Ids /\ rows' \in [DOMAIN rows' -> Row]
    BY <1>0, <1>7 DEF ScanAdds
  <2>2. changes' \in 0..MaxChanges
    BY <1>0, <1>7, StoreNumbers DEF ScanAdds, Change
  <2> QED BY <1>0, <1>7, <2>1, <2>2 DEF ScanAdds
<1>18. ASSUME NEW r \in Ids, NEW row \in Row, Rewrite(r, row), write' \in WriteType,
              UNCHANGED <<shown, controls, selectedIds, refreshes>>
       PROVE  StoreTypeOK' /\ AnswersFitPage'
  <2>1. DOMAIN rows' \subseteq Ids /\ rows' \in [DOMAIN rows' -> Row]
    BY <1>0, <1>18 DEF Rewrite
  <2>2. changes' \in 0..MaxChanges /\ left' \in BOOLEAN
    BY <1>0, <1>18, StoreNumbers DEF Rewrite, Change
  <2> QED BY <1>0, <1>18, <2>1, <2>2 DEF WriteType
<1>19. ASSUME NEW r \in Ids, NEW row \in Row, Edit(r, row) \/ OtherEdits(r, row)
       PROVE  StoreTypeOK' /\ AnswersFitPage'
  <2>1. write' \in WriteType
    BY <1>0, <1>19 DEF Edit, OtherEdits, WriteType
  <2> QED BY <1>18, <1>19, <2>1 DEF Edit, OtherEdits
<1>20. ASSUME NEW t \in Texts \cup {NoText}, Type(t) PROVE StoreTypeOK' /\ AnswersFitPage'
  <2>1. filter' \in Filters /\ typing' \in BOOLEAN
    BY <1>0, <1>20 DEF Type
  <2> QED BY <1>0, <1>20, <2>1 DEF Type
<1>21. CASE Debounced
  <2>1. Ask(1, filter) /\ 1 \in 1..MaxId /\ filter \in Filters
    BY <1>0, <1>21, StoreNumbers DEF Debounced
  <2>2. asks' \subseteq AskType /\ asked' \in 0..MaxAsks /\ alone' \in BOOLEAN /\ AnswersFitPage'
    BY <2>1, AskTypes
  <2> QED BY <1>0, <1>21, <2>1, <2>2 DEF Debounced, AskType
<1>8. CASE Refresh
  <2>1. Ask(devicesPage, filter) /\ devicesPage \in 1..MaxId /\ filter \in Filters
    BY <1>0, <1>8 DEF Refresh
  <2>2. asks' \subseteq AskType /\ asked' \in 0..MaxAsks /\ alone' \in BOOLEAN /\ AnswersFitPage'
    BY <2>1, AskTypes
  <2> QED BY <1>0, <1>8, <2>2 DEF Refresh, AskType
<1>9. ASSUME NEW g \in Groups \cup {All}, SetGroup(g) PROVE StoreTypeOK' /\ AnswersFitPage'
  <2>1. Ask(1, filter') /\ 1 \in 1..MaxId /\ filter' \in Filters
    BY <1>0, <1>9, StoreNumbers DEF SetGroup
  <2>2. asks' \subseteq AskType /\ asked' \in 0..MaxAsks /\ alone' \in BOOLEAN /\ AnswersFitPage'
    <3>1. PICK f \in Filters : f = filter' /\ Ask(1, f)
      BY <2>1
    <3> QED BY <2>1, <3>1, AskTypes
  <2> QED BY <1>0, <1>9, <2>1, <2>2 DEF SetGroup, AskType
<1>10. ASSUME NEW n \in Ids, SetDevicesPage(n) PROVE StoreTypeOK' /\ AnswersFitPage'
  <2>1. Ask(n, filter) /\ n \in 1..MaxId /\ filter \in Filters
    BY <1>0, <1>10 DEF SetDevicesPage, Ids
  <2>2. asks' \subseteq AskType /\ asked' \in 0..MaxAsks /\ alone' \in BOOLEAN /\ AnswersFitPage'
    BY <2>1, AskTypes
  <2> QED BY <1>0, <1>10, <2>1, <2>2 DEF SetDevicesPage, AskType
<1>11. ASSUME NEW d \in devices, Toggle(d) PROVE StoreTypeOK' /\ AnswersFitPage'
  <2> DEFINE ticked == {s \in selectedIds : s.id = d.id}
  <2>1. selectedIds' = IF ticked # {} THEN selectedIds \ ticked ELSE selectedIds \cup {d}
    BY <1>11 DEF Toggle
  <2>2. selectedIds' \subseteq Item /\ \A s, e \in selectedIds' : s.id = e.id => s = e
    <3>1. CASE ticked # {}
      BY <1>0, <2>1, <3>1
    <3>2. CASE ticked = {}
      <4>1. \A s \in selectedIds : s.id # d.id
        BY <3>2
      <4> QED BY <1>0, <2>1, <3>2, <4>1
    <3> QED BY <3>1, <3>2
  <2> QED BY <1>0, <1>11, <2>2 DEF Toggle
<1>12. ASSUME NEW kind \in {"edit", "delete", "batch"}, NEW ids \in SUBSET Ids, Start(kind, ids)
       PROVE  StoreTypeOK' /\ AnswersFitPage'
  BY <1>0, <1>12 DEF Start
<1>13. ASSUME NEW d \in devices, StartEdit(d) \/ DeleteOne(d) PROVE StoreTypeOK' /\ AnswersFitPage'
  BY <1>0, <1>12, <1>13 DEF StartEdit, DeleteOne, Item
<1>14. CASE BatchDeleteSelected
  <2> DEFINE ids == {s.id : s \in selectedIds}
  <2>1. ids \in SUBSET Ids
    BY <1>0 DEF Item
  <2>2. Start("batch", ids)
    BY <1>14 DEF BatchDeleteSelected
  <2> HIDE DEF ids
  <2> QED BY <1>12, <2>1, <2>2
<1>15. CASE WriteEnds
  <2>1. Ask(devicesPage, filter) /\ devicesPage \in 1..MaxId /\ filter \in Filters
    BY <1>0, <1>15 DEF WriteEnds
  <2>2. asks' \subseteq AskType /\ asked' \in 0..MaxAsks /\ alone' \in BOOLEAN /\ AnswersFitPage'
    BY <2>1, AskTypes
  <2>3. selectedIds' \subseteq selectedIds
    BY <1>15 DEF WriteEnds
  <2>4. write' \in WriteType
    BY <1>15 DEF WriteEnds, NoWrite, WriteType
  <2> QED BY <1>0, <1>15, <2>2, <2>3, <2>4 DEF WriteEnds, AskType, WriteType
<1>16. CASE WriteFails
  BY <1>0, <1>16 DEF WriteFails, NoWrite
<1>17. CASE UNCHANGED storeVars
  BY <1>0, <1>17 DEF storeVars
<1> QED
  BY <1>1, <1>2, <1>3, <1>4, <1>5, <1>6, <1>7, <1>8, <1>9, <1>10, <1>11, <1>13, <1>14, <1>15,
     <1>16, <1>17, <1>19, <1>20, <1>21
  DEF StoreNext

\* What a step does to the refreshes and the controls: a write, a scan and a change
\* of the selection leave them alone.
LEMMA OtherStoreSteps ==
    ASSUME StoreInv, [StoreNext]_storeVars
    PROVE  \/ \E a \in asks : Count(a) \/ Fetch(a) \/ AnswerComes(a) \/ AnswerFails(a)
           \/ \E g \in Groups \cup {All} : SetGroup(g)
           \/ Debounced
           \/ \E t \in Texts \cup {NoText} : Type(t)
           \/ \E n \in Ids : SetDevicesPage(n)
           \/ /\ Ask(devicesPage, filter)
              /\ UNCHANGED <<table, shown, controls>>
           \/ left' /\ UNCHANGED <<shown, controls, refreshes>>
           \/ /\ \E r \in Ids, row \in Row : Rewrite(r, row) \/ ScanAdds(r, row)
              /\ ~left'
              /\ UNCHANGED <<left, shown, controls, refreshes>>
           \/ UNCHANGED <<table, shown, controls, refreshes>>
<1>1. CASE Delete \/ \E r \in Ids : OtherDeletes(r)
  BY <1>1 DEF Delete, OtherDeletes
<1>2. ASSUME NEW r \in Ids, NEW row \in Row, Edit(r, row) \/ OtherEdits(r, row) \/ ScanAdds(r, row)
      PROVE  \/ left' /\ UNCHANGED <<shown, controls, refreshes>>
             \/ /\ Rewrite(r, row) \/ ScanAdds(r, row)
                /\ ~left'
                /\ UNCHANGED <<left, shown, controls, refreshes>>
  <2>1. left \in BOOLEAN
    BY DEF StoreInv, StoreTypeOK
  <2>2. CASE Edit(r, row) \/ OtherEdits(r, row)
    BY <2>1, <2>2 DEF Edit, OtherEdits, Rewrite
  <2>3. CASE ScanAdds(r, row)
    BY <2>1, <2>3 DEF ScanAdds
  <2> QED BY <1>2, <2>2, <2>3
<1>3. CASE Refresh \/ WriteEnds
  BY <1>3 DEF Refresh, WriteEnds
<1>4. CASE \E d \in devices : Toggle(d) \/ StartEdit(d) \/ DeleteOne(d)
  BY <1>4 DEF Toggle, StartEdit, DeleteOne, Start
<1>5. CASE BatchDeleteSelected \/ WriteFails
  BY <1>5 DEF BatchDeleteSelected, Start, WriteFails
<1>6. CASE UNCHANGED storeVars
  BY <1>6 DEF storeVars
<1> QED
  BY <1>1, <1>2, <1>3, <1>4, <1>5, <1>6 DEF StoreNext

\* A change of the group and the pause after a search text ask for the first page.
LEMMA FirstPageAsked ==
    ASSUME StoreInv, (\E g \in Groups \cup {All} : SetGroup(g)) \/ Debounced
    PROVE  /\ \E f \in Filters : f = filter' /\ Ask(1, f)
           /\ 1 \in 1..MaxId /\ devicesPage' = 1
           /\ UNCHANGED <<table, shown>>
<1>1. filter \in Filters /\ 1 \in 1..MaxId
  BY StoreNumbers DEF StoreInv, StoreTypeOK
<1>2. ASSUME NEW g \in Groups \cup {All}, SetGroup(g) PROVE filter' \in Filters /\ Ask(1, filter')
  BY <1>1, <1>2 DEF SetGroup, Filters
<1>3. CASE \E g \in Groups \cup {All} : SetGroup(g)
  BY <1>1, <1>2, <1>3 DEF SetGroup
<1>4. CASE Debounced
  BY <1>1, <1>4 DEF Debounced
<1> QED BY <1>3, <1>4

\* What a new refresh does to the numbers and to the newest one.
LEMMA AskIsNewest ==
    ASSUME StoreInv, NEW p \in 1..MaxId, NEW f \in Filters, Ask(p, f)
    PROVE  AsksAreNumbered' /\ \E a \in asks' : a.n = asked' /\ a.filter = f
<1> DEFINE new == [n |-> asked + 1, page |-> p, filter |-> f, stage |-> "sent",
                   items |-> {}, pages |-> 0]
<1>1. asks' = asks \cup {new} /\ asked' = asked + 1
  BY DEF Ask
<1>2. asked \in Nat /\ \A a \in asks : a.n \in Nat /\ a.n <= asked
  BY StoreNumbers DEF StoreInv, StoreTypeOK, AsksAreNumbered
<1>3. \A a, b \in asks : a.n = b.n => a = b
  BY DEF StoreInv, AsksAreNumbered
<1>4. new.n = asked + 1 /\ new.filter = f
  OBVIOUS
<1> HIDE DEF new
<1>5. \A a, b \in asks' : a.n <= asked' /\ (a.n = b.n => a = b)
  BY <1>1, <1>2, <1>3, <1>4
<1>6. new \in asks' /\ new.n = asked' /\ new.filter = f
  BY <1>1, <1>4
<1> QED BY <1>5, <1>6 DEF AsksAreNumbered

\* The server's two queries change neither number, page nor filter of a refresh.
Served(a) == IF a.stage = "sent" THEN [a EXCEPT !.stage = "counted", !.pages = PagesOf(a.filter)]
             ELSE [a EXCEPT !.stage = "answered", !.items = PageOf(a.page, a.filter)]

LEMMA ServedKeeps ==
    ASSUME StoreInv, NEW a \in asks, Count(a) \/ Fetch(a)
    PROVE  /\ asks' = (asks \ {a}) \cup {Served(a)}
           /\ Served(a).n = a.n /\ Served(a).page = a.page /\ Served(a).filter = a.filter
           /\ Served(a).stage # "sent"
           /\ Served(a).pages = IF a.stage = "sent" THEN PagesOf(a.filter) ELSE a.pages
           /\ UNCHANGED <<table, shown, controls, started>>
<1>1. a \in AskType
  BY DEF StoreInv, StoreTypeOK, AskType
<1>2. CASE Count(a)
  BY <1>1, <1>2 DEF Count, Served, AskType
<1>3. CASE Fetch(a)
  BY <1>1, <1>3 DEF Fetch, Served, AskType
<1> QED BY <1>2, <1>3

LEMMA StepNumbered ==
    StoreInv /\ [StoreNext]_storeVars => AsksAreNumbered'
<1> SUFFICES ASSUME StoreInv, [StoreNext]_storeVars PROVE AsksAreNumbered'
  OBVIOUS
<1>1. /\ devicesPage \in 1..MaxId /\ filter \in Filters /\ 1 \in 1..MaxId
      /\ \A n \in Ids : n \in 1..MaxId
  BY StoreNumbers DEF StoreInv, StoreTypeOK, Ids
<1>2. AsksAreNumbered
  BY DEF StoreInv
<1>3. ASSUME NEW a \in asks, Count(a) \/ Fetch(a) PROVE AsksAreNumbered'
  <2>1. asks' = (asks \ {a}) \cup {Served(a)} /\ Served(a).n = a.n /\ asked' = asked
    BY <1>3, ServedKeeps DEF started
  <2> QED BY <1>2, <2>1 DEF AsksAreNumbered
<1>4. ASSUME NEW a \in asks, AnswerComes(a) \/ AnswerFails(a) PROVE AsksAreNumbered'
  <2>1. asks' \subseteq asks /\ asked' = asked
    BY <1>4 DEF AnswerComes, AnswerFails, started
  <2> QED BY <1>2, <2>1 DEF AsksAreNumbered
<1>5. CASE (\E g \in Groups \cup {All} : SetGroup(g)) \/ Debounced
  <2>1. PICK f \in Filters : Ask(1, f)
    BY <1>5, FirstPageAsked
  <2> QED BY <1>1, <2>1, AskIsNewest
<1>6. ASSUME NEW n \in Ids, SetDevicesPage(n) PROVE AsksAreNumbered'
  BY <1>1, <1>6, AskIsNewest DEF SetDevicesPage
<1>7. CASE Ask(devicesPage, filter)
  BY <1>1, <1>7, AskIsNewest
<1>8. CASE UNCHANGED refreshes
  BY <1>2, <1>8 DEF AsksAreNumbered, refreshes, started
<1>9. ASSUME NEW t, Type(t) PROVE AsksAreNumbered'
  BY <1>8, <1>9 DEF Type
<1> QED
  BY <1>3, <1>4, <1>5, <1>6, <1>7, <1>8, <1>9, OtherStoreSteps

LEMMA StepNewest ==
    StoreInv /\ [StoreNext]_storeVars => NewestDecides'
<1> SUFFICES ASSUME StoreInv, [StoreNext]_storeVars PROVE NewestDecides'
  OBVIOUS
<1>1. /\ devicesPage \in 1..MaxId /\ filter \in Filters /\ 1 \in 1..MaxId
      /\ \A n \in Ids : n \in 1..MaxId
  BY StoreNumbers DEF StoreInv, StoreTypeOK, Ids
<1>2. NewestDecides
  BY DEF StoreInv
<1>3. ASSUME NEW g \in Filters, NEW p \in 1..MaxId, Ask(p, g), filter' = g PROVE NewestDecides'
  <2>1. \E a \in asks' : a.n = asked' /\ a.filter = g
    BY <1>3, AskIsNewest
  <2> QED BY <1>3, <2>1 DEF NewestDecides
<1>4. ASSUME NEW a \in asks, Count(a) \/ Fetch(a) PROVE NewestDecides'
  <2>1. /\ asks' = (asks \ {a}) \cup {Served(a)} /\ Served(a).n = a.n /\ Served(a).filter = a.filter
        /\ asked' = asked /\ inOrder' = inOrder /\ filter' = filter /\ typing' = typing
    BY <1>4, ServedKeeps DEF started, shown, controls
  <2> QED BY <1>2, <1>4, <2>1 DEF NewestDecides
<1>5. ASSUME NEW a \in asks, AnswerComes(a) PROVE NewestDecides'
  <2> SUFFICES ASSUME inOrder', ~typing'
               PROVE  /\ (asks' = {} /\ asked' > 0) => shownFor' = <<devicesPage', filter'>>
                      /\ asks' # {} => \E b \in asks' : b.n = asked' /\ b.filter = filter'
    BY DEF NewestDecides
  <2>1. /\ inOrder /\ ~typing /\ \A b \in asks : b.n >= a.n
        /\ asks' = asks \ {a} /\ asked' = asked /\ filter' = filter
        /\ shownFor' = <<a.page, a.filter>> /\ devicesPage' = a.page
    BY <1>5 DEF AnswerComes, started
  <2>2. PICK e \in asks : e.n = asked /\ e.filter = filter
    BY <1>2, <2>1 DEF NewestDecides
  <2>3. CASE e = a
    <3>1. ASSUME NEW b \in asks PROVE b = a
      <4>1. b.n >= a.n /\ b.n <= asked /\ a.n = asked /\ b.n \in Int /\ asked \in Int
        BY <2>1, <2>2, <2>3, StoreNumbers DEF StoreInv, AsksAreNumbered, StoreTypeOK
      <4>2. b.n = a.n
        BY <4>1
      <4> QED BY <4>2 DEF StoreInv, AsksAreNumbered
    <3> QED BY <2>1, <2>2, <2>3, <3>1
  <2>4. CASE e # a
    BY <2>1, <2>2, <2>4
  <2> QED BY <2>3, <2>4
<1>6. ASSUME NEW a \in asks, AnswerFails(a) PROVE NewestDecides'
  BY <1>6 DEF AnswerFails, NewestDecides
<1>7. CASE (\E g \in Groups \cup {All} : SetGroup(g)) \/ Debounced
  BY <1>3, <1>7, FirstPageAsked
<1>8. ASSUME NEW n \in Ids, SetDevicesPage(n) PROVE NewestDecides'
  BY <1>1, <1>3, <1>8 DEF SetDevicesPage
<1>9. CASE Ask(devicesPage, filter) /\ UNCHANGED controls
  BY <1>1, <1>3, <1>9 DEF controls
<1>10. CASE UNCHANGED <<shown, controls, refreshes>>
  BY <1>2, <1>10 DEF NewestDecides, shown, controls, refreshes, started
<1>11. ASSUME NEW t, Type(t) PROVE NewestDecides'
  BY <1>11 DEF Type, NewestDecides
<1> QED
  BY <1>4, <1>5, <1>6, <1>7, <1>8, <1>9, <1>10, <1>11, OtherStoreSteps

LEMMA PagesTyped == StoreTypeOK => Pages \in [Filters -> Int]
BY PagesBounded DEF Pages

LEMMA PagesStay == rows' = rows => Pages' = Pages
BY DEF Pages, PagesOf, Matching

\* A step after which no row has left a filter takes no page away.
LEMMA PagesGrow ==
    ASSUME StoreTypeOK, StoreTypeOK', NEW r \in Ids, NEW row \in Row,
           Rewrite(r, row) \/ ScanAdds(r, row), ~left'
    PROVE  Pages' \in [Filters -> Int] /\ \A h \in Filters : Pages[h] <= Pages'[h]
<1> DEFINE pages(m) == (m + PageSize - 1) \div PageSize
<1>1. ASSUME NEW h \in Filters PROVE PagesOf(h)' \in Int /\ PagesOf(h) <= PagesOf(h)'
  <2>1. Matching(h) \subseteq DOMAIN rows /\ Cardinality(Matching(h)) \in Nat
    BY MatchingBounded
  <2>2. IsFiniteSet(Matching(h)') /\ Cardinality(Matching(h)') \in Nat
    <3>1. Matching(h)' \subseteq Ids
      BY DEF StoreTypeOK, Matching
    <3> QED BY <3>1, StoreNumbers, FS_Subset, FS_CardinalityType
  <2>3. Matching(h) \in SUBSET (Matching(h)')
    <3> SUFFICES ASSUME NEW q \in Matching(h) PROVE q \in Matching(h)'
      OBVIOUS
    <3>1. q \in DOMAIN rows /\ Matches(rows[q], h)
      BY DEF Matching
    <3>2. CASE Rewrite(r, row)
      <4>1. rows' = [rows EXCEPT ![r] = row] /\ row.grp = rows[r].grp /\ rows[r].words \subseteq row.words
        BY <3>2 DEF Rewrite
      <4>2. q \in DOMAIN rows' /\ Matches(rows'[q], h)
        <5>1. CASE q = r
          BY <3>1, <4>1, <5>1 DEF Matches
        <5>2. CASE q # r
          BY <3>1, <4>1, <5>2
        <5> QED BY <5>1, <5>2
      <4> QED BY <4>2 DEF Matching
    <3>3. CASE ScanAdds(r, row)
      <4>1. q # r
        <5>1. q < r /\ r \in Int
          BY <3>1, <3>3 DEF ScanAdds, Ids
        <5> QED BY <5>1
      <4>2. q \in DOMAIN rows' /\ rows'[q] = rows[q]
        BY <3>1, <3>3, <4>1 DEF ScanAdds
      <4> QED BY <3>1, <4>2 DEF Matching
    <3> QED BY <3>2, <3>3
  <2>4. Cardinality(Matching(h)) <= Cardinality(Matching(h)')
    BY <2>2, <2>3, FS_Subset
  <2>5. pages(Cardinality(Matching(h))) <= pages(Cardinality(Matching(h)'))
    BY <2>1, <2>2, <2>4, StoreNumbers, MoreRowsMorePages
  <2>6. pages(Cardinality(Matching(h)')) \in Int
    BY <2>2, StoreNumbers, PagesOfRows
  <2> QED BY <2>5, <2>6 DEF PagesOf
<1> QED BY <1>1 DEF Pages

LEMMA AskFits ==
    ASSUME StoreInv, NEW p \in 1..MaxId, NEW f \in Filters, Ask(p, f), alone', InRange(p, f)',
           devicesPage' = p, filter' = f
    PROVE  LoneAsksFit'
<1> DEFINE new == [n |-> asked + 1, page |-> p, filter |-> f, stage |-> "sent",
                   items |-> {}, pages |-> 0]
<1>1. asks = {} /\ asks' = asks \cup {new}
  BY DEF Ask
<1>2. asks' = {new}
  BY <1>1
<1>3. new.page = p /\ new.filter = f /\ new.stage = "sent"
  OBVIOUS
<1> HIDE DEF new
<1> QED BY <1>2, <1>3 DEF LoneAsksFit, InRange

LEMMA StepLoneAsks ==
    StoreInv /\ [StoreNext]_storeVars => LoneAsksFit'
<1> SUFFICES ASSUME StoreInv, [StoreNext]_storeVars, alone', inOrder', ~left', ~typing'
             PROVE  LoneAsksFit'
  BY DEF LoneAsksFit
<1>1. /\ devicesPage \in 1..MaxId /\ filter \in Filters /\ 1 \in 1..MaxId
      /\ \A n \in Ids : n \in 1..MaxId
  BY StoreNumbers DEF StoreInv, StoreTypeOK, Ids
<1>2. LoneAsksFit
  BY DEF StoreInv
<1>3. ASSUME NEW a \in asks, Count(a) \/ Fetch(a) PROVE LoneAsksFit'
  <2>1. PICK new :
            /\ asks' = (asks \ {a}) \cup {new}
            /\ new.page = a.page /\ new.filter = a.filter /\ new.stage # "sent"
            /\ new.pages = IF a.stage = "sent" THEN Pages[a.filter] ELSE a.pages
            /\ UNCHANGED <<table, shown, controls, started>>
    <3>1. a.filter \in Filters
      BY DEF StoreInv, StoreTypeOK
    <3> QED BY <1>3, <3>1, ServedKeeps DEF Pages
  <2>2. alone /\ inOrder /\ ~left /\ ~typing /\ rows' = rows /\ devicesPage' = devicesPage /\ filter' = filter
    BY <2>1 DEF table, shown, controls, started
  <2>3. /\ asks = {a} /\ a.page = devicesPage /\ a.filter = filter /\ InRange(a.page, filter)
        /\ a.stage # "sent" => a.pages <= Pages[filter]
    BY <1>2, <2>2 DEF LoneAsksFit
  <2>4. asks' = {new}
    BY <2>1, <2>3
  <2>5. Pages[filter] \in Int /\ Pages' = Pages
    BY <1>1, <2>2, PagesTyped, PagesStay DEF StoreInv
  <2>6. (new.page = 1 \/ new.page <= Pages'[filter']) /\ new.pages <= Pages'[filter']
    BY <2>1, <2>2, <2>3, <2>5 DEF InRange
  <2> QED BY <2>1, <2>2, <2>3, <2>4, <2>6 DEF LoneAsksFit, InRange
<1>4. ASSUME NEW a \in asks, AnswerComes(a) PROVE LoneAsksFit'
  <2>1. /\ alone /\ inOrder /\ ~left /\ ~typing /\ rows' = rows /\ filter' = filter
        /\ asks' = asks \ {a} /\ a.stage = "answered"
        /\ devicesPage' = a.page /\ devicesPages' = a.pages
    BY <1>4 DEF AnswerComes, started, table
  <2>2. /\ asks = {a} /\ a.page = devicesPage /\ a.filter = filter /\ InRange(a.page, filter)
        /\ a.pages <= Pages[filter]
    BY <1>2, <2>1 DEF LoneAsksFit
  <2>3. asks' = {}
    BY <2>1, <2>2
  <2>4. Pages' = Pages
    BY <2>1, PagesStay
  <2> QED BY <2>1, <2>2, <2>3, <2>4 DEF LoneAsksFit, InRange
<1>5. ASSUME NEW a \in asks, AnswerFails(a) PROVE LoneAsksFit'
  BY <1>5 DEF AnswerFails
<1>6. CASE (\E g \in Groups \cup {All} : SetGroup(g)) \/ Debounced
  <2>1. PICK f \in Filters : f = filter' /\ Ask(1, f)
    BY <1>6, FirstPageAsked
  <2>2. devicesPage' = 1 /\ InRange(1, f)'
    BY <1>6, FirstPageAsked DEF InRange
  <2> QED BY <1>1, <2>1, <2>2, AskFits
<1>7. ASSUME NEW p \in 1..MaxId, Ask(p, filter), devicesPage' = p,
             p = devicesPage \/ p \in 1..(IF devicesPages > 1 THEN devicesPages ELSE 1),
             UNCHANGED <<table, inOrder, filter, typing>>
      PROVE  LoneAsksFit'
  <2>1. alone /\ inOrder /\ ~left /\ ~typing /\ asks = {} /\ rows' = rows
    BY <1>7 DEF Ask, table
  <2>2. InRange(devicesPage, filter) /\ devicesPages <= Pages[filter]
    BY <1>2, <2>1 DEF LoneAsksFit
  <2>3. Pages[filter] \in Int /\ Pages' = Pages /\ devicesPages \in Int
    BY <1>1, <2>1, PagesTyped, PagesStay DEF StoreInv, StoreTypeOK
  <2>4. p = 1 \/ p <= Pages[filter]
    BY <1>7, <2>2, <2>3 DEF InRange
  <2>5. InRange(p, filter)'
    BY <1>7, <2>3, <2>4 DEF InRange
  <2> QED BY <1>1, <1>7, <2>5, AskFits
<1>8. ASSUME NEW n \in Ids, SetDevicesPage(n) PROVE LoneAsksFit'
  BY <1>1, <1>7, <1>8 DEF SetDevicesPage, shown
<1>9. CASE Ask(devicesPage, filter) /\ UNCHANGED <<table, shown, controls>>
  BY <1>1, <1>7, <1>9 DEF shown, controls
<1>10. ASSUME UNCHANGED <<left, shown, controls, refreshes>>,
              Pages' \in [Filters -> Int], \A h \in Filters : Pages[h] <= Pages'[h]
       PROVE  LoneAsksFit'
  <2>1. /\ alone /\ inOrder /\ ~left /\ ~typing /\ asks' = asks
        /\ devicesPage' = devicesPage /\ devicesPages' = devicesPages /\ filter' = filter
    BY <1>10 DEF shown, controls, refreshes, started
  <2>2. /\ Pages[filter] \in Int /\ Pages[filter] <= Pages'[filter] /\ Pages'[filter] \in Int
    BY <1>1, <1>10, PagesTyped DEF StoreInv
  <2>3. ASSUME NEW n \in Int, n <= Pages[filter] PROVE n <= Pages'[filter]
    BY <2>2, <2>3
  <2>4. devicesPage \in Int /\ devicesPages \in Int /\ \A a \in asks : a.page \in Int /\ a.pages \in Int
    BY DEF StoreInv, StoreTypeOK
  <2> QED BY <1>2, <2>1, <2>3, <2>4 DEF LoneAsksFit, InRange
<1>11. ASSUME NEW r \in Ids, NEW row \in Row, Rewrite(r, row) \/ ScanAdds(r, row),
              UNCHANGED <<left, shown, controls, refreshes>>
       PROVE  LoneAsksFit'
  BY <1>10, <1>11, StepStoreTypes, PagesGrow DEF StoreInv
<1>12. CASE UNCHANGED <<table, shown, controls, refreshes>>
  <2>1. Pages \in [Filters -> Int] /\ Pages' = Pages
    BY <1>12, PagesTyped, PagesStay DEF table, StoreInv
  <2>2. \A h \in Filters : Pages[h] <= Pages'[h]
    BY <2>1
  <2> QED BY <1>10, <1>12, <2>1, <2>2 DEF table
<1>13. ASSUME NEW t, Type(t) PROVE LoneAsksFit'
  BY <1>13 DEF Type
<1> QED
  BY <1>3, <1>4, <1>5, <1>6, <1>8, <1>9, <1>11, <1>12, <1>13, OtherStoreSteps

LEMMA StoreInitHolds == StoreInit => StoreInv
<1> SUFFICES ASSUME StoreInit PROVE StoreInv
  OBVIOUS
<1> DEFINE n == Cardinality(Boards) - 1
<1>1. n <= MaxId /\ n \in Int
  BY StoreNumbers, StoreAssumption, FS_CardinalityType
<1>2. rows \in [1..n -> Row]
  BY DEF StoreInit, Tables
<1>3. DOMAIN rows = 1..n /\ 1..n \subseteq Ids
  BY <1>1, <1>2, StoreNumbers DEF Ids
<1>4. Cardinality(devices) = 0
  BY FS_EmptySet DEF StoreInit
<1> HIDE DEF n
<1>5. StoreTypeOK
  <2>1. DOMAIN rows \subseteq Ids /\ rows \in [DOMAIN rows -> Row]
    BY <1>2, <1>3
  <2>2. NoWrite \in WriteType
    BY DEF NoWrite, WriteType
  <2>3. 1 \in 1..MaxId /\ 0 \in 0..MaxId /\ 0 \in 0..MaxAsks /\ 0 \in 0..MaxChanges
        /\ 0 <= PageSize /\ <<All, NoText>> \in Filters
    BY StoreNumbers DEF Filters
  <2> QED BY <1>4, <2>1, <2>2, <2>3 DEF StoreInit, StoreTypeOK, WriteType
<1>6. Pages \in [Filters -> 0..MaxId] /\ filter \in Filters
  BY <1>5, PagesBounded DEF Pages, StoreTypeOK
<1> QED
  BY <1>5, <1>6, StoreNumbers
  DEF StoreInit, StoreInv, AnswersFitPage, AsksAreNumbered, NewestDecides, LoneAsksFit, InRange

LEMMA StoreInductive == StoreSpec => []StoreInv
<1>1. StoreInv /\ [StoreNext]_storeVars => StoreInv'
  BY StepStoreTypes, StepNumbered, StepNewest, StepLoneAsks DEF StoreInv
<1> QED
  BY StoreInitHolds, <1>1, PTL DEF StoreSpec

\* Types (stores/devices.js, /api/devices): the list has no more rows than a page,
\* and no device is selected twice, for any table and any size of a page.
THEOREM StoreTypeCorrect == StoreSpec => []StoreTypeOK
<1>1. StoreInv => StoreTypeOK
  BY DEF StoreInv
<1> QED
  BY StoreInductive, <1>1, PTL

\* However many refreshes overlap: when all are answered, and were answered in
\* order, the list is that of the page number and the filter shown (refresh).
THEOREM ListIsOfControls == StoreSpec => []ListMatchesControls
<1>1. StoreInv => ListMatchesControls
  BY DEF StoreInv, NewestDecides, ListMatchesControls
<1> QED
  BY StoreInductive, <1>1, PTL

\* Refreshes that do not overlap ask for no page their filter does not have, while no
\* row leaves a filter and no search text waits (the watcher of groupFilter, setDevicesPage).
THEOREM RequestsInRange == StoreSpec => RequestsStayInRange
<1>1. ASSUME StoreInv, [StoreNext]_storeVars,
             NEW a \in asks' \ asks, asks = {}, alone, inOrder, ~left, ~typing
      PROVE  a.page = 1 \/ a.page <= PagesOf(a.filter)
  <2>1. /\ filter \in Filters /\ Pages[filter] \in Int /\ Pages[filter] = PagesOf(filter)
        /\ devicesPages \in Int
    <3>1. filter \in Filters /\ devicesPages \in Int /\ Pages \in [Filters -> Int]
      BY <1>1, PagesTyped DEF StoreInv, StoreTypeOK
    <3>2. Pages[filter] = PagesOf(filter)
      BY <3>1 DEF Pages
    <3> QED BY <3>1, <3>2
  <2>2. InRange(devicesPage, filter) /\ devicesPages <= Pages[filter]
    BY <1>1 DEF StoreInv, LoneAsksFit
  <2>3. ASSUME NEW p, NEW f, Ask(p, f) PROVE a.page = p /\ a.filter = f
    BY <1>1, <2>3 DEF Ask
  <2>4. CASE (\E g \in Groups \cup {All} : SetGroup(g)) \/ Debounced
    BY <1>1, <2>3, <2>4, FirstPageAsked
  <2>5. ASSUME NEW n \in Ids, SetDevicesPage(n) PROVE n = 1 \/ n <= PagesOf(filter)
    BY <2>1, <2>2, <2>5 DEF SetDevicesPage, Ids
  <2>6. ASSUME NEW n \in Ids, SetDevicesPage(n) PROVE a.page = n /\ a.filter = filter
    BY <2>3, <2>6 DEF SetDevicesPage
  <2>7. CASE Ask(devicesPage, filter)
    BY <2>1, <2>2, <2>3, <2>7 DEF InRange
  <2>8. CASE UNCHANGED refreshes
    BY <1>1, <2>8 DEF refreshes
  <2>9. ASSUME NEW t, Type(t) PROVE FALSE
    BY <1>1, <2>9 DEF Type, refreshes
  <2> QED
    BY <1>1, <2>4, <2>5, <2>6, <2>7, <2>8, <2>9, OtherStoreSteps
<1>2. StoreInv /\ [StoreNext]_storeVars
      => [\A a \in asks' \ asks :
             asks = {} /\ alone /\ inOrder /\ ~left /\ ~typing =>
                 a.page = 1 \/ a.page <= PagesOf(a.filter)]_storeVars
  BY <1>1
<1> QED
  BY StoreInductive, <1>2, PTL DEF StoreSpec, RequestsStayInRange
=============================================================================
