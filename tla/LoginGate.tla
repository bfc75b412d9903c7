------------------------------- MODULE LoginGate -------------------------------
(***************************************************************************)
(* The password gate of backend/routes/auth.py (api_login): two limiters   *)
(* over rate_events, one for the caller's address and one for the account  *)
(* in lower case, are probed before the password is compared, charged when *)
(* it is wrong, and the account's is cleared when it is right.             *)
(*                                                                         *)
(* api_login awaits nothing after it has the body, so within one process   *)
(* attempts run one after the other; the IPv4 and the IPv6 process share   *)
(* the table and interleave at every transaction.  Each transaction reads  *)
(* the clock first and may then wait for the write lock: its clock value   *)
(* is any second between the end of the step before it and its commit.     *)
(***************************************************************************)
EXTENDS Integers, FiniteSets

CONSTANTS
    Procs,          \* the uvicorn processes
    Addresses,      \* client addresses
    Names,          \* user names as typed
    Accounts,       \* user names in lower case
    Blank,          \* the empty user name: it has no account key
    Lower,          \* str.lower on Names
    Account,        \* BMUIUSER
    NonAscii,       \* a name that hmac.compare_digest does not accept
    Limit, Period,  \* _max and int(_period) of the limiter each key belongs to
    MaxPeriodSeen,  \* _MAX_PERIOD_SEEN
    MaxTime,        \* bound: last value of the clock
    MaxAttempts,    \* bound: logins submitted
    MaxFaults       \* bound: database errors

\* Addresses and accounts are the rkeys of two scopes, which share no row.
Keys == Addresses \cup Accounts

ASSUME GateAssumption ==
    /\ IsFiniteSet(Procs) /\ Procs # {}
    /\ Addresses \cap Accounts = {} /\ Blank \notin Keys
    /\ Lower \in [Names -> Accounts \cup {Blank}]
    /\ Account \in Names \ {NonAscii} /\ Lower[Account] # Blank
    /\ Limit \in [Keys -> Nat \ {0}] /\ Period \in [Keys -> Nat]
    /\ MaxPeriodSeen \in Nat /\ \A k \in Keys : Period[k] <= MaxPeriodSeen

ASSUME GateBounds == MaxTime \in Nat /\ MaxAttempts \in Nat /\ MaxFaults \in Nat

VARIABLES
    now,         \* nowts()
    events,      \* rows of rate_events, each with the attempt it was written for
    pc, req,     \* where each process stands in api_login, and with which request
    since,       \* when its last step ended
    attempts, faults,
    \* history
    guesses,     \* attempts whose password was compared and found wrong
    unrecorded,  \* <<attempt, key>> whose insert failed
    cleared      \* <<attempt, key>> deleted by a login to the account

history == <<guesses, unrecorded, cleared>>
vars == <<now, events, pc, req, since, attempts, faults, history>>

Event == [id : Nat, key : Keys, ts : Nat]
Secrets == {"right", "wrong", "odd"}
Request == [id : Nat, ip : Addresses \cup {Blank}, name : Names, secret : Secrets]
Guess == [id : Nat, keys : SUBSET Keys, ts : Nat]
Points == {"idle", "checkIp", "checkUser", "recordIp", "recordUser", "reset", "issue",
           "raised"}

\* The locals of a process that is in no attempt.
NoRequest == [id |-> 0, ip |-> Blank, name |-> Account, secret |-> "wrong"]

UserKey(p) == Lower[req[p].name]

KeysOf(p) == {req[p].ip, UserKey(p)} \ {Blank}

EventsOf(S, k) == {e \in S : e.key = k}

\* rate_count's DELETE for key k, with the cutoff of clock value t, and the sweep's.
Pruned(k, t) == {e \in events : e.key = k => e.ts >= t - Period[k]}
Swept(t) == {e \in events : e.ts >= t - MaxPeriodSeen}

Init ==
    /\ now = 0
    /\ events = {}
    /\ pc = [p \in Procs |-> "idle"]
    /\ req = [p \in Procs |-> NoRequest]
    /\ since = [p \in Procs |-> 0]
    /\ attempts = 0 /\ faults = 0
    /\ guesses = {} /\ unrecorded = {} /\ cleared = {}

-----------------------------------------------------------------------------
\* The clock values p's next transaction may have read.
Clocks(p) == since[p]..now

\* On to the next point of the attempt.
Goto(p, point) ==
    /\ pc' = [pc EXCEPT ![p] = point]
    /\ since' = [since EXCEPT ![p] = now]
    /\ UNCHANGED req

\* The attempt is answered, or its process is gone.
Finish(p) ==
    /\ pc' = [pc EXCEPT ![p] = "idle"]
    /\ since' = [since EXCEPT ![p] = 0]
    /\ req' = [req EXCEPT ![p] = NoRequest]

Fault == faults < MaxFaults /\ faults' = faults + 1

Submit(p) ==
    /\ pc[p] = "idle"
    /\ attempts < MaxAttempts
    /\ attempts' = attempts + 1
    /\ \E a \in Addresses, n \in Names, secret \in Secrets :
           /\ secret # "wrong" => n = Account
           /\ req' = [req EXCEPT ![p] = [id |-> attempts', ip |-> a, name |-> n, secret |-> secret]]
    /\ pc' = [pc EXCEPT ![p] = "checkIp"]
    /\ since' = [since EXCEPT ![p] = now]
    /\ UNCHANGED <<now, events, faults, history>>

\* A body that is no JSON object is answered 400; a user name that is a number
\* or a list has no strip(), which raises.
Malformed(p) ==
    /\ pc[p] = "idle"
    /\ Finish(p) \/ Goto(p, "raised")
    /\ UNCHANGED <<now, attempts, events, faults, history>>

\* Mutant: check_only lets one more through.
PassOneMore(p, k) ==
    \/ /\ \E t \in Clocks(p) :
             /\ Cardinality(EventsOf(Pruned(k, t), k)) <= Limit[k]
             /\ events' = Pruned(k, t)
       /\ UNCHANGED faults
    \/ Fault /\ UNCHANGED events

\* Mutant: allow() instead of check_only, so that passing the check costs a call.
PassCharged(p, k) ==
    /\ \E t \in Clocks(p) :
          /\ Cardinality(EventsOf(Pruned(k, t), k)) < Limit[k]
          /\ events' = Pruned(k, t) \cup {[id |-> req[p].id, key |-> k, ts |-> t]}
    /\ UNCHANGED faults

\* check_only: rate_count prunes and counts; an error counts as 0.
Pass(p, k) ==
    \/ /\ \E t \in Clocks(p) :
             /\ Cardinality(EventsOf(Pruned(k, t), k)) < Limit[k]
             /\ events' = Pruned(k, t)
       /\ UNCHANGED faults
    \/ Fault /\ UNCHANGED events

Refuse(p, k) ==
    /\ \E t \in Clocks(p) :
          /\ Cardinality(EventsOf(Pruned(k, t), k)) >= Limit[k]
          /\ events' = Pruned(k, t)
    /\ Finish(p)

\* _check_login_credentials: the name first, then the password; text outside
\* ASCII, or a password that is no text, makes compare_digest raise.
Judge(p) ==
    LET r == req[p]
        raises == r.name = NonAscii \/ (r.name = Account /\ r.secret = "odd")
    IN
    \/ raises /\ Goto(p, "raised") /\ UNCHANGED guesses
    \/ r.secret = "right" /\ Goto(p, "reset") /\ UNCHANGED guesses
    \/ /\ ~raises /\ r.secret # "right"
       /\ guesses' = guesses \cup {[id |-> r.id, keys |-> KeysOf(p), ts |-> now]}
       /\ Goto(p, "recordIp")

CheckIp(p) ==
    /\ pc[p] = "checkIp"
    /\ Pass(p, req[p].ip)
    /\ IF UserKey(p) = Blank THEN Judge(p) ELSE Goto(p, "checkUser") /\ UNCHANGED guesses
    /\ UNCHANGED <<now, attempts, unrecorded, cleared>>

CheckUser(p) ==
    /\ pc[p] = "checkUser"
    /\ Pass(p, UserKey(p))
    /\ Judge(p)
    /\ UNCHANGED <<now, attempts, unrecorded, cleared>>

Refused(p) ==
    /\ \/ pc[p] = "checkIp" /\ Refuse(p, req[p].ip)
       \/ pc[p] = "checkUser" /\ Refuse(p, UserKey(p))
    /\ UNCHANGED <<now, attempts, faults, history>>

\* rate_add for the address, then for the account; an error is swallowed.
Record(p) ==
    LET k == IF pc[p] = "recordIp" THEN req[p].ip ELSE UserKey(p) IN
    /\ pc[p] \in {"recordIp", "recordUser"}
    /\ \/ /\ \E t \in Clocks(p) : events' = events \cup {[id |-> req[p].id, key |-> k, ts |-> t]}
          /\ UNCHANGED <<faults, unrecorded>>
       \/ /\ Fault
          /\ unrecorded' = unrecorded \cup {<<req[p].id, k>>}
          /\ UNCHANGED events
    /\ IF pc[p] = "recordIp" /\ UserKey(p) # Blank THEN Goto(p, "recordUser") ELSE Finish(p)
    /\ UNCHANGED <<now, attempts, guesses, cleared>>

\* Mutant: the success clears the address's window too.
ResetRowsOfBoth(p) == {e \in events : e.key \in KeysOf(p)}

\* rate_reset of the account's key; an error is swallowed.
ResetRows(p) == {e \in events : e.key = UserKey(p)}

Reset(p) ==
    /\ pc[p] = "reset"
    /\ \/ /\ events' = events \ ResetRows(p)
          /\ cleared' = cleared \cup {<<e.id, e.key>> : e \in EventsOf(events, UserKey(p))}
          /\ UNCHANGED faults
       \/ Fault /\ UNCHANGED <<events, cleared>>
    /\ Goto(p, "issue")
    /\ UNCHANGED <<now, attempts, guesses, unrecorded>>

\* _issue_token: a database error here is not swallowed.
Issue(p) ==
    /\ pc[p] = "issue"
    /\ \/ Finish(p) /\ UNCHANGED faults
       \/ Goto(p, "raised") /\ Fault
    /\ UNCHANGED <<now, attempts, events, history>>

\* The exception handler answers 500.
Unhandled(p) ==
    /\ pc[p] = "raised"
    /\ Finish(p)
    /\ UNCHANGED <<now, attempts, events, faults, history>>

\* The process is killed and started again: what it had not recorded is lost.
Crash(p) ==
    /\ Fault
    /\ pc[p] # "idle"
    /\ unrecorded' = unrecorded \cup
          {<<req[p].id, k>> : k \in IF pc[p] = "recordIp" THEN KeysOf(p)
                                    ELSE IF pc[p] = "recordUser" THEN {UserKey(p)} ELSE {}}
    /\ Finish(p)
    /\ UNCHANGED <<now, attempts, events, guesses, cleared>>

\* cleanup_rate_events of either process, its clock read as long ago as may be.
Sweep ==
    /\ \E t \in 0..now : events' = Swept(t)
    /\ UNCHANGED <<now, pc, req, since, attempts, faults, history>>

Tick ==
    /\ now < MaxTime
    /\ now' = now + 1
    /\ UNCHANGED <<events, pc, req, since, attempts, faults, history>>

Attempt(p) ==
    \/ Submit(p) \/ Malformed(p) \/ CheckIp(p) \/ CheckUser(p) \/ Refused(p)
    \/ Record(p) \/ Reset(p) \/ Issue(p) \/ Unhandled(p) \/ Crash(p)

Next == (\E p \in Procs : Attempt(p)) \/ Sweep \/ Tick

Spec == Init /\ [][Next]_vars

-----------------------------------------------------------------------------
\* Types of the table, the attempts and the history.
TypeOK ==
    /\ now \in Nat
    /\ events \subseteq Event
    /\ pc \in [Procs -> Points]
    /\ req \in [Procs -> Request]
    /\ since \in [Procs -> Nat]
    /\ attempts \in Nat /\ faults \in Nat
    /\ guesses \subseteq Guess
    /\ unrecorded \subseteq Nat \X Keys
    /\ cleared \subseteq Nat \X Accounts

\* Wrong passwords tried against k in the trailing period, but for those a login
\* to the account has cleared.
Window(k) ==
    {g \in guesses : k \in g.keys /\ g.ts >= now - Period[k] /\ <<g.id, k>> \notin cleared}

\* What main.py:119-123 wants of the two limiters: against one address, and
\* against one account however its name is typed and wherever the callers sit,
\* no more wrong passwords are compared in a period than the limit, one for
\* every other process, and one for every error or crash.
GuessesWithinBudget ==
    \A k \in Keys : Cardinality(Window(k)) <= Limit[k] + Cardinality(Procs) - 1 + faults

\* Attempts of p that have passed k's check and are not yet recorded under k.
Entering(k) ==
    {p \in Procs : \/ pc[p] \in {"checkUser", "recordIp"} /\ req[p].ip = k
                   \/ pc[p] \in {"recordIp", "recordUser"} /\ UserKey(p) = k}

\* A wrong guess keeps counting, under each of its keys, until its window is
\* over: only a failed insert, or a login to that very account, ends it earlier.
\* The account's success forgives nothing to the address (auth.py:115-116).
FailuresStayCounted ==
    \A g \in guesses : \A k \in g.keys :
        \/ \E e \in events : e.id = g.id /\ e.key = k
        \/ <<g.id, k>> \in unrecorded \cup cleared
        \/ g.ts < now - Period[k]
        \/ \E p \in Entering(k) : req[p].id = g.id

\* Failures only: an attempt that is refused, or right, or raises, costs nothing
\* (ratelimit.py:47-55).
OnlyGuessesAreCharged ==
    \A e \in events : \E g \in guesses : g.id = e.id /\ e.key \in g.keys

\* FIX(L3), auth.py:85-86: a malformed body is answered 400; no exception leaves
\* api_login before there is an attempt at all.
MalformedIsRefused == \A p \in Procs : pc[p] = "raised" => req[p] # NoRequest
=============================================================================
