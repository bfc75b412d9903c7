------------------------------ MODULE RateLimit ------------------------------
(***************************************************************************)
(* The sliding-window rate limiter of backend/ratelimit.py over the        *)
(* rate_events table of backend/db.py, as the SMS, dial and OTA handlers   *)
(* use it (RateLimiter.allow).  The callers are the worker threads of the  *)
(* two uvicorn processes (IPv4 and IPv6), which share one SQLite file:     *)
(* allow() is NOT one transaction but a clock read, a prune-and-count      *)
(* transaction, a second clock read and an insert transaction, and the     *)
(* steps of different callers interleave between them.  The periodic sweep *)
(* of backend/main.py runs beside them.                                    *)
(*                                                                         *)
(* A key stands for one (scope, rkey) pair, so it fixes its limiter.       *)
(***************************************************************************)
EXTENDS Integers, FiniteSets

CONSTANTS
    Callers,        \* threads of both processes that may be inside allow()
    Keys,           \* (scope, rkey) pairs
    MaxCalls,       \* limiter's _max, per key
    Period,         \* limiter's int(_period), per key
    MaxPeriodSeen,  \* _MAX_PERIOD_SEEN once every limiter is constructed
    MaxTime,        \* bound: last value of the clock
    MaxAdmits,      \* bound: calls admitted in a behaviour
    MaxFaults       \* bound: database errors in a behaviour

\* The constructor raises _MAX_PERIOD_SEEN to every period it is given.
ASSUME LimiterAssumption ==
    /\ IsFiniteSet(Callers) /\ Callers # {} /\ Keys # {}
    /\ MaxCalls \in [Keys -> Nat \ {0}]
    /\ Period \in [Keys -> Nat]
    /\ MaxPeriodSeen \in Nat
    /\ \A k \in Keys : Period[k] <= MaxPeriodSeen

ASSUME BoundAssumption ==
    MaxTime \in Nat /\ MaxAdmits \in Nat /\ MaxFaults \in Nat

VARIABLES
    now,         \* nowts(), in seconds
    events,      \* the rows of rate_events
    pc,          \* where each caller stands inside allow()
    key,         \* the key each caller was called with
    clk,         \* the clock value each caller has read for its next statement
    sweepClk,    \* the clock value the sweep has read, -1 when it is idle
    \* history
    admitted,    \* every call allow() let through
    unrecorded,  \* the admitted calls whose insert failed
    faults       \* database errors swallowed so far

db == <<events, admitted, unrecorded, faults>>
vars == <<now, events, pc, key, clk, sweepClk, admitted, unrecorded, faults>>

Event == [id : Nat, key : Keys, ts : Nat]
Points == {"idle", "counting", "admitting", "inserting", "probing"}

EventsOf(S, k) == {e \in S : e.key = k}

\* Callers that have passed the check and have not yet inserted their event.
Entering(k) == {c \in Callers : pc[c] \in {"admitting", "inserting"} /\ key[c] = k}

\* Mutants, used by PROJECT.json: an exclusive cutoff, a sweep twice as lazy.
PrunedExclusive(k, t) == {e \in events : e.key = k => e.ts > t - Period[k]}
SweptLate(t) == {e \in events : e.ts >= t - 2 * MaxPeriodSeen}

\* rate_count's DELETE with a cutoff computed from clock value t, and the sweep's.
Pruned(k, t) == {e \in events : e.key = k => e.ts >= t - Period[k]}
Swept(t) == {e \in events : e.ts >= t - MaxPeriodSeen}

Init ==
    /\ now = 0
    /\ events = {}
    /\ pc = [c \in Callers |-> "idle"]
    /\ key = [c \in Callers |-> CHOOSE k \in Keys : TRUE]
    /\ clk = [c \in Callers |-> 0]
    /\ sweepClk = -1
    /\ admitted = {}
    /\ unrecorded = {}
    /\ faults = 0

-----------------------------------------------------------------------------
Goto(c, point) == pc' = [pc EXCEPT ![c] = point]

\* Back to the handler: the call's locals are gone.
Return(c) ==
    /\ Goto(c, "idle")
    /\ clk' = [clk EXCEPT ![c] = 0]

\* Entry of allow(k): rate_count reads the clock before its transaction.
Call(c, k) ==
    /\ pc[c] = "idle"
    /\ Goto(c, "counting")
    /\ key' = [key EXCEPT ![c] = k]
    /\ clk' = [clk EXCEPT ![c] = now]
    /\ UNCHANGED <<now, sweepClk, db>>

\* Mutant: allow() compares with > instead of >=.
CountPassOneMore(c) ==
    LET kept == Pruned(key[c], clk[c]) IN
    /\ pc[c] = "counting"
    /\ Cardinality(EventsOf(kept, key[c])) <= MaxCalls[key[c]]
    /\ events' = kept
    /\ Goto(c, "admitting")
    /\ UNCHANGED <<now, key, clk, sweepClk, admitted, unrecorded, faults>>

\* rate_count's transaction finds fewer than _max events: the call passes.
CountPass(c) ==
    LET kept == Pruned(key[c], clk[c]) IN
    /\ pc[c] = "counting"
    /\ Cardinality(EventsOf(kept, key[c])) < MaxCalls[key[c]]
    /\ events' = kept
    /\ Goto(c, "admitting")
    /\ UNCHANGED <<now, key, clk, sweepClk, admitted, unrecorded, faults>>

\* ... or the window is full.  Dial and OTA answer 429 at once; the SMS handler
\* first asks remaining(), a second rate_count whose clock is read again.
CountRefuse(c) ==
    LET kept == Pruned(key[c], clk[c]) IN
    /\ pc[c] = "counting"
    /\ Cardinality(EventsOf(kept, key[c])) >= MaxCalls[key[c]]
    /\ events' = kept
    /\ \/ Return(c)
       \/ Goto(c, "probing") /\ clk' = [clk EXCEPT ![c] = now]
    /\ UNCHANGED <<now, key, sweepClk, admitted, unrecorded, faults>>

Remaining(c) ==
    /\ pc[c] = "probing"
    /\ events' = Pruned(key[c], clk[c])
    /\ Return(c)
    /\ UNCHANGED <<now, key, sweepClk, admitted, unrecorded, faults>>

\* rate_count swallows every exception and returns 0: below any _max, so the
\* call passes unchecked.  The transaction is rolled back.
CountFails(c) ==
    /\ pc[c] = "counting"
    /\ faults < MaxFaults
    /\ faults' = faults + 1
    /\ Goto(c, "admitting")
    /\ UNCHANGED <<now, key, clk, sweepClk, events, admitted, unrecorded>>

\* rate_add reads the clock for the row's ts, then waits for the write lock.
Stamp(c) ==
    /\ pc[c] = "admitting"
    /\ Goto(c, "inserting")
    /\ clk' = [clk EXCEPT ![c] = now]
    /\ UNCHANGED <<now, key, sweepClk, db>>

\* Mutant: the row is stamped with the time it expires.
NewEventAtExpiry(c) ==
    [id |-> Cardinality(admitted), key |-> key[c], ts |-> clk[c] + Period[key[c]]]

NewEvent(c) == [id |-> Cardinality(admitted), key |-> key[c], ts |-> clk[c]]

Insert(c) ==
    /\ pc[c] = "inserting"
    /\ Cardinality(admitted) < MaxAdmits
    /\ events' = events \cup {NewEvent(c)}
    /\ admitted' = admitted \cup {NewEvent(c)}
    /\ Return(c)
    /\ UNCHANGED <<now, key, sweepClk, unrecorded, faults>>

\* rate_add swallows the exception too: the call is admitted and not counted.
InsertFails(c) ==
    /\ pc[c] = "inserting"
    /\ Cardinality(admitted) < MaxAdmits
    /\ faults < MaxFaults
    /\ faults' = faults + 1
    /\ admitted' = admitted \cup {NewEvent(c)}
    /\ unrecorded' = unrecorded \cup {NewEvent(c)}
    /\ Return(c)
    /\ UNCHANGED <<now, key, sweepClk, events>>

\* cleanup_rate_events, called every minute with int(max_period_seen()).
SweepRead ==
    /\ sweepClk = -1
    /\ sweepClk' = now
    /\ UNCHANGED <<now, pc, key, clk, db>>

SweepDelete ==
    /\ sweepClk >= 0
    /\ events' = Swept(sweepClk)
    /\ sweepClk' = -1
    /\ UNCHANGED <<now, pc, key, clk, admitted, unrecorded, faults>>

SweepFails ==
    /\ sweepClk >= 0
    /\ faults < MaxFaults
    /\ faults' = faults + 1
    /\ sweepClk' = -1
    /\ UNCHANGED <<now, pc, key, clk, events, admitted, unrecorded>>

Tick ==
    /\ now < MaxTime
    /\ now' = now + 1
    /\ UNCHANGED <<pc, key, clk, sweepClk, db>>

-----------------------------------------------------------------------------
Step(c) ==
    \/ \E k \in Keys : Call(c, k)
    \/ CountPass(c)
    \/ CountRefuse(c)
    \/ Remaining(c)
    \/ CountFails(c)
    \/ Stamp(c)
    \/ Insert(c)
    \/ InsertFails(c)

Sweep == SweepRead \/ SweepDelete \/ SweepFails

Next == (\E c \in Callers : Step(c)) \/ Sweep \/ Tick

Spec == Init /\ [][Next]_vars

\* The clock advances and the background task keeps looping (it sleeps 60 s and
\* survives every exception); nobody is forced to call a limiter.
Fairness == WF_vars(Tick) /\ WF_vars(SweepRead) /\ WF_vars(SweepDelete \/ SweepFails)

FairSpec == Spec /\ Fairness

-----------------------------------------------------------------------------
\* Types of the table, the program counters and the history.
TypeOK ==
    /\ now \in Nat
    /\ events \subseteq Event
    /\ pc \in [Callers -> Points]
    /\ key \in [Callers -> Keys]
    /\ clk \in [Callers -> Nat]
    /\ sweepClk \in Nat \cup {-1}
    /\ admitted \subseteq Event
    /\ unrecorded \subseteq admitted
    /\ faults \in Nat

\* The calls of key k let through in the trailing period.
Window(k) == {e \in admitted : e.key = k /\ e.ts >= now - Period[k]}

\* What the check-then-insert of allow() really guarantees.  Each of the other
\* callers can be between its count and its insert when a call is admitted, and
\* each swallowed database error lets one more call through: nothing else does.
Budget(k) == MaxCalls[k] + Cardinality(Callers) - 1 + faults

WindowWithinBudget == \A k \in Keys : Cardinality(Window(k)) <= Budget(k)

\* No admitted call leaves the table while it is inside its limiter's window,
\* whatever stale clock the prune or the sweep (which knows only the widest
\* period) was computed from; only a failed insert leaves a call uncounted.
AdmittedStayCounted ==
    \A e \in admitted :
        e \in events \/ e \in unrecorded \/ e.ts < now - Period[e.key]

\* The same promise with the whole history in view: allow() and its table
\* implement a limiter that knows nothing of tables, threads or transactions.
Promise == INSTANCE CallBudget WITH
    Limit <- [k \in Keys |-> MaxCalls[k] + Cardinality(Callers) - 1 + MaxFaults]

ImplementsCallBudget == Promise!Spec

\* What ratelimit.py:6-10 and db.py:101-106 say of the shared table: one budget
\* for both processes.  Stated for behaviours without database errors.
SingleSharedBudget ==
    faults = 0 => \A k \in Keys : Cardinality(Window(k)) <= MaxCalls[k]

\* Keys that go quiet leave no rows behind (db.py:245-247): an event old enough
\* for the sweep before the clock's bound is deleted.
QuietKeysLeaveNoRows ==
    \A i \in 0..MaxAdmits :
        (\E e \in events : e.id = i /\ e.ts + MaxPeriodSeen < MaxTime)
            ~> (\A e \in events : e.id # i)
=============================================================================
