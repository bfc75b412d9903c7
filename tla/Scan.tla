--------------------------------- MODULE Scan ---------------------------------
(***************************************************************************)
(* The scan workflow: the in-memory registry _active_scans and the         *)
(* background worker of backend/routes/scan.py, the periodic sweep of      *)
(* backend/main.py and the polling loop of the browser's scan store        *)
(* (frontend/src/stores/scan.js).  The worker, the sweep, the status       *)
(* handler and the browsers take turns: every update of a ScanState is     *)
(* one step under its lock.                                                *)
(*                                                                         *)
(* How one found device is saved is Registry's subject; here the outcomes  *)
(* of upsertdevice are told apart: written, "error", or a device returned  *)
(* without an error although its flush failed and nothing was written.     *)
(* Rows deleted meanwhile are Registry's subject too, the rows a refresh   *)
(* shows DevicesStore's.  The browsers are tabs that share one cookie; how *)
(* its session comes and goes is the subject of Sessions, and here the     *)
(* environment's choice, with what a 401 does to a running start().        *)
(***************************************************************************)
EXTENDS Integers

CONSTANTS
    Scans,       \* scan ids: uuid4, each used once
    Clients,     \* browser tabs
    Hosts,       \* device addresses
    Findings,    \* the sets of devices a scan can find
    MaxTicks,    \* POLL_MAX_TICKS
    MaxRestarts, \* bound: restarts of the server
    NoScan

ASSUME ScanAssumption ==
    /\ Findings \subseteq SUBSET Hosts
    /\ NoScan \notin Scans
    /\ MaxTicks \in Nat \ {0}
    /\ MaxRestarts \in Nat

VARIABLES
    known,     \* keys of _active_scans
    status,    \* ScanState.status
    results,   \* ScanState.results
    finished,  \* ScanState.finished_at > 0
    aged,      \* ... and more than SCAN_TTL ago
    worker,    \* where _run_scan_bg stands
    todo,      \* its items still to save
    written,   \* its list saved: devices a commit of it wrote ...
    unflushed, \* ... and devices returned without "error" by a failed flush
    failed,    \* its list failed
    restarts,  \* restarts so far
    client,    \* where each browser's start() stands
    scanId,    \* the scan it polls
    ticks,     \* polls left
    reply,     \* the status it was last answered
    authed,    \* authed of the auth store, per tab
    stale      \* the cookie the tabs share names no live session

state == <<status, results, finished, aged>>
run == <<worker, todo, written, unflushed, failed>>
browser == <<client, scanId, ticks, reply>>
login == <<authed, stale>>
scanVars == <<known, state, run, restarts, browser, login>>

Statuses == {"pending", "scanning", "saving", "done", "error"}
Running == {"queued", "probing", "probed", "saving", "closing"}

\* Calls whose 401 made the interceptor await a logout.
Hung == {"hungStart", "hungPoll", "hungRefresh"}

Nothing == [s \in Scans |-> {}]
Never == [s \in Scans |-> FALSE]
Pending == [s \in Scans |-> "pending"]

ScanInit ==
    /\ known = {}
    /\ status = Pending /\ results = Nothing
    /\ finished = Never /\ aged = Never
    /\ worker = [s \in Scans |-> "none"]
    /\ todo = Nothing /\ failed = Nothing
    /\ written = Nothing /\ unflushed = Nothing
    /\ restarts = 0
    /\ client = [c \in Clients |-> "idle"]
    /\ scanId = [c \in Clients |-> NoScan]
    /\ ticks = [c \in Clients |-> 0]
    /\ reply = [c \in Clients |-> "none"]
    /\ authed = [c \in Clients |-> TRUE]
    /\ stale = FALSE

-----------------------------------------------------------------------------
\* The worker, _run_scan_bg and _scan_worker.

SetStatus(s, v) == status' = [status EXCEPT ![s] = v]
Goto(s, point) == worker' = [worker EXCEPT ![s] = point]

\* The background task finds its state and starts probing.
Begin(s) ==
    /\ worker[s] = "queued"
    /\ s \in known
    /\ Goto(s, "probing")
    /\ SetStatus(s, "scanning")
    /\ UNCHANGED <<known, results, finished, aged, todo, written, unflushed, failed, restarts, browser, login>>

\* _scan_worker returns: the results are in place and the status is "done",
\* although nothing has been saved yet.
Probed(s) ==
    /\ worker[s] = "probing"
    /\ \E F \in Findings : results' = [results EXCEPT ![s] = F]
    /\ Goto(s, "probed")
    /\ SetStatus(s, "done")
    /\ UNCHANGED <<known, finished, aged, todo, written, unflushed, failed, restarts, browser, login>>

\* Mutant: the worker's error is not looked at and saving goes on.
ProbeFailsUnnoticed(s) ==
    /\ worker[s] = "probing"
    /\ Goto(s, "probed")
    /\ SetStatus(s, "error")
    /\ UNCHANGED <<known, results, finished, aged, todo, written, unflushed, failed, restarts, browser, login>>

\* _scan_worker raises inside, and _run_scan_bg returns at once.
ProbeFails(s) ==
    /\ worker[s] = "probing"
    /\ Goto(s, "closing")
    /\ SetStatus(s, "error")
    /\ UNCHANGED <<known, results, finished, aged, todo, written, unflushed, failed, restarts, browser, login>>

StartSaving(s) ==
    /\ worker[s] = "probed"
    /\ Goto(s, "saving")
    /\ SetStatus(s, "saving")
    /\ todo' = [todo EXCEPT ![s] = results[s]]
    /\ UNCHANGED <<known, results, finished, aged, written, unflushed, failed, restarts, browser, login>>

SaveItem(s, h) ==
    /\ worker[s] = "saving"
    /\ h \in todo[s]
    /\ todo' = [todo EXCEPT ![s] = @ \ {h}]
    /\ written' = [written EXCEPT ![s] = @ \cup {h}]
    /\ UNCHANGED <<known, state, worker, unflushed, failed, restarts, browser, login>>

\* The flush that parks another owner's address fails: upsertdevice rolls back and
\* returns the device as if it were saved.
SaveItemUnflushed(s, h) ==
    /\ worker[s] = "saving"
    /\ h \in todo[s]
    /\ todo' = [todo EXCEPT ![s] = @ \ {h}]
    /\ unflushed' = [unflushed EXCEPT ![s] = @ \cup {h}]
    /\ UNCHANGED <<known, state, worker, written, failed, restarts, browser, login>>

\* Mutant: a device that could not be saved is forgotten.
SaveItemFailsSilently(s, h) ==
    /\ worker[s] = "saving"
    /\ h \in todo[s]
    /\ todo' = [todo EXCEPT ![s] = @ \ {h}]
    /\ UNCHANGED <<known, state, worker, written, unflushed, failed, restarts, browser, login>>

\* upsertdevice returns an "error" or raises: the loop goes on with the next one.
SaveItemFails(s, h) ==
    /\ worker[s] = "saving"
    /\ h \in todo[s]
    /\ todo' = [todo EXCEPT ![s] = @ \ {h}]
    /\ failed' = [failed EXCEPT ![s] = @ \cup {h}]
    /\ UNCHANGED <<known, state, worker, written, unflushed, restarts, browser, login>>

\* No session can be opened: the whole task fails before the first item.
SaveAborts(s) ==
    /\ worker[s] = "saving"
    /\ todo[s] = results[s]
    /\ SetStatus(s, "error")
    /\ Goto(s, "closing")
    /\ todo' = [todo EXCEPT ![s] = {}]
    /\ UNCHANGED <<known, results, finished, aged, written, unflushed, failed, restarts, browser, login>>

\* Every item is dealt with: what counts as saved is published.
Publish(s) ==
    /\ worker[s] = "saving"
    /\ todo[s] = {}
    /\ results' = [results EXCEPT ![s] = written[s] \cup unflushed[s]]
    /\ SetStatus(s, IF failed[s] # {} THEN "error" ELSE "done")
    /\ failed' = [failed EXCEPT ![s] = {}]
    /\ Goto(s, "closing")
    /\ UNCHANGED <<known, finished, aged, todo, written, unflushed, restarts, browser, login>>

\* Mutant: a scan that could not save leaves without mark_done.
CloseOnlyDone(s) ==
    /\ worker[s] = "closing"
    /\ finished' = [finished EXCEPT ![s] = status[s] = "done"]
    /\ Goto(s, "ended")
    /\ UNCHANGED <<known, status, results, aged, todo, written, unflushed, failed, restarts, browser, login>>

\* mark_done, on every path.
Close(s) ==
    /\ worker[s] = "closing"
    /\ finished' = [finished EXCEPT ![s] = TRUE]
    /\ Goto(s, "ended")
    /\ UNCHANGED <<known, status, results, aged, todo, written, unflushed, failed, restarts, browser, login>>

Worker(s) ==
    \/ Begin(s)
    \/ Probed(s)
    \/ ProbeFails(s)
    \/ StartSaving(s)
    \/ \E h \in Hosts : SaveItem(s, h) \/ SaveItemUnflushed(s, h) \/ SaveItemFails(s, h)
    \/ SaveAborts(s)
    \/ Publish(s)
    \/ Close(s)

-----------------------------------------------------------------------------
\* The registry of scans.

\* SCAN_TTL goes by after a scan finished.
Age(s) ==
    /\ finished[s] /\ ~aged[s]
    /\ aged' = [aged EXCEPT ![s] = TRUE]
    /\ UNCHANGED <<known, status, results, finished, run, restarts, browser, login>>

\* Mutant: finished_at > 0 is not asked, and 0 is long ago.
KeptIfFinished == {s \in known : finished[s] /\ ~aged[s]}

\* What _cleanup_old_scans leaves.
Kept == {s \in known : ~(finished[s] /\ aged[s])}

\* The cleanup loop, every minute.
Cleanup ==
    /\ known' = Kept
    /\ UNCHANGED <<state, run, restarts, browser, login>>

\* The process is restarted: the registry, the states and the workers with their
\* locals are gone; the browsers stay, and so do the sessions, which are rows.
Restart ==
    /\ restarts < MaxRestarts
    /\ restarts' = restarts + 1
    /\ known' = {}
    /\ worker' = [s \in Scans |-> IF worker[s] = "none" THEN "none" ELSE "lost"]
    /\ status' = Pending /\ results' = Nothing
    /\ finished' = Never /\ aged' = Never
    /\ todo' = Nothing /\ failed' = Nothing
    /\ written' = Nothing /\ unflushed' = Nothing
    /\ UNCHANGED <<browser, login>>

-----------------------------------------------------------------------------
\* The browser: start() of the scan store.

\* scanstart registers the scan; the task runs after the answer is sent.
Register(s) ==
    /\ worker[s] = "none"
    /\ known' = known \cup {s}
    /\ Goto(s, "queued")
    /\ UNCHANGED <<state, todo, written, unflushed, failed, restarts, login>>

Start(c, s) ==
    /\ client[c] = "idle" /\ ~stale
    /\ Register(s)
    /\ client' = [client EXCEPT ![c] = "sleeping"]
    /\ scanId' = [scanId EXCEPT ![c] = s]
    /\ ticks' = [ticks EXCEPT ![c] = MaxTicks]
    /\ reply' = [reply EXCEPT ![c] = "none"]

\* The answer is lost and start() ends at once; the scan runs all the same.
StartAnswerLost(c, s) ==
    /\ client[c] = "idle" /\ ~stale
    /\ Register(s)
    /\ UNCHANGED browser

\* A 401 on a page that is logged in: the interceptor awaits a logout, and that
\* is refused like the call was.  (On a page logged out start() ends at once.)
Hangs(c, point) ==
    /\ stale /\ authed[c]
    /\ client' = [client EXCEPT ![c] = point]
    /\ UNCHANGED <<known, state, run, restarts, scanId, reply, login>>

StartRefused(c) ==
    /\ client[c] = "idle"
    /\ Hangs(c, "hungStart")
    /\ UNCHANGED ticks

\* Mutant: the polls are not counted.
Untimed(c) == ticks' = ticks

\* One round of the loop is used up.
Ticked(c) == ticks' = [ticks EXCEPT ![c] = @ - 1]

\* One poll reaches scanstatus, which sweeps first and answers 404 for a scan
\* it does not know.
Poll(c) ==
    /\ client[c] = "sleeping" /\ ~stale
    /\ known' = Kept
    /\ client' = [client EXCEPT ![c] = "answered"]
    /\ reply' = [reply EXCEPT ![c] = IF scanId[c] \in Kept THEN status[scanId[c]] ELSE "failed"]
    /\ Ticked(c)
    /\ UNCHANGED <<state, run, restarts, scanId, login>>

\* The poll is lost on its way, or is answered 401 on a page that is logged out.
PollFails(c) ==
    /\ client[c] = "sleeping"
    /\ client' = [client EXCEPT ![c] = "answered"]
    /\ reply' = [reply EXCEPT ![c] = "failed"]
    /\ Ticked(c)
    /\ UNCHANGED <<known, state, run, restarts, scanId, login>>

PollRefused(c) ==
    /\ client[c] = "sleeping"
    /\ Hangs(c, "hungPoll")
    /\ Ticked(c)

\* Mutant: the loop ends only on an answer.
NextStepForever(c) == IF reply[c] \in {"done", "error"} THEN "refreshing" ELSE "sleeping"

\* The loop stops at "done" or "error" and after the last poll; a failed query
\* or any other status keeps polling.
NextStep(c) ==
    IF reply[c] \in {"done", "error"} \/ ticks[c] <= 0 THEN "refreshing" ELSE "sleeping"

Receive(c) ==
    /\ client[c] = "answered"
    /\ client' = [client EXCEPT ![c] = NextStep(c)]
    /\ UNCHANGED <<known, state, run, restarts, scanId, ticks, reply, login>>

\* start() returns: its locals are gone.
Ends(c) ==
    /\ client' = [client EXCEPT ![c] = "idle"]
    /\ scanId' = [scanId EXCEPT ![c] = NoScan]
    /\ ticks' = [ticks EXCEPT ![c] = 0]
    /\ reply' = [reply EXCEPT ![c] = "none"]

\* The refresh that ends start() is answered, or fails and is caught.
Refreshed(c) ==
    /\ client[c] = "refreshing"
    /\ Ends(c)
    /\ UNCHANGED <<known, state, run, restarts, login>>

RefreshRefused(c) ==
    /\ client[c] = "refreshing"
    /\ Hangs(c, "hungRefresh")
    /\ UNCHANGED ticks

\* The awaited logout returns and the refused call fails at last: a poll is
\* counted as a failed one, start() and refresh() end.
Released(c) ==
    /\ client[c] \in Hung
    /\ authed' = [authed EXCEPT ![c] = FALSE]
    /\ IF client[c] = "hungPoll"
       THEN /\ client' = [client EXCEPT ![c] = "answered"]
            /\ reply' = [reply EXCEPT ![c] = "failed"]
            /\ UNCHANGED <<scanId, ticks>>
       ELSE Ends(c)
    /\ UNCHANGED <<known, state, run, restarts>>

\* Each refused logout sends another one.  The chain ends when one is accepted,
\* because a new login set a live cookie, which it revokes, or when the page was
\* logged out meanwhile and its 401 is let through.
LogoutSettles(c) ==
    /\ ~stale \/ ~authed[c]
    /\ Released(c)
    /\ stale' = TRUE

\* ... or when one of them is lost on its way.
LogoutLost(c) == Released(c) /\ UNCHANGED stale

Browser(c) ==
    \/ Poll(c) \/ PollFails(c) \/ PollRefused(c)
    \/ Receive(c)
    \/ Refreshed(c) \/ RefreshRefused(c)
    \/ LogoutSettles(c)

-----------------------------------------------------------------------------
\* The session behind the cookie: it is revoked or expires, a tab logs in, with
\* its own page or another one of the same browser, or a page is logged out.

SessionEnds ==
    /\ stale' = TRUE
    /\ UNCHANGED <<known, state, run, restarts, browser, authed>>

LogsIn(c) ==
    /\ stale' = FALSE
    /\ authed' \in {authed, [authed EXCEPT ![c] = TRUE]}
    /\ UNCHANGED <<known, state, run, restarts, browser>>

LogsOut(c) ==
    /\ authed' = [authed EXCEPT ![c] = FALSE]
    /\ UNCHANGED <<known, state, run, restarts, browser, stale>>

Session == SessionEnds \/ \E c \in Clients : LogsIn(c) \/ LogsOut(c)

ScanNext ==
    \/ \E s \in Scans : Worker(s) \/ Age(s)
    \/ Cleanup
    \/ Restart
    \/ \E c \in Clients :
        \/ \E s \in Scans : Start(c, s) \/ StartAnswerLost(c, s)
        \/ StartRefused(c)
        \/ Browser(c)
        \/ LogoutLost(c)
    \/ Session

ScanSpec == ScanInit /\ [][ScanNext]_scanVars

\* Threads run and timers fire: a worker that can step does, the TTL passes, the
\* cleanup loop survives every exception, a browser's timers fire and its requests
\* end in an answer or an error, but for a 401.  Nobody has to start a scan or to
\* log in, the server need not be restarted, and no logout need be lost.
ScanFairness ==
    /\ \A s \in Scans : WF_scanVars(Worker(s)) /\ WF_scanVars(Age(s))
    /\ WF_scanVars(Cleanup)
    /\ \A c \in Clients : WF_scanVars(Browser(c))

ScanFairSpec == ScanSpec /\ ScanFairness

-----------------------------------------------------------------------------
ScanTypeOK ==
    /\ known \subseteq Scans
    /\ status \in [Scans -> Statuses]
    /\ results \in [Scans -> SUBSET Hosts]
    /\ finished \in [Scans -> BOOLEAN] /\ aged \in [Scans -> BOOLEAN]
    /\ worker \in [Scans -> Running \cup {"none", "ended", "lost"}]
    /\ todo \in [Scans -> SUBSET Hosts]
    /\ written \in [Scans -> SUBSET Hosts] /\ unflushed \in [Scans -> SUBSET Hosts]
    /\ failed \in [Scans -> SUBSET Hosts]
    /\ restarts \in 0..MaxRestarts
    /\ client \in [Clients -> Hung \cup {"idle", "sleeping", "answered", "refreshing"}]
    /\ scanId \in [Clients -> Scans \cup {NoScan}]
    /\ ticks \in [Clients -> 0..MaxTicks]
    /\ reply \in [Clients -> Statuses \cup {"none", "failed"}]
    /\ authed \in [Clients -> BOOLEAN]
    /\ stale \in BOOLEAN

\* The sweeps, at any moment and from any browser's poll, never drop a scan that
\* is queued or at work: only a finished one has a finished_at (scan.py:130-134),
\* so the worker never finds its state gone.
RunningScansStayKnown == \A s \in Scans : worker[s] \in Running => s \in known

\* Once a scan has finished as "done" nothing it found was dropped on the way:
\* every device of its results, as the probes left them, was written by a commit,
\* or returned without an error by a failed flush (main.py:599-602), the one way
\* past the scan's list of failures.
NothingFoundIsDropped ==
    [][\A s \in Scans : status[s] = "saving" /\ status'[s] = "done" =>
        results[s] \subseteq written'[s] \cup unflushed'[s]]_scanVars

\* "error" is where the polling loop stops, so it must be the scan's last word: from
\* then on the scan, if its process still lives, stays at "error" and writes no row
\* the refresh after it could have missed.
NothingFollowsError ==
    [][\A c \in Clients : reply[c] = "error" =>
        \/ worker'[scanId[c]] = "lost"
        \/ /\ status'[scanId[c]] = "error"
           /\ written'[scanId[c]] = written[scanId[c]]]_scanVars

\* The registry does not accumulate scans (scan.py:139-141): each one finishes,
\* on whatever path, and is swept, or dies with the process.
ScansAreSwept == \A s \in Scans : s \in known ~> s \notin known

\* start() ends and gives the scan button back, although the server may be
\* restarted and forget the scan being polled, and whatever becomes of the session:
\* unless a call was answered 401 and the page keeps its stale token, for then the
\* interceptor's logout is refused for ever (StaleTokenLogsOut of Sessions).
ScanButtonComesBack ==
    \A c \in Clients :
        client[c] # "idle" ~> client[c] = "idle" \/ (client[c] \in Hung /\ stale /\ authed[c])

\* "The polling loop, status mapping and post-scan refresh" (scan.js:1-2): the
\* refresh that follows the status "done" comes after the scan saved its devices.
RefreshIsPostScan ==
    \A c \in Clients : client[c] = "refreshing" /\ reply[c] = "done" =>
        worker[scanId[c]] \notin {"probed", "saving"}
=============================================================================
