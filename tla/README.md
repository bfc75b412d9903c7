# A verification project for lvyou_smsweb

`lvyou_smsweb` is a web console for a LAN full of SMS/SIM boards.  A FastAPI
backend, run as two uvicorn processes (IPv4 and IPv6) over one SQLite file,
finds the boards, keeps them in a table, and sends them text messages, calls,
configurations and firmware upgrades; a Vue single-page application drives it.
This directory holds TLA+ modules that model the parts of it that keep state,
TLC configurations that check them on small instances, and proofs checked by
TLAPS for instances of every size.  Paths below are relative to the repository.

## 1. The system

| part | code | state | operations | hard because |
|---|---|---|---|---|
| rate limiter | `backend/ratelimit.py`, `backend/db.py` | `rate_events` | `allow`, `remaining`, `check_only`, `record`, `reset`, sweep | check and insert are two transactions of two processes; errors are swallowed; three clocks |
| device registry | `backend/main.py:287-305, 572-640`, `backend/routes/devices.py`, `backend/device_client.py` | `devices` | upsert, alias, group, SIM, OTA version, token, delete, batch delete, clean-up | DHCP moves devices meanwhile; one upsert is up to seven separate queries; ids are used again |
| scan workflow | `backend/routes/scan.py` | `_active_scans`, one `ScanState` each | start, worker, status, sweep | background thread, sweeps and pollers on one object; memory is lost on restart |
| scan store | `frontend/src/stores/scan.js` | `scanning` and the locals of `start()` | start | polls a status that moves under it |
| login sessions | `backend/routes/auth.py`, `backend/main.py:188-262, 382-412`, `backend/db.py:152-199` | `auth_tokens` | login, me, logout, token and CSRF checks, sweep | tabs share cookies; requests overlap with logouts and expiry |
| auth store | `frontend/src/stores/auth.js`, `frontend/src/api/` | `authed`, cookie jar | login, logout, restore, 401 interceptor | asynchronous answers, a handler that sends requests itself |
| batch configuration | `backend/routes/config.py` | the configuration on the device | preview, write, read-back, restore, preset | every step is a request that may fail, or take effect after its time-out |
| devices store | `frontend/src/stores/devices.js`, list, alias, group and delete routes | list, page, group, search text, selection | refresh, page, group, search, select, rename, regroup, delete | refreshes overlap and nothing orders their answers; a search text waits 250 ms |
| login gate | `backend/routes/auth.py:83-127`, `backend/ratelimit.py:47-61` | rows of `rate_events` for addresses and accounts | check, compare, record, reset, issue | two processes share the windows; a success forgives while failures are being recorded |
| batches | `backend/routes/devices.py:466-716`, `backend/device_client.py:166-246`, `frontend/src/composables/useOta.js` | SIM numbers, versions, the audit record | WiFi, SIM, forward, OTA check, OTA upgrade | one pool for all; answers are lost; rows go meanwhile; one failing task ends its batch |
| messaging and dialling | `backend/routes/devices.py:379-463`, `frontend/src/composables/useMessaging.js` | two forms, one loading flag for the whole page | send, dial | the flag is shared by workflows that overlap; three kinds of failure, two kinds of answer |
| allow-list | `backend/security.py:99-174` | a cache of local networks | check of an address | a cache filled under a lock and read without it, judged by an old clock |
| neighbour warm-up and probing | `backend/security.py:176-260`, `backend/routes/scan.py:153-208` | the kernel's neighbour table | ping, read, connect, verify | a pool shared with batches, a deadline, leases that move |
| start-up | `backend/db.py:39-136`, `backend/config.py`, `backend/security.py:284-310`, `start.sh`, `systemd/` | the schema | create, migrate, refuse, restart | two processes start at once over one file, and may be killed anywhere |
| audit log | `backend/audit.py` | `audit.log` and its backups | record, rotate | two processes rotate the same files; a rotation may be cut off |
| dialog store | `frontend/src/stores/dialog.js`, the two modals | one confirmation, one prompt | ask, answer | a dialog opens over another; the store outlives the page |
| notices, views, router, metrics | `frontend/src/`, `backend/main.py` | presentation, counters | | |
| installation | `install.sh`, `scripts/lvyou` | files on disk | | |

The browser calls the backend over HTTP.  Every request passes the token
middleware, except the login, the health check, the page itself and its assets.  Route handlers are ordinary functions that
run in worker threads, each with a database session of its own; batch routes
fan out over a shared thread pool.  One asyncio task in each process sweeps
scans, tokens, rate events and parked rows every minute.  Two processes share
the database, and nothing else: `_active_scans` belongs to one process.

What makes each part correct:

- *limiter*: the calls of a trailing period stay within the limit, up to a bounded
  overshoot; nothing inside a window is forgotten; nothing outside stays for ever.
- *registry*: an address belongs to one row and is never lost; a save undoes
  nobody's edit; what is reported as saved is in the table; no device is overwritten by
  another.
- *scan*: a running scan is never swept; what was found is saved or reported; the
  browser gets its button back, and nothing changes behind what it was told last.
- *sessions*: a logout is final; a session ends early only by a logout; a page that
  is refused ends on the login form; one that logs in starts with nothing selected.
- *batch configuration*: a sound device stays sound; edits are not lost.
- *devices store*: what is shown is what the controls say; what is deleted is what
  was ticked.
- *login gate*: guesses of a period are bounded, whatever the interleaving; a failure is
  forgotten only when its time is over or its account logs in; nothing else is charged.
- *batches*: the table says what a device was really given; an upgrade that happened is
  reported; one batch cannot fail another; every batch is answered.
- *messaging*: a text goes out once; what is audited happened; no text is lost; the
  buttons come back.
- *probing*: a board that answers is found, with its own MAC.
- *start-up*: nothing serves over half a schema; a kill leaves nothing that stops the next
  start; both processes serve in the end.

The allow-list, the audit file, the dialog store and what stands below them in the table
are not modelled; section 7 says why.

## 2. The modules

| module | what it is |
|---|---|
| `RateLimit` | `allow()` and `remaining()` over `rate_events`, the sweep, database errors |
| `CallBudget` | what a limiter promises: a clock, the calls let through, a limit on a window |
| `RateLimitProofs` | proofs about `RateLimit`, with its refinement of `CallBudget` |
| `Registry` | the `devices` table and all its writers |
| `RegistryProofs` | proofs about `Registry` and `Scan`: the table, and the scans that fill it |
| `Scan` | worker, registry of scans, sweeps, restart, and the browser's polling loop |
| `Sessions` | tokens, middleware, handlers, cookie jar, and the auth store of several tabs |
| `ConfigWrite` | the tasks of several batches on one device |
| `ConfigWriteProofs` | proofs about `ConfigWrite` |
| `DevicesStore` | the device list of one tab over the list and delete routes |
| `LoginGate` | `api_login` with its two limiters, in two processes |
| `Batches` | the batch routes, their tasks in the shared pool, the OTA dialog |
| `Messaging` | the panel, the loading flag, the two handlers and the device |
| `ScanProbe` | what `_scan_worker` finds: warm-up, neighbour table, probes |
| `Startup` | schema, settings and supervisors of two starting processes |
| `LoginGateProofs` | proofs about `LoginGate` |
| `SessionsProofs` | proofs about `Sessions` and `DevicesStore`: the browser's two stores |
| `BatchesProofs` | proofs about `Batches` and `ScanProbe`: the two users of the pool |
| `MessagingProofs` | proofs about `Messaging` |
| `StartupProofs` | proofs about `Startup` |
| `MC...` | the instances TLC checks |

`Scan`, `Sessions`, `DevicesStore`, `Messaging` and the OTA part of `Batches` each
compose a server part with the browser part that drives it.  `PROJECT.json` maps every
definition to the lines it models.  Where one proof module is about two components, the
names of one of them carry a prefix (`ScanInit`, `ProbeNext`, `StoreSpec`, ...), so that
both can be extended.

### RateLimit

A *caller* is a worker thread of either process that may be inside `allow()`; a
*key* stands for a pair of scope and rkey.  One call is four steps: `Call` (entry,
and the clock read of `rate_count`), `CountPass` / `CountRefuse` / `CountFails`
(the transaction that prunes and counts), `Stamp` (the clock read of `rate_add`)
and `Insert` / `InsertFails`.  The steps of callers interleave freely, because the
two transactions are separate.  `CountRefuse` may go on to `Remaining`, a second
count that the SMS handler makes for its error message.  `SweepRead` and
`SweepDelete` are the background sweep with its own, possibly old, clock value.
The history variables `admitted`, `unrecorded` and `faults` remember what was let
through, what could not be inserted and how many errors were swallowed.

The insert is where a call is admitted in the model.  In the code it is admitted
when `allow()` returns, right after; nothing can come between that matters.

### Registry

A row has the columns that the properties need: `devId`, `mac`, `ip`, `alias`,
`grp`, `token`, firmware and SIM numbers.  A board stands for its own DEV_ID, MAC,
firmware, numbers and token, so that a row that mixes two boards is visible as
such.  `Parked` is an `ip` column of the form `__stale_<id>_<ts>`.

A *saver* is a scan thread in `upsertdevice`: `Probe` (found by the scan, the ARP
table may or may not know its MAC), `Fetch` (`getdevicedata`), `LookupDevId`,
`LookupMac`, `LookupIp`, `LookupOther`, then the transaction: `Commit`, `FlushFails`
or `CommitFails`, and at last `Refresh`.  Sessions run with `autoflush=False`, and a
SELECT opens no transaction in SQLite's driver; so every SELECT sees what others
committed in between, and everything from the first flush to the commit is one
step.  `Merge` is SQLAlchemy's UPDATE: it sets only the columns whose value differs
from what was loaded.  An *editor* is a request thread: `Load`, for some operations
`Contact` with the device, `Reload` for the batch SIM route, then `WriteColumn` or
`DeleteRow`.  `BatchDelete` is one statement.  `Move` is DHCP.  `TimePasses` lets
the stale-device limit (seven days) go by and `CleanupStale` is the sweep.

### Scan

The worker's program counter follows `_run_scan_bg`: queued, probing, probed,
saving, closing, ended; `lost` is a worker whose process died.  Every update of a
`ScanState` is one step, as each is made under its lock.  An item that is saved ends in
one of three ways, as in `upsertdevice`: `SaveItem` wrote it, `SaveItemFails` got an
`error` or an exception, and `SaveItemUnflushed` got the device back without an error
although its flush failed (`main.py:599-602`), which the scan takes for saved.

`Poll` is one status request, which sweeps before it answers, `PollFails` one that fails;
`Receive` and `Refreshed` continue the browser's loop.  `StartAnswerLost` is a submission whose
answer never reaches the browser.  `Age` lets the limit of an hour pass for a finished scan.
Every request of `start()` may be answered 401: `stale` says that the tabs' cookie names no
live session, `authed` that a page believes to be logged in.  On such a page the call hangs
(`StartRefused`, `PollRefused`, `RefreshRefused`), because the interceptor awaits a logout
that is answered 401 too.  It settles (`LogoutSettles`) when a new login has made the cookie live
again or another path has logged the page out, and by chance when one of its logouts is lost
(`LogoutLost`); `Session` is what else moves the two flags, which `Sessions` models.

### Sessions

A request is *sent* with the cookie of that moment, passes or fails the middleware
(`RefuseUnknown`, `RefuseExpired`, `Forbid`, `Admit`), is handled (`Handle`), and
its answer is handled in the browser (`Receive`), each a step of its own.  `Lose`
drops a request or an answer.  The browser tells a 401 apart from every other failure, so an answer
is *ok*, *refused* or *failed*, and only the first carries a token.  `place` is the view of a tab: `Visit` is the router's way into a
view behind its guard, which calls `restore()` on mount while the page is logged in, `Leave` the
way to the login form, `Login` a login there.  Nothing keeps a login, a `restore()` and
other requests of one page apart, so they overlap.  A view whose own request failed goes
to the login form (`GoesHome`), with the flag and the selection as they are unless `logout()` or
a failed `login()` changed them.  `AutoLogout` is the interceptor: the call turns into a logout
request of the same tab.  The CSRF cookie always comes and goes with the
auth cookie and is derived from the password the server ran with, so a token
remembers that password (`keyOf`) and `ChangePassword` makes it stale.  `Fault` is a
database error: a lookup that fails is an unknown token (`NotFound`), a deletion that
fails leaves the token alive behind an answer that says ok (`Deleted`; `undeleted`
remembers it).

### ConfigWrite

A configuration is its main JSON part (complete, incomplete, invalid, empty), the
separator of its templates, and the set of tasks whose edits are in it: what
`_validate_config_content` tells apart, and what is lost when batches overlap.
`Preview` and `Start` read the device separately; `Start` includes the rewrite and
the validation, which touch no shared state.  `Write`, `WriteGarbled` and
`WriteFails` are the outcomes of the request, `ArriveLate` a request given up that
is carried out later, `ReadBack` and `Restore` the rest of the task.

### DevicesStore

A refresh is *sent* with the page, group and search text of that moment, *counted*, *answered*
and handled (`AnswerComes`), in any order with others: nothing in the store cancels an earlier
refresh or compares answers.  The server counts and reads the page in two queries.  A
row carries the group and the set of search texts its columns contain, and `Matches` is the
server's filter.  `Type` changes the text, which every refresh uses at once; the page is reset
and asked for when the operator has paused (`Debounced`).  A `write` of the page renames, regroups
or deletes (`Edit`, `Delete`), and a refresh follows it (`WriteEnds`); other operators and scans
change the table too (`OtherDeletes`, `OtherEdits`, `ScanAdds`).
Each ticked id carries the board the list showed next to it, so that the model
knows what the operator meant.  `inOrder` and `alone` are history: whether answers came in
the order of their refreshes, and whether every refresh waited for the one before; `left` says
whether a row has left a filter: deleted, regrouped, or changed so that a text misses it.

### LoginGate

`api_login` awaits nothing after it has read the body, so an attempt is a sequence of
transactions of one process, and two processes interleave between them: `CheckIp`,
`CheckUser` (`Pass` or `Refuse`, each pruning), `Judge` inside the step of the last
check, since nothing shared is touched between, `Record` for the address and for the
account, or `Reset` and `Issue`.  A transaction reads its clock before it waits for the
lock, so its clock value is any second since the process' last step (`Clocks`).  `Crash`
kills a process with what it had not recorded; `Malformed` and `Judge` raise where the
code does, and `Unhandled` is the 500.  A key is an address or an account in lower
case; a blank name has no account key.  What `GuessesWithinBudget` counts is history:
wrong passwords compared, with the time of the comparison.

### Batches

A request is one batch route; its thread submits one task per row to the pool and waits
for the results in order.  A task runs call by call; every call may fail with or without
the device carrying it out.  `Ask` ends with a commit, and a commit expires the row
object: `Report` reads it again, and raises when the row is gone.  `Raise` is the
result of such a task in the map; it cancels what is still queued (`Cancel`).  `Reload`
and `Commit` are the SIM route's second query and its one transaction for all rows.  An
upgrade is submitted by the OTA dialog from the answer of a check, with everything that
was ticked for it.

### Messaging

A *flight* is one run of a workflow, from the click to its `finally`.  `Send` starts one
from a form, `Other` any other workflow of the page: a device's details and the refresh
of the r key are not blocked by the loading flag.  `Limit`, `Load`, `Auth`, `Exchange`
are the stages of both handlers; `Reply` is what each of them makes of the device's
body.  `Confirm`, `Report`, `Drop` are the answer, an error, and an answer that is lost.
`Refuse` is a 401 on a page that is logged in: the workflow waits for the interceptor's logout,
and `LogsOut` is the end of that wait, which nothing makes come.

### ScanProbe

The pool takes pings in the order of the addresses, beside tasks of batches (`load`);
an answered ping ends at once, another one after a tick, and past the deadline a task
returns without a ping.  `ReadTable` takes the neighbour table and makes the list,
known addresses first.  `Tcp` and `Probe` ask whoever has the address at that moment.
`Move` is DHCP.  `Scan` starts from the set found here.

### Startup

SQLite commits every CREATE and ALTER by itself, so they are steps: `Inspect`, and for each
missing table `Create` and `Index` (create_all), `Look` and `Alter` for each column, `Normalise`.
The indexes of a table, which are statements of their own too, are one step: `unindexed` are
the tables that lack some.  `Locked` is any of these statements that waits longer for the lock than
`busy_timeout` allows.  `cut` remembers the tables whose maker ended before their indexes.
`Configure` and
`Lifespan` refuse settings.  `Restart` is systemd, `StopBoth` the loop of `start.sh` and
of the container's entry point, `StartBoth` Docker.  An initial database is fresh, or
one of an earlier version: with fewer tables and a prefix of the columns.

## 3. The runs

Twelve runs.  Eleven pass; `Sessions_logout` shows a disagreement between the code and what it
says of itself (section 5, which also lists configurations that reproduce others).

| run | properties | instance |
|---|---|---|
| `RateLimit` | `WindowWithinBudget`, `AdmittedStayCounted`, `ImplementsCallBudget`, `QuietKeysLeaveNoRows` | 2 callers, one key with limit 1 and a period shorter than the sweep's, 1 error, clock to 4, 3 calls |
| `Registry` | `NoIpConflict`, `AddressesHandedOver`, `SavesKeepEdits` | 2 boards, 2 addresses, 1 saver with 3 saves, 1 edit of any kind, 2 moves, ids to 3 |
| `Scan` | `ScanTypeOK`, `RunningScansStayKnown`, `NothingFoundIsDropped`, `NothingFollowsError`, `ScansAreSwept`, `ScanButtonComesBack` | 2 scans, 1 tab, 1 device or none found, 2 polls, 1 restart, a session that comes and goes |
| `Sessions` | `RevokedStaysDead`, `SessionsEndForCause` | 2 tabs, 1 request each, 2 tokens, lifetime 1, clock to 2, 1 database error, 1 password change |
| `Sessions_logout` | `StaleTokenLogsOut` | 1 tab, 1 request |
| `ConfigWrite` | `OnlyFaultsDamage`, `SerialBatchesKeepEdits`, `LoneRestoreUndoes` | 3 tasks, one of them the preset, 2 faults |
| `DevicesStore` | `StoreTypeOK`, `ListMatchesControls`, `RequestsStayInRange` | 2 boards, 2 groups, 1 search text, pages of one row, 3 refreshes, 2 at once, 1 change of the table |
| `LoginGate` | `GuessesWithinBudget`, `FailuresStayCounted`, `OnlyGuessesAreCharged` | 2 processes, 2 addresses, 1 account typed in 2 ways and a blank name, limits 1, periods 1 and 2, 3 attempts, 1 error or crash |
| `Batches` | `LoneBatchesAgree`, `FailuresHaveCause`, `UpgradesAreReported`, `BatchesEnd` | 2 requests of any kinds, 2 devices, 1 worker, 1 delete, 1 failure |
| `Messaging` | `SentOnce`, `AuditedWasCarried`, `NothingTypedIsLost`, `ButtonsComeBack` | 1 device, 2 flights, 2 texts, 3 clicks, 2 failures, 1 delete |
| `ScanProbe` | `ProbeTypeOK`, `AnswerersAreFound`, `MacsAreTheirs` | 2 boards and another device, 3 addresses, limit 2, 1 worker, 1 task ahead, 1 move, 1 lost probe |
| `Startup` | `ServingSchemaComplete`, `LoneStartsSucceed`, `BothServe` | 2 processes, 1 more table, 2 columns, 6 settings, 3 supervisors, 2 kills, 1 lock time-out |

Types are proved for every module (section 6); only `Scan`, `DevicesStore` and `ScanProbe`
check them on a run too, where they bound the list of addresses and the rows of a page.

What the properties say:

- `WindowWithinBudget`: at most `_max` calls in a trailing period, plus one for each
  other thread, plus one for each swallowed error.
- `AdmittedStayCounted`: a call leaves the table inside its window only if its insert
  failed, whatever old clock a prune used.
- `ImplementsCallBudget`: the same as a refinement of `CallBudget`, with the limit raised
  to `_max` + threads - 1 + errors.
- `QuietKeysLeaveNoRows`: the sweep removes the rows of keys nobody calls again.
- `NoIpConflict`: when an upsert writes, no third row holds its address.
- `AddressesHandedOver`: the step that parks a row gives its address to another row.
- `SavesKeepEdits`: a save puts back no alias and no token changed since it read them.
- `RunningScansStayKnown`: no sweep drops a scan that is queued or at work.
- `NothingFoundIsDropped`: a scan that ends as done has written all it found, but for the devices
  a failed flush returned without an error (`main.py:602`, see `Registry_saved.cfg`).
- `NothingFollowsError`: an error is a scan's last word: once a browser was told so, a scan whose
  process lives stays at error and writes no row that the refresh after it could have missed.
- `ScansAreSwept`, `ScanButtonComesBack`: every scan ends and leaves the registry, and every
  `start()` returns, unless a request of its own was answered 401 and its page stays in that
  state: believing to be logged in, with a cookie that names no session.
- `RevokedStaysDead`: a token the server reported as logged out never comes back, unless its
  deletion failed.
- `SessionsEndForCause`: a token leaves the table expired, or by a logout that carried it.
- `OnlyFaultsDamage`: while the device stores what it is sent it stays sound.
- `SerialBatchesKeepEdits`: without overlap, a task reported as changed has its edit on the
  device, although its preview was older.
- `LoneRestoreUndoes`: after one garbled write, a restore that arrives brings back a sound
  text with the accepted edits and without the failed one.
- `ListMatchesControls`: once every refresh is answered, in order, and the operator has paused,
  the list belongs to the page, group and search text shown.  Out of order it does not; that is
  why the condition is there.
- `RequestsStayInRange`: while no row leaves a filter, no search text waits for its pause and
  refreshes do not overlap, no page that does not exist is asked for.  Each condition is needed:
  a delete or a regroup of the last row of a page breaks it (by the operator or by another), so
  does a refresh between a keystroke and its pause, which asks for the old page of the new
  text, and so does a page chosen between a change of the group and its answer, when the buttons
  still count the pages of the group before.
- `GuessesWithinBudget`: in a trailing period, at most the limit of wrong passwords is
  compared for an address and for an account, plus one for each other process, plus one for
  each error or crash; a login to the account starts its count anew.
- `FailuresStayCounted`: a wrong guess counts under each of its keys until its period is
  over; only a failed insert, or a login to that very account, ends that.
- `OnlyGuessesAreCharged`: a key is charged for wrong guesses only.  A client that goes on
  trying while locked out is refused without a row, so it does not push the end of its own
  lock-out before it.
- `LoneBatchesAgree`: the table agrees with the devices when batches neither overlap nor
  fail.  That it never shows numbers no device was given (`StoredWasAccepted`) is proved.
- `FailuresHaveCause`: a batch fails as a whole only for a deleted row of its own.
- `UpgradesAreReported`: while no row is deleted, an upgrade carried out is audited.
- `SentOnce`: a text goes out twice only after a lost answer, or when another workflow took
  the loading flag down.
- `AuditedWasCarried`: what is audited was carried out, unless the reply was garbled.
- `NothingTypedIsLost`: what was typed stays in its form until an answer of status 200.
- `AnswerersAreFound`: a board that stays and answers is found, if the network, or the known
  part of it, is within the limit.
- `MacsAreTheirs`: another device's MAC is recorded only after a move, or without a ping.
- `ServingSchemaComplete`, `LoneStartsSucceed`, `BothServe`: who serves has every table and column,
  and lacks an index only while another start is about to make it or because the start that made
  the table ended in between; the schema stops only a start that met another; both serve in
  the end where something restarts them.
- `BatchesEnd`, `ButtonsComeBack`: every batch is answered; every click gives the buttons back, or
  its 401 waits for a logout.

**Bounds.** They limit how often things happen, never what can happen.  Two callers
suffice for the race of `allow()`, and the proof covers any number.  One key is
enough: keys share no row and only the sweep touches two of them; its period differs
from the key's.  Two boards and two addresses are the smallest DHCP rotation; three
saves let both be saved and one come back; an id is used again after one delete.  Two
scans let a browser start one while an older one runs.  A lifetime of 1 in a clock to 2
lets a session be born, expire and be replaced.  Three tasks let one be written, one be
late and one restore.  Pages of one row make two rows two pages, and three refreshes are
one whose page is left behind and two that overlap, or one that starts from what two left.  One search
text that rows may or may not contain is typed and deleted again, which is enough for a page of the
one filter to lie outside the other; one change of the table brings the row that makes a second
page.  In `Scan` a scan finds one device or none, since the liveness properties are checked in the
same run; what happens between the saves of several devices is covered by the proofs, which hold
for any number (`NothingFoundIsDropped`, `NothingFollowsError`, `RunningScansStayKnown`).
`Sessions` has one request for each tab, which overlaps with the other tab's; requests that overlap
within one tab are covered by the proofs of both its properties.  The password change makes one
token stale for posts while another is not.  The run's view leaves the selection out, on which
nothing else depends; only `LoginStartsUnselected` is about it.  Limits of 1
make the first guess a full window, and three attempts of two processes overshoot it.  One worker makes
batches queue behind each other.  Two flights and three clicks let a text be clicked twice
and another workflow end between.  Three addresses and a limit of two leave one beyond it.

**Deadlock.** All instances may stop: the clock, the number of calls, saves, tasks,
scans and refreshes are bounded, the rate limiter and the pages may simply be left
alone, and a device whose tasks have all ended is a finished system.  So the runs do
not ask for the absence of deadlock; that something does happen is said by the
liveness properties, where the code's scheduling gives ground for it.

**Symmetry** is used for boards and addresses in `Registry`, tabs and tokens in
`Sessions`, boards and groups in `DevicesStore`, processes and addresses in `LoginGate`,
and only in runs without liveness.

**Mutants.** For every property of a passing run there is an operator in the module
that changes one modelled definition as a plausible bug would (`PROJECT.json`,
"mutants"), and TLC finds the property violated with it.

## 4. Fairness

- `RateLimit`: the clock advances, and the background task keeps looping: it catches
  every exception (`main.py:310-322`).  A sweep may fail; the bound on errors makes
  one succeed at last.  Nobody has to call a limiter.
- `Scan`: a worker that can step does (a thread, with time-outs on every device call);
  the time limit passes; the cleanup loop runs; a browser's timer fires and its
  requests end, with an answer or an error.  The axios client sets no time-out of its
  own, so the last is an assumption about browser and network.  It is not made for a request that
  was answered 401 on a page that is logged in: `LogoutSettles` happens only where the code ends
  the wait, and `LogoutLost` has no fairness at all.  Nobody has to log in or to start a scan,
  and the server need not be restarted.
- `Batches`: a free worker takes a queued task, a task goes on (every call of it has a
  time-out), a request thread wakes when its results are there.  Nobody has to send a batch.
- `Messaging`: a handler goes on (time-outs again) and a browser request ends, the same
  assumption as in `Scan` and with the same exception: `LogsOut` has no fairness.  Nobody has to type or click.
- `Startup`: a process that was started goes on, and a supervisor does what it is there for.
- `Sessions` (for the counterexample only): the server answers what reaches it, the
  browser handles what it is answered, clock and cleanup go on.  The counterexample
  therefore shows a page that is served all the time and still never logged out.

## 5. What the checks found

One finding is listed in `PROJECT.json`.

- `Sessions_logout`: the 401 interceptor awaits a logout that is answered 401 itself, without end
  (`frontend/src/stores/auth.js:28`), while `auth.js:111-113` promises the auto-logout.  The page
  never shows its login form, and whatever workflow met the 401 keeps its button and the loading
  flag: `ScanButtonComesBack` and `ButtonsComeBack` except that case for this reason.

The models disagree with what the repository says of itself in fifteen more places.  Each
has a configuration that reproduces it and is not among the runs: `tlc -config X.cfg MCX`
(for instance `tlc -config Registry_forget.cfg MCRegistry`) finds the property violated, and
the counterexample is a run of the code as it is.

| property and configuration | where | what |
|---|---|---|
| `SingleSharedBudget` in `RateLimit_shared.cfg` | `backend/ratelimit.py:40` | Two threads pass the check before either inserts: the budget is not "single" (`ratelimit.py:6-10`, `db.py:101-103`).  What holds is the proved bound. |
| `SavesForgetNoBoard` in `Registry_forget.cfg` | `backend/main.py:590` | The fall-back to the address overwrites the row of the device that had the address before; that device disappears, against "without silently deleting an unrelated row" (`main.py:569-571`). |
| `SavedIsInTable` in `Registry_saved.cfg` | `backend/main.py:602` | A failed flush returns the device without `error`; the scan counts it as saved, the failure `db.py:47-52` calls fixed. |
| `RefreshIsPostScan` in `Scan_done.cfg` | `backend/routes/scan.py:208` | The status is `done` before anything is saved; a poll in that moment ends the browser's workflow with an old list. |
| `LoginStartsUnselected` in `Sessions_phantom.cfg` | `frontend/src/stores/auth.js:53` | A failed login sets `authed` to false without clearing the selection. A page that is logged in gets to the login form when the `/api/me` of a visit is lost (`DashboardView.vue:226-237`), so a failed and then a successful login there start with the selection `auth.js:80-85` says is cleared. |
| `BatchDeletesOnlyPicked` in `DevicesStore_stale.cfg` | `frontend/src/stores/devices.js:257` | A ticked id outlives its row, is used again for another device, and the batch delete removes that one. |
| `MalformedIsRefused` in `LoginGate_body.cfg` | `backend/routes/auth.py:93` | A user name that is no text raises and is answered 500, against FIX(L3) eight lines above. |
| `UpgradesAreAudited` in `Batches_audited.cfg` | `backend/device_client.py:240` | A row deleted during its upgrade makes the task raise twice; the batch is answered 500 and its upgrades are not audited, against `CHANGES.md:88`. |
| `OnlyAnnouncedAreUpgraded` in `Batches_announced.cfg` | `frontend/src/composables/useOta.js:64` | The dialog announces the devices with an update and sends everything ticked. |
| `SentNoticeIsTrue` in `Messaging_notice.cfg` | `frontend/src/composables/useMessaging.js:49` | "Sent" is shown for every answer of status 200, also for `{"ok": false}`, and the text is gone. |
| `FlagCoversFlights` in `Messaging_flag.cfg` | `frontend/src/composables/useLoading.js:7` | The flag comes down with the first workflow that ends; the send button works while the message is in flight. |
| `MigrationsAreIdempotent` in `Startup_migrations.cfg` | `backend/db.py:130` | Two starts see the same column missing; the second ALTER ends its process, against "Idempotent". |
| `AddressesAreUnique` in `Startup_index.cfg` | `backend/db.py:115` | A start killed between CREATE TABLE and CREATE INDEX leaves a table that later starts skip: a process serves while nothing keeps an address unique, against `db.py:72`. |
| `DefaultPasswordIsRefused` in `Startup_password.cfg` | `backend/config.py:31` | Without a password set the server starts with `admin`, which lines 26-30 and `security.py:285` say it refuses. |
| `EveryHostIsPinged` in `ScanProbe_warm.cfg` | `backend/security.py:218` | Unused addresses use up the eight seconds; half of 1024 hosts are not pinged, against line 207. |

## 6. What is proved

Proofs are for every value of the constants that satisfies the ASSUMEs of the module.

**RateLimitProofs** (any callers, keys, limits, periods, bounds).  `WindowWithinBudget`
is not inductive: it says nothing of callers that have passed the check.  The
strengthening `IInv` charges a key with the admitted calls still in the table or
unrecorded, and with the callers between check and insert, and keeps these
*charges* within the budget; next to it, no clock value in use is ahead of the clock,
and the table is a subset of the history.  A passing count is the only step that needs
the table: it saw fewer than `_max` rows.  From `IInv` follow `TypeCorrect`,
`StayCounted`, `BudgetHolds`, and `Refinement`, where an insert is `Admit`, a tick is
`Tick` and every other step stutters.  The assumption that every period is at most
`MaxPeriodSeen` is what the constructor establishes (`ratelimit.py:37-38`).

**RegistryProofs**.  `TypeCorrect`, which includes the uniqueness of `ip`, `mac` and
`devId`, holds for any number of scans.  `IpConflictFree` and `ParkingHandsOver` hold
under `OneScan`, at most one saving thread: with two, both may read before either
writes, and TLC finds `NoIpConflict` violated on the same instance.  The strengthening
says that the row a session is about to park still owns the address and came from an
earlier lookup (`OtherOwnsAddress`, `NoOtherYet`, `MovingRow`); the lemma
`OnlyCommitMovesAddresses` disposes of operators, sweep and network at once.
`NoLostEdit` is an action property and holds for any number of scans: a commit writes only the
columns that differ from what its session loaded.

About `Scan`, for any scans, tabs, devices, polls, restarts and sessions, `ScanInv` says where the
worker may stand for a status (`StatusFollows`), that what was found is written, or went by a
failed flush, or is counted as failed, or still to do (`NothingDropped`), that only a worker that
has ended is finished, which is what the sweeps go by (`FinishedHasEnded`), and that a browser is
told "error" only of a scan that is over (`ErrorIsLast`).  `RunningScansAreKept`, `DoneDropsNothing`
and `ErrorIsFinal` follow.

**ConfigWriteProofs** (any tasks and presets).  `OnlyTheDeviceDamages` needs that, while
no fault has happened, every text a task holds or that is still under way is sound too
(`AllSound`): what passes the validation against a sound original is sound, and only
such texts are written.  `SerialBatchesAreKept` and `RestoreUndoes` need that, while batches do
not overlap, one task at most is at work and no late write is under way (`OneAtATime`), so that
what it read is what its write replaces and has every edit reported before (`NothingLost`), and
that a single fault which makes it restore was its own (`FaultIsItsOwn`).

**LoginGateProofs** (any processes, addresses, names, limits, periods, any stretch of time).
A guess, its attempt and its rows are three pieces of state, so `IInv` ties them together:
attempts are numbered apart (`AttemptsDiffer`); an attempt becomes a guess when its password
is judged and not before (`GuessedWhenJudged`); its row is no older than the guess
(`RowsFollowGuesses`).  `ClocksAreRead` says that no process' clock is ahead of the clock.  From this,
`OnlyGuessesAreCharged` and `FailuresStayCounted`: a prune by an old cutoff removes only rows
that are out of their period, a reset only rows of the account that logged in.
`BruteForceIsBounded` looks at the history; behind it stands `ChargesWithinBudget`, as in
`RateLimitProofs`: what the next check of a key sees, the inserts that failed for it and the
attempts between their check and their row stay within the limit, the other processes and the
errors, since a check that lets an attempt pass saw fewer rows than the limit.

**SessionsProofs** (any tabs, requests, tokens, lifetime).  `RevokedStaysDead` needs that a
token is issued once (`IssuedFirst`) and that a logout that was answered ok has deleted its
token or is on record as failed (`LogoutsDelete`).
`SessionsEndForCause` is an action property, proved from the same invariant.

About `DevicesStore`, for any table, page size, groups and texts and any number of refreshes under
way: `StoreTypeCorrect` needs that a page has no more rows than its size (`PageBounded`: the
rows before each row of the list differ in number, and those of one page lie in an interval of
that length).  `ListIsOfControls` needs that the newest refresh is the one that decides, and
was sent for the filter the controls show, or a pause is still to come (`NewestDecides`).
`RequestsInRange` needs that page and number of pages are within the filter's as long as each
refresh waits for the one before, no row leaves a filter and no text waits (`LoneAsksFit`),
and that a row more, or one more that matches, takes no page away (`PagesGrow`).

**BatchesProofs** (any devices, requests, workers).  The pool's limit is part of `TypeOK` and
needs cardinality: a task that starts adds one element to the occupied set, every other step
none.  `FailuresHaveCause` rests on `TroubleHasCause` (a task raises only for a row that is
gone) and on `TasksAreOwn` (it is a task of that request); `StoredWasAccepted` on
`CommitsWereAccepted`; `UpgradesAreReported` on `AnswersAreAudited` (a batch that was answered
has audited all its rows) and on `FailuresHaveCause`, which leaves a batch no other end while
nothing is deleted.  `LoneBatchesKeepTruth` needs that, while SIM batches neither
overlap nor fail, a device that accepted the numbers of the batch under way holds them
(`OkIsHeld`), and that row and device differ only until that batch commits (`DebtIsOpen`).

About `ScanProbe`, for any network, limit, pool, deadline, load, moves and losses:
`AnswerersFound` is a counting argument.  `Lowest(n, S)` has at most `n` addresses, and all of `S`
if these are few (`LowestBounded`, `LowestOfFew`: addresses before an address differ in number),
so the list is within its limit and holds the whole network, or all known addresses, when that
is (`ListedKeepsLimit`); a board on it is then followed from phase to phase
(`BoardsAreFollowed`).  `MacsTrue` needs that a device that was pinged and stayed is in the
kernel's table, and later in the scan's copy (`PingedAreMet`), and that a board that was verified
had the address (`VerifiedAtAddress`).

**MessagingProofs** (any devices, flights, texts, clicks).  `SentOnce` needs that, while no
workflow was started during another, the flag stands for the only flight
(`FlagStandsForOne`), that a text belongs to one form (`EntriesKeepTheirForm`), and that a
text that went out is in the hands of its flight, or its answer was lost, or it is neither in
a form nor in a flight any more (`SpentStaySpent`).  `NothingTypedIsLost` needs that a
flight's text stays in its form unless the operator replaced it (`FormKeepsEntry`).

**StartupProofs** (any processes, tables, columns, kills, environments).  Tables and columns
are only ever added, so each stage may rely on what an earlier stage saw, whatever other
starts did since (`StageDone`), and what a start finds against its own look was put there by
another one at work together with it (`Blamed`).  A table without its indexes is one whose maker
is at them, or is on record as ended before (`IndexesAccounted`): that is all that can be said of
the indexes, and the reason for the condition in `ServingSchemaComplete`.

The proofs use library theorems on finite sets, their injections and cardinality only.

## 7. Only model-checked, and not modelled

Only model-checked:

- liveness (`QuietKeysLeaveNoRows`, `ScansAreSwept`, `ScanButtonComesBack`, `BatchesEnd`,
  `ButtonsComeBack`, `BothServe`): out of reach of the proof system, as are fairness and ENABLED.

Every invariant and every action property of the runs is the statement of a theorem.

Not modelled:

- *allow-list cache* (`security.py:99-174`): its lock, its double check and its lifetime could
  be modelled; what it decides is only whether a device call is made, which every model of a
  device call already leaves open.  An empty list of networks is falsy and never served from
  the cache, which costs a fork of `ip` for each call.
- *audit log* (`audit.py`): what is recorded, and when, is in `Messaging` and `Batches`.  The
  file is Python's `RotatingFileHandler`; two processes rotate the same files, which the
  handler's documentation rules out.
- *dialog store*: two promises and a flag each; workflows are modelled from the answer on.
- *HTTP client*: the pool is in `Batches` and `ScanProbe`; the httpx client's connection limit
  and its queue are library behaviour, whose outcome, a call that fails, is in every model.
- *configuration dialog, views, components, router, remaining composables*: presentation.  The
  one piece of state they share, the loading flag, is in `Messaging`.
- *read-only routes* (`/api/numbers`, groups, details, WiFi information) and what the devices
  store keeps of them; select-all; two writes of one page at once.
- *metrics*: nothing reads them back.
- *installation and command line*: shell scripts run by one operator.  By inspection:
  `install.sh:215` copies a list of modules that lacks `audit`, `device_client`,
  `http_client` and `ratelimit`, which `main.py` imports.
- *the wall clock*: models take `nowts()` as monotonic.  A clock set back makes windows and
  sessions longer by the step; no document says what should happen then.
- *text*: CIDR parsing, output of `ip` and `arp`, phone numbers, proxy headers, JSON layout.

Behaviours the models reach and no property forbids, since no document promises otherwise: a
failed `getdevicedata` blanks the SIM columns until the next scan (`main.py:573`); a 401 of
before a login logs the new session out (`auth.js:27`); a lost logout leaves the session
alive (`auth.js:72`); a device that ignores a configuration is reported as changed, since the
read-back is checked for structure only (`config.py:285`); what is typed during a flight is
emptied with the form (`useMessaging.js:50`).

## 8. What could come next

In order of what it would add: an abstract specification of the registry, a table that is
changed one whole save at a time, and the conditions under which `Registry` implements it; the
bounds of `RunningScansAreKept` and `ScanProbe` composed, so that what a scan saves is what
answered; the allow-list cache as a module of its own; the number list and the group list in
`DevicesStore`.
