------------------------------- MODULE Batches -------------------------------
(***************************************************************************)
(* The batch routes of backend/routes/devices.py over the thread pool that *)
(* all requests of a process share: WiFi and forward settings, SIM         *)
(* numbers, OTA check and OTA upgrade (their tasks are in                  *)
(* backend/device_client.py), and the OTA dialog of useOta.js in front.    *)
(*                                                                         *)
(* A request thread reads the rows, gives the pool one task for each, and  *)
(* waits in list(executor.map(...)): it takes the results in order, and a  *)
(* task that raises makes it cancel what has not been started and answer   *)
(* 500, while tasks already started run on.  Rows may be deleted meanwhile.*)
(* A device keeps its address here and stands for its row's id.            *)
(***************************************************************************)
EXTENDS Integers, FiniteSets

CONSTANTS
    Devices,
    Requests,     \* the batch requests, each with its own number or setting
    Kinds,        \* what they do
    Workers,      \* max_workers of the shared pool
    BatchMax,     \* BATCH_MAX, OTA_BATCH_MAX
    Factory,      \* the numbers and settings of a device before any batch
    MaxDeletes,   \* bound: rows deleted
    MaxFaults     \* bound: device calls that fail or whose answer is lost

ASSUME BatchAssumption ==
    /\ IsFiniteSet(Devices) /\ IsFiniteSet(Requests)
    /\ Kinds \subseteq {"write", "sim", "check", "upgrade"}
    /\ Workers \in Nat \ {0} /\ BatchMax \in Nat \ {0}
    /\ Factory \notin Requests
    /\ MaxDeletes \in Nat /\ MaxFaults \in Nat

VARIABLES
    rows,        \* devices that have a row
    sim,         \* the numbers in the row, by the request that wrote them
    held,        \* the numbers on the device
    outdated,    \* devices with a newer firmware to load
    kind, ids,   \* each request's kind, and the rows it found
    stage,       \* where its thread stands
    task,        \* its task for each device
    noted,       \* sim: the rows its second query found; check: the devices with
                 \* an update; upgrade: the devices the dialog announced
    faults,
    \* history
    accepted,    \* <<request, device>>: the device carried it out
    audited,     \* <<request, device>>: reported, and named in the audit log
    deleted,     \* rows deleted
    overlapped   \* SIM requests that ran at the same time as another one

device == <<held, outdated, accepted, faults>>
table == <<rows, sim, deleted>>
request == <<kind, ids, stage, audited, overlapped>>
vars == <<device, table, request, task, noted>>

Running == {"load", "auth", "call", "ask", "upgrading", "saved", "sent", "unsent"}
Ended == {"ok", "failed", "raised", "cancelled"}

Init ==
    /\ rows = Devices /\ deleted = {}
    /\ sim = [d \in Devices |-> Factory]
    /\ held = [d \in Devices |-> Factory]
    /\ outdated \in SUBSET Devices
    /\ kind \in [Requests -> Kinds]
    /\ ids = [r \in Requests |-> {}]
    /\ stage = [r \in Requests |-> "idle"]
    /\ task = [r \in Requests |-> [d \in Devices |-> "none"]]
    /\ noted = [r \in Requests |-> {}]
    /\ accepted = {} /\ audited = {} /\ overlapped = {}
    /\ faults = 0

-----------------------------------------------------------------------------
Busy(r) == stage[r] \in {"mapping", "commit"}

\* A batch route: its size is checked, the rows that exist are read, and each
\* becomes a task of the pool.  The OTA dialog sends an upgrade for everything
\* ticked once a check has found an update for some of it.
Submit(r) ==
    /\ stage[r] = "idle"
    /\ \E D \in SUBSET Devices :
          /\ Cardinality(D) \in 1..BatchMax
          /\ IF kind[r] = "upgrade"
             THEN \E c \in Requests :
                     /\ kind[c] = "check" /\ stage[c] = "answered" /\ noted[c] # {}
                     /\ D = ids[c]
                     /\ noted' = [noted EXCEPT ![r] = noted[c]]
             ELSE UNCHANGED noted
          /\ ids' = [ids EXCEPT ![r] = D \cap rows]
          /\ task' = [task EXCEPT ![r] =
                        [d \in Devices |-> IF d \in D \cap rows THEN "queued" ELSE "none"]]
    /\ stage' = [stage EXCEPT ![r] = "mapping"]
    /\ LET rivals == {q \in Requests : Busy(q) /\ kind[q] = "sim"} IN
       overlapped' = IF kind[r] = "sim" /\ rivals # {}
                     THEN overlapped \cup {r} \cup rivals ELSE overlapped
    /\ UNCHANGED <<device, table, kind, audited>>

-----------------------------------------------------------------------------
\* The tasks.
Become(r, d, state) == task' = [task EXCEPT ![r] = [@ EXCEPT ![d] = state]]

Fault == faults < MaxFaults /\ faults' = faults + 1

\* Mutant: a task that raises keeps its worker.
OccupiedForEver == {p \in Requests \X Devices : task[p[1]][p[2]] \in Running \cup {"raised"}}

Occupied == {p \in Requests \X Devices : task[p[1]][p[2]] \in Running}

Start(r, d) ==
    /\ task[r][d] = "queued" /\ Cardinality(Occupied) < Workers
    /\ Become(r, d, CASE kind[r] = "write" -> "auth" [] kind[r] = "sim" -> "call"
                      [] OTHER -> "load")
    /\ UNCHANGED <<device, table, request, noted>>

\* WiFi and forward tasks first ask whether this is one of the boards.
Auth(r, d) ==
    /\ task[r][d] = "auth"
    /\ \/ Become(r, d, "call") /\ UNCHANGED faults
       \/ Become(r, d, "failed") /\ Fault
    /\ UNCHANGED <<held, outdated, accepted, table, request, noted>>

\* The call that changes the device; its answer may be lost.
CarryOut(r, d) ==
    /\ accepted' = accepted \cup {<<r, d>>}
    /\ held' = IF kind[r] = "sim" THEN [held EXCEPT ![d] = r] ELSE held
    /\ outdated' = IF kind[r] = "upgrade" THEN outdated \ {d} ELSE outdated

Call(r, d, from, onOk, onFailure) ==
    /\ task[r][d] = from
    /\ \/ Become(r, d, onOk) /\ CarryOut(r, d) /\ UNCHANGED faults
       \/ Become(r, d, onFailure) /\ Fault /\ CarryOut(r, d)
       \/ Become(r, d, onFailure) /\ Fault /\ UNCHANGED <<held, outdated, accepted>>
    /\ UNCHANGED <<table, request, noted>>

\* check_ota_task and upgrade_ota_task query the row again.
Load(r, d) ==
    /\ task[r][d] = "load"
    /\ Become(r, d, IF d \in rows THEN "ask" ELSE "failed")
    /\ UNCHANGED <<device, table, request, noted>>

\* Mutant: a device that does not answer is not caught.
AskRaising(r, d) ==
    /\ task[r][d] = "ask"
    /\ \/ /\ Become(r, d, IF kind[r] = "upgrade" /\ d \in outdated THEN "upgrading" ELSE "saved")
          /\ noted' = IF kind[r] = "check" /\ d \in outdated
                      THEN [noted EXCEPT ![r] = @ \cup {d}] ELSE noted
          /\ UNCHANGED faults
       \/ Become(r, d, "raised") /\ Fault /\ UNCHANGED noted
    /\ UNCHANGED <<held, outdated, accepted, table, request>>

\* ota_check, and the commit of the version it read.  Whether the commit fails
\* or not, the row object is expired by it.
Ask(r, d) ==
    /\ task[r][d] = "ask"
    /\ \/ /\ Become(r, d, IF kind[r] = "upgrade" /\ d \in outdated THEN "upgrading" ELSE "saved")
          /\ noted' = IF kind[r] = "check" /\ d \in outdated
                      THEN [noted EXCEPT ![r] = @ \cup {d}] ELSE noted
          /\ UNCHANGED faults
       \/ Become(r, d, "failed") /\ Fault /\ UNCHANGED noted
    /\ UNCHANGED <<held, outdated, accepted, table, request>>

\* device.id in the result reloads the expired row: ObjectDeletedError, raised
\* once more by the handler that would report it, when the row is gone.
Report(r, d) ==
    /\ task[r][d] \in {"saved", "sent", "unsent"}
    /\ Become(r, d,
              CASE d \notin rows -> "raised"
                [] d \in rows /\ (task[r][d] = "sent" \/ (task[r][d] = "saved" /\ kind[r] = "check")) -> "ok"
                [] OTHER -> "failed")
    /\ UNCHANGED <<device, table, request, noted>>

Run(r, d) ==
    \/ Auth(r, d) \/ Load(r, d) \/ Ask(r, d) \/ Report(r, d)
    \/ Call(r, d, "call", "ok", "failed")
    \/ Call(r, d, "upgrading", "sent", "unsent")

-----------------------------------------------------------------------------
\* The request threads.
Advance(r, to) == stage' = [stage EXCEPT ![r] = to]

Collected(r) == stage[r] = "mapping" /\ \A d \in ids[r] : task[r][d] \in {"ok", "failed"}

Answer(r) ==
    /\ Collected(r)
    /\ kind[r] = "sim" => \A d \in ids[r] : task[r][d] # "ok"
    /\ Advance(r, "answered")
    /\ audited' = IF kind[r] = "upgrade" THEN audited \cup ({r} \X ids[r]) ELSE audited
    /\ UNCHANGED <<device, table, kind, ids, overlapped, task, noted>>

\* Mutant: the pool's whole queue is cancelled.
CancelAll(r) ==
    task' = [q \in Requests |-> [d \in Devices |->
                IF task[q][d] = "queued" THEN "cancelled" ELSE task[q][d]]]

Cancel(r) ==
    task' = [task EXCEPT ![r] = [d \in Devices |-> IF @[d] = "queued" THEN "cancelled" ELSE @[d]]]

\* result() of a task that raised, or was cancelled, ends the map.
Raise(r) ==
    /\ stage[r] = "mapping"
    /\ \E d \in ids[r] : task[r][d] \in {"raised", "cancelled"}
    /\ Cancel(r)
    /\ Advance(r, "error")
    /\ UNCHANGED <<device, table, kind, ids, audited, overlapped, noted>>

\* api_batch_sim: the rows of the devices that accepted are queried again ...
OkRows(r) == {d \in ids[r] : task[r][d] = "ok"} \cap rows

Reload(r) ==
    /\ Collected(r) /\ kind[r] = "sim" /\ \E d \in ids[r] : task[r][d] = "ok"
    /\ noted' = [noted EXCEPT ![r] = OkRows(r)]
    /\ Advance(r, "commit")
    /\ UNCHANGED <<device, table, kind, ids, audited, overlapped, task>>

\* Mutant: a failed commit is swallowed, as it is elsewhere.
CommitSwallowed(r) ==
    /\ stage[r] = "commit"
    /\ IF noted[r] \subseteq rows
       THEN sim' = [d \in Devices |-> IF d \in noted[r] THEN r ELSE sim[d]]
       ELSE UNCHANGED sim
    /\ Advance(r, "answered")
    /\ UNCHANGED <<device, rows, deleted, kind, ids, audited, overlapped, task, noted>>

\* ... and written in one transaction, which fails when one of them is gone.
Commit(r) ==
    /\ stage[r] = "commit"
    /\ IF noted[r] \subseteq rows
       THEN /\ sim' = [d \in Devices |-> IF d \in noted[r] THEN r ELSE sim[d]]
            /\ Advance(r, "answered")
       ELSE Advance(r, "error") /\ UNCHANGED sim
    /\ UNCHANGED <<device, rows, deleted, kind, ids, audited, overlapped, task, noted>>

Collect(r) == Answer(r) \/ Raise(r) \/ Reload(r) \/ Commit(r)

\* deletedevice or api_batch_delete of somebody else.
Delete(d) ==
    /\ d \in rows /\ Cardinality(deleted) < MaxDeletes
    /\ rows' = rows \ {d} /\ deleted' = deleted \cup {d}
    /\ UNCHANGED <<device, sim, request, task, noted>>

Next ==
    \/ \E r \in Requests : Submit(r) \/ Collect(r)
    \/ \E r \in Requests, d \in Devices : Start(r, d) \/ Run(r, d)
    \/ \E d \in Devices : Delete(d)

Spec == Init /\ [][Next]_vars

\* A free worker takes a task, a task's calls have time-outs, and the request
\* thread wakes up; nobody has to send a batch.
Fairness ==
    /\ WF_vars(\E r \in Requests, d \in Devices : Start(r, d))
    /\ \A r \in Requests : WF_vars(Collect(r)) /\ \A d \in Devices : WF_vars(Run(r, d))

FairSpec == Spec /\ Fairness

-----------------------------------------------------------------------------
\* Types of requests, tasks, rows and history; the pool is never overcrowded.
TypeOK ==
    /\ rows \subseteq Devices /\ deleted = Devices \ rows
    /\ sim \in [Devices -> Requests \cup {Factory}]
    /\ held \in [Devices -> Requests \cup {Factory}]
    /\ outdated \subseteq Devices
    /\ kind \in [Requests -> Kinds]
    /\ ids \in [Requests -> SUBSET Devices]
    /\ stage \in [Requests -> {"idle", "mapping", "commit", "answered", "error"}]
    /\ task \in [Requests -> [Devices -> Running \cup Ended \cup {"none", "queued"}]]
    /\ noted \in [Requests -> SUBSET Devices]
    /\ accepted \subseteq Requests \X Devices
    /\ audited \subseteq Requests \X Devices
    /\ overlapped \subseteq Requests /\ faults \in Nat
    /\ Cardinality(Occupied) <= Workers

\* The table never shows numbers that no device was ever given.
StoredWasAccepted ==
    \A d \in Devices : sim[d] # Factory => <<sim[d], d>> \in accepted

\* Where SIM batches do not overlap, every device answers, and no batch is
\* answered 500, table and devices agree once no batch is under way.
LoneBatchesAgree ==
    (/\ overlapped = {} /\ faults = 0
     /\ \A r \in Requests : kind[r] = "sim" => ~Busy(r) /\ stage[r] # "error")
    => \A d \in rows : sim[d] = held[d]

\* A batch fails as a whole only for a row of its own that was deleted: no other
\* batch's trouble in the shared pool reaches it.
FailuresHaveCause ==
    \A r \in Requests : stage[r] = "error" => ids[r] \cap deleted # {}

\* While no row is deleted, whatever else fails, each upgrade a device carried
\* out is in the answer and in the audit log when its batch ends.
UpgradesAreReported ==
    deleted = {} =>
        \A r \in Requests, d \in Devices :
            (kind[r] = "upgrade" /\ ~Busy(r) /\ <<r, d>> \in accepted) => <<r, d>> \in audited

\* Every batch is answered: the pool is shared by all and never runs dry.
BatchesEnd == \A r \in Requests : Busy(r) ~> ~Busy(r)

\* CHANGES.md:59, 88: every OTA batch is in the audit log.
UpgradesAreAudited ==
    \A r \in Requests, d \in Devices :
        (kind[r] = "upgrade" /\ ~Busy(r) /\ <<r, d>> \in accepted) => <<r, d>> \in audited

\* useOta.js:54-56: the operator confirms so many devices, namely those the
\* check found an update for; no others are upgraded.
OnlyAnnouncedAreUpgraded ==
    \A r \in Requests, d \in Devices :
        (kind[r] = "upgrade" /\ <<r, d>> \in accepted) => d \in noted[r]
=============================================================================
