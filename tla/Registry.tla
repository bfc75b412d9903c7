------------------------------- MODULE Registry -------------------------------
(***************************************************************************)
(* The device registry: the devices table of backend/db.py and everything  *)
(* that writes it.  A scan saves what it found through upsertdevice        *)
(* (backend/main.py); operators edit and delete rows through the routes of *)
(* backend/routes/devices.py and the OTA and token helpers of              *)
(* backend/device_client.py; the background task drops old parked rows.    *)
(*                                                                         *)
(* Every SELECT runs in autocommit mode, so a session's reads are separate *)
(* steps and see what other sessions commit in between; what a session     *)
(* writes, from its first flush to its commit, is one transaction, and an  *)
(* UPDATE writes only the columns the session changed (Merge).             *)
(*                                                                         *)
(* A board has one stable DEV_ID and one MAC: the board stands for both,   *)
(* for its firmware, its numbers and its token.  Boards move between       *)
(* addresses (DHCP) while all this runs.                                   *)
(***************************************************************************)
EXTENDS Integers, FiniteSets

CONSTANTS
    Boards,     \* physical devices
    Ips,        \* addresses of the LAN
    None,       \* NULL, or an empty column
    Labels,     \* aliases and groups an operator can choose
    ScanGroup,  \* group the scan was started with, or None
    Parked,     \* an ip column "__stale_<id>_<ts>": unique, it contains the row's id
    Savers,     \* threads running _run_scan_bg
    Editors,    \* request threads of the device routes
    Ops,        \* which operations the editors perform
    MaxId,      \* bound: largest row id
    MaxSaves,   \* bound: upserts started
    MaxEdits,   \* bound: edits started
    MaxMoves    \* bound: address changes

ASSUME RegistryAssumption ==
    /\ None \notin Boards \cup Ips \cup Labels
    /\ Parked \notin Boards \cup Ips \cup Labels \cup {None}
    /\ ScanGroup \in Labels \cup {None}
    /\ MaxId \in Nat
    /\ Ops \subseteq {"alias", "group", "sim", "simbatch", "ota", "token", "delete"}

Fields == {"devId", "mac", "ip", "alias", "grp", "token", "fw", "sim"}
Ids == 1..MaxId
NoRow == 0

\* The column an operation writes, and whether it talks to the device first.
Column == [alias |-> "alias", group |-> "grp", sim |-> "sim", simbatch |-> "sim",
           ota |-> "fw", token |-> "token", delete |-> "ip"]
Contacts == {"sim", "simbatch", "ota", "token"}

VARIABLES
    at,       \* the board answering at each address, or None
    rows,     \* the devices table: id -> row
    seen,     \* ids whose lastSeen is within STALE_DEVICE_TTL
    spc,      \* where each saver stands inside upsertdevice
    item,     \* what its scan found: [ip, mac], mac from the ARP table
    devid,    \* DEV_ID read by getdevicedata, None if it failed or was blank
    match,    \* id of the row the lookups found, NoRow for none
    loaded,   \* that row as the session loaded it
    other,    \* id of another row owning the address, NoRow for none
    result,   \* what the scan counts the item as
    epc,      \* where each editor stands
    eop, eid, eold, eval,   \* its operation, row id, row as loaded, value to write
    saves, edits, moves     \* counters for the bounds

world == <<at, moves>>
table == <<rows, seen>>
saver == <<spc, item, devid, match, loaded, other, result, saves>>
editor == <<epc, eop, eid, eold, eval, edits>>
vars == <<world, table, saver, editor>>

BlankRow == [f \in Fields |-> None]
Columns == Boards \cup Ips \cup Labels \cup {None, Parked}
Row == [Fields -> Columns]

Init ==
    /\ at \in [Ips -> Boards \cup {None}]
    /\ \A i, j \in Ips : i # j /\ at[i] # None => at[i] # at[j]
    /\ rows = [r \in {} |-> BlankRow]
    /\ seen = {}
    /\ spc = [s \in Savers |-> "idle"]
    /\ item = [s \in Savers |-> [ip |-> None, mac |-> None]]
    /\ devid = [s \in Savers |-> None]
    /\ match = [s \in Savers |-> NoRow]
    /\ loaded = [s \in Savers |-> BlankRow]
    /\ other = [s \in Savers |-> NoRow]
    /\ result = [s \in Savers |-> "none"]
    /\ epc = [e \in Editors |-> "idle"]
    /\ eop = [e \in Editors |-> "alias"]
    /\ eid = [e \in Editors |-> NoRow]
    /\ eold = [e \in Editors |-> BlankRow]
    /\ eval = [e \in Editors |-> None]
    /\ saves = 0 /\ edits = 0 /\ moves = 0

-----------------------------------------------------------------------------
\* DHCP: a board takes a free address, leaves the LAN or joins it.
Move(b, i) ==
    /\ moves < MaxMoves
    /\ moves' = moves + 1
    /\ at[i] = None
    /\ at' = [j \in Ips |-> IF j = i THEN b ELSE IF at[j] = b THEN None ELSE at[j]]
    /\ UNCHANGED <<table, saver, editor>>

-----------------------------------------------------------------------------
\* _run_scan_bg, one item: found by the scan, the ARP table may lack its MAC.
Probe(s, i) ==
    /\ spc[s] = "idle"
    /\ saves < MaxSaves
    /\ at[i] # None
    /\ \E m \in {None, at[i]} : item' = [item EXCEPT ![s] = [ip |-> i, mac |-> m]]
    /\ spc' = [spc EXCEPT ![s] = "fetch"]
    /\ result' = [result EXCEPT ![s] = "none"]
    /\ match' = [match EXCEPT ![s] = NoRow]
    /\ other' = [other EXCEPT ![s] = NoRow]
    /\ loaded' = [loaded EXCEPT ![s] = BlankRow]
    /\ saves' = saves + 1
    /\ UNCHANGED <<world, table, devid, editor>>

\* getdevicedata asks whoever answers at the address now; a failure gives {}.
Fetch(s) ==
    /\ spc[s] = "fetch"
    /\ \E d \in {None, at[item[s].ip]} : devid' = [devid EXCEPT ![s] = d]
    /\ spc' = [spc EXCEPT ![s] = "byDevId"]
    /\ UNCHANGED <<world, table, item, match, loaded, other, result, saves, editor>>

\* The id of the row whose column f holds v: NoRow when v is NULL or there is none.
Find(f, v) ==
    IF v # None /\ \E r \in DOMAIN rows : rows[r][f] = v
    THEN CHOOSE r \in DOMAIN rows : rows[r][f] = v
    ELSE NoRow

\* One SELECT ... first(): load the row found, or go on to the next lookup.
Lookup(s, f, v, from, onMiss) ==
    LET r == Find(f, v) IN
    /\ spc[s] = from
    /\ match' = [match EXCEPT ![s] = r]
    /\ loaded' = [loaded EXCEPT ![s] = IF r = NoRow THEN BlankRow ELSE rows[r]]
    /\ spc' = [spc EXCEPT ![s] =
                 IF r = NoRow THEN onMiss
                 ELSE IF rows[r]["ip"] # item[s].ip THEN "other" ELSE "write"]
    /\ UNCHANGED <<world, table, item, devid, other, result, saves, editor>>

LookupDevId(s) == Lookup(s, "devId", devid[s], "byDevId", "byMac")
LookupMac(s)   == Lookup(s, "mac", item[s].mac, "byMac", "byIp")
LookupIp(s)    == Lookup(s, "ip", item[s].ip, "byIp", "write")

\* Mutant: the owner of the target address is not looked for.
LookupNoOther(s) ==
    /\ spc[s] = "other"
    /\ spc' = [spc EXCEPT ![s] = "write"]
    /\ UNCHANGED <<world, table, item, devid, match, loaded, other, result, saves, editor>>

\* The device is moving to this address: does another row own it?
LookupOther(s) ==
    LET r == Find("ip", item[s].ip) IN
    /\ spc[s] = "other"
    /\ other' = [other EXCEPT ![s] = IF r = match[s] THEN NoRow ELSE r]
    /\ spc' = [spc EXCEPT ![s] = "write"]
    /\ UNCHANGED <<world, table, item, devid, match, loaded, result, saves, editor>>

\* Mutant: only a new row is given the address.
AssignedNoIp(s) ==
    [loaded[s] EXCEPT !["devId"] = IF devid[s] # None THEN devid[s] ELSE @,
                      !["ip"]    = IF match[s] = NoRow THEN item[s].ip ELSE @]

\* The attributes upsertdevice assigns to the row it loaded, or gives a new one.
\* A failed read blanks the SIM columns; firmware is kept unless the device told it.
Assigned(s) ==
    [loaded[s] EXCEPT !["devId"] = IF devid[s] # None THEN devid[s] ELSE @,
                      !["ip"]    = item[s].ip,
                      !["grp"]   = IF ScanGroup # None THEN ScanGroup ELSE @,
                      !["mac"]   = IF item[s].mac # None THEN item[s].mac ELSE @,
                      !["sim"]   = devid[s],
                      !["fw"]    = IF devid[s] # None THEN devid[s] ELSE @]

\* Mutant: the whole loaded row is written back.
WriteBack(cur, old, new) == new

\* SQLAlchemy's UPDATE: only the columns that differ from what was loaded.
Merge(cur, old, new) == [f \in Fields |-> IF new[f] # old[f] THEN new[f] ELSE cur[f]]

\* SQLite gives INTEGER PRIMARY KEY the largest id in use plus one: without
\* AUTOINCREMENT the id of a deleted last row is used again.
IsNextId(n) ==
    /\ \A r \in DOMAIN rows : r < n
    /\ n = 1 \/ n - 1 \in DOMAIN rows

\* The row the transaction writes: the one matched, or a new one.
Targets(s) == IF match[s] = NoRow THEN {n \in Ids : IsNextId(n)} ELSE {match[s]}

\* The table after the transaction: the other row parked, row n written.
Written(s, n) ==
    [r \in DOMAIN rows \cup {n} |->
        IF r = n
        THEN IF match[s] = NoRow THEN Assigned(s) ELSE Merge(rows[r], loaded[s], Assigned(s))
        ELSE IF r = other[s] THEN [rows[r] EXCEPT !["ip"] = Parked]
        ELSE rows[r]]

UniqueKeys(tbl) ==
    \A r, q \in DOMAIN tbl : r # q =>
        /\ tbl[r]["ip"] = tbl[q]["ip"] => tbl[r]["ip"] = Parked
        /\ tbl[r]["mac"] = tbl[q]["mac"] => tbl[r]["mac"] = None
        /\ tbl[r]["devId"] = tbl[q]["devId"] => tbl[r]["devId"] = None

RowsExist(s) ==
    /\ match[s] # NoRow => match[s] \in DOMAIN rows
    /\ other[s] # NoRow => other[s] \in DOMAIN rows

\* Flush and commit go through.
Commit(s) ==
    /\ spc[s] = "write"
    /\ RowsExist(s)
    /\ \E n \in Targets(s) :
        /\ UniqueKeys(Written(s, n))
        /\ rows' = Written(s, n)
        /\ seen' = seen \cup {n}
        /\ match' = [match EXCEPT ![s] = n]
    /\ spc' = [spc EXCEPT ![s] = "refresh"]
    /\ UNCHANGED <<world, item, devid, loaded, other, result, saves, editor>>

\* The flush that parks the other row fails: the row is gone, or the database
\* stayed locked.  The session is rolled back and the device is returned as it
\* was, with no "error" in it, so the scan counts it as saved; if its row is gone
\* too, reading its expired attributes raises.
FlushFails(s) ==
    /\ spc[s] = "write"
    /\ other[s] # NoRow
    /\ spc' = [spc EXCEPT ![s] = "idle"]
    /\ result' = [result EXCEPT ![s] = IF match[s] \in DOMAIN rows THEN "saved" ELSE "failed"]
    /\ UNCHANGED <<world, table, item, devid, match, loaded, other, saves, editor>>

\* The commit fails and is rolled back: a key is taken, the row is gone, or the
\* database stayed locked.
CommitFails(s) ==
    /\ spc[s] = "write"
    /\ spc' = [spc EXCEPT ![s] = "idle"]
    /\ result' = [result EXCEPT ![s] = "failed"]
    /\ UNCHANGED <<world, table, item, devid, match, loaded, other, saves, editor>>

\* db.refresh raises when the row has been deleted since the commit.
Refresh(s) ==
    /\ spc[s] = "refresh"
    /\ spc' = [spc EXCEPT ![s] = "idle"]
    /\ result' = [result EXCEPT ![s] = IF match[s] \in DOMAIN rows THEN "saved" ELSE "failed"]
    /\ UNCHANGED <<world, table, item, devid, match, loaded, other, saves, editor>>

-----------------------------------------------------------------------------
\* What an operator may ask to be written: an alias can be cleared, a group not.
Choices(op) ==
    IF op = "alias" THEN Labels \cup {None} ELSE IF op = "group" THEN Labels ELSE {None}

\* A handler loads its row; a missing id is a 404.
Load(e, op, r) ==
    /\ epc[e] = "idle"
    /\ edits < MaxEdits
    /\ r \in DOMAIN rows
    /\ eop' = [eop EXCEPT ![e] = op]
    /\ eid' = [eid EXCEPT ![e] = r]
    /\ eold' = [eold EXCEPT ![e] = rows[r]]
    /\ \E v \in Choices(op) : eval' = [eval EXCEPT ![e] = v]
    /\ epc' = [epc EXCEPT ![e] = IF op \in Contacts THEN "contact" ELSE "write"]
    /\ edits' = edits + 1
    /\ UNCHANGED <<world, table, saver>>

EditorDone(e) ==
    /\ epc' = [epc EXCEPT ![e] = "idle"]
    /\ eid' = [eid EXCEPT ![e] = NoRow]
    /\ eold' = [eold EXCEPT ![e] = BlankRow]
    /\ eval' = [eval EXCEPT ![e] = None]
    /\ UNCHANGED <<eop, edits>>

\* The handler talks to whoever answers at the address it loaded.
Contact(e) ==
    /\ epc[e] = "contact"
    /\ eold[e]["ip"] \in Ips /\ at[eold[e]["ip"]] # None
    /\ ~(eop[e] = "token" /\ eold[e]["token"] # None)
    /\ eval' = [eval EXCEPT ![e] = at[eold[e]["ip"]]]
    /\ epc' = [epc EXCEPT ![e] = IF eop[e] = "simbatch" THEN "reload" ELSE "write"]
    /\ UNCHANGED <<world, table, saver, eop, eid, eold, edits>>

\* ... which fails (an unreachable device, a parked row whose ip is no address),
\* or is not needed: ensure_device_token returns a token the row already holds.
ContactEnds(e) ==
    /\ epc[e] = "contact"
    /\ EditorDone(e)
    /\ UNCHANGED <<world, table, saver>>

\* api_batch_sim queries the rows again after the devices answered and skips
\* those that are gone.  The session still holds the objects of its first query
\* and does not refresh them: what it compares against stays as loaded.
Reload(e) ==
    /\ epc[e] = "reload"
    /\ IF eid[e] \in DOMAIN rows
       THEN /\ epc' = [epc EXCEPT ![e] = "write"]
            /\ UNCHANGED <<eop, eid, eold, eval, edits>>
       ELSE EditorDone(e)
    /\ UNCHANGED <<world, table, saver>>

\* UPDATE devices SET column = value WHERE id = ...; nothing is written when the
\* value is the one loaded, and a row that is gone makes the commit fail.
WriteColumn(e) ==
    /\ epc[e] = "write" /\ eop[e] # "delete"
    /\ rows' = IF eid[e] \in DOMAIN rows /\ eval[e] # eold[e][Column[eop[e]]]
               THEN [rows EXCEPT ![eid[e]] = [@ EXCEPT ![Column[eop[e]]] = eval[e]]]
               ELSE rows
    /\ EditorDone(e)
    /\ UNCHANGED <<world, seen, saver>>

Remove(S) ==
    /\ rows' = [r \in DOMAIN rows \ S |-> rows[r]]
    /\ seen' = seen \ S

\* deletedevice: DELETE ... WHERE id = ... of the row it loaded.
DeleteRow(e) ==
    /\ epc[e] = "write" /\ eop[e] = "delete"
    /\ Remove({eid[e]})
    /\ EditorDone(e)
    /\ UNCHANGED <<world, saver>>

\* api_batch_delete: one DELETE ... WHERE id IN (...).
BatchDelete(S) ==
    /\ "delete" \in Ops
    /\ edits < MaxEdits
    /\ edits' = edits + 1
    /\ S # {}
    /\ Remove(S)
    /\ UNCHANGED <<world, saver, epc, eop, eid, eold, eval>>

-----------------------------------------------------------------------------
\* STALE_DEVICE_TTL goes by without a scan seeing anything.
TimePasses ==
    /\ seen # {}
    /\ seen' = {}
    /\ UNCHANGED <<world, rows, saver, editor>>

\* _cleanup_stale_devices: one DELETE of the parked rows not seen for the TTL.
CleanupStale ==
    LET old == {r \in DOMAIN rows \ seen : rows[r]["ip"] = Parked} IN
    /\ old # {}
    /\ Remove(old)
    /\ UNCHANGED <<world, saver, editor>>

-----------------------------------------------------------------------------
Save(s) ==
    \/ \E i \in Ips : Probe(s, i)
    \/ Fetch(s)
    \/ LookupDevId(s)
    \/ LookupMac(s)
    \/ LookupIp(s)
    \/ LookupOther(s)
    \/ Commit(s)
    \/ FlushFails(s)
    \/ CommitFails(s)
    \/ Refresh(s)

Edit(e) ==
    \/ \E op \in Ops, r \in Ids : Load(e, op, r)
    \/ Contact(e)
    \/ ContactEnds(e)
    \/ Reload(e)
    \/ WriteColumn(e)
    \/ DeleteRow(e)

Next ==
    \/ \E b \in Boards, i \in Ips : Move(b, i)
    \/ \E s \in Savers : Save(s)
    \/ \E e \in Editors : Edit(e)
    \/ \E S \in SUBSET Ids : BatchDelete(S)
    \/ TimePasses
    \/ CleanupStale

Spec == Init /\ [][Next]_vars

-----------------------------------------------------------------------------
\* Types; the keys of the table are unique (the schema's constraints).
TypeOK ==
    /\ at \in [Ips -> Boards \cup {None}]
    /\ DOMAIN rows \subseteq Ids /\ rows \in [DOMAIN rows -> Row]
    /\ \A r \in DOMAIN rows : rows[r]["ip"] \in Ips \cup {Parked}
    /\ UniqueKeys(rows)
    /\ seen \subseteq DOMAIN rows
    /\ spc \in [Savers -> {"idle", "fetch", "byDevId", "byMac", "byIp", "other",
                           "write", "refresh"}]
    /\ item \in [Savers -> [ip : Ips \cup {None}, mac : Boards \cup {None}]]
    /\ \A s \in Savers : spc[s] # "idle" => item[s].ip \in Ips
    /\ devid \in [Savers -> Boards \cup {None}]
    /\ match \in [Savers -> Ids \cup {NoRow}]
    /\ other \in [Savers -> Ids \cup {NoRow}]
    /\ loaded \in [Savers -> Row]
    /\ result \in [Savers -> {"none", "saved", "failed"}]
    /\ epc \in [Editors -> {"idle", "contact", "reload", "write"}]
    /\ eop \in [Editors -> DOMAIN Column]
    /\ eid \in [Editors -> Ids \cup {NoRow}]
    /\ eold \in [Editors -> Row]
    /\ eval \in [Editors -> Boards \cup Labels \cup {None}]

\* "robust upsert that tolerates the UNIQUE(ip) constraint" (main.py:569-571):
\* while one scan saves at a time, whatever operators and the clean-up do
\* meanwhile, no third row can hold the address when the upsert writes.
NoIpConflict ==
    \A s \in Savers : spc[s] = "write" =>
        \A r \in DOMAIN rows :
            rows[r]["ip"] = item[s].ip => r \in {match[s], other[s]}

\* Parking never loses an address: an address that had a row has one after every
\* step, unless its row was deleted or took another address.  The row is parked
\* and the address handed over in one transaction.
AddressesHandedOver ==
    [][\A i \in Ips : \A r \in DOMAIN rows :
        (rows[r]["ip"] = i /\ r \in DOMAIN rows' /\ rows'[r]["ip"] = Parked)
            => \E q \in DOMAIN rows' : rows'[q]["ip"] = i]_vars

\* No lost update: a save that read a row before an operator changed its alias or
\* a handler stored its token does not put the old value back.
SavesKeepEdits ==
    [][\A s \in Savers : spc[s] = "write" /\ spc'[s] = "refresh" =>
        \A r \in DOMAIN rows : \A f \in {"alias", "token"} :
            rows'[r][f] = rows[r][f]]_vars

\* "without silently deleting an unrelated row" (main.py:569-571): the board a
\* row describes disappears from the table only when a row is removed.
SavesForgetNoBoard ==
    [][\A r \in DOMAIN rows : rows[r]["devId"] # None =>
        \/ r \notin DOMAIN rows'
        \/ \E q \in DOMAIN rows' : rows'[q]["devId"] = rows[r]["devId"]]_vars

\* db.py:47-52 names the failure mode this fixes, "the upsert path swallowed it ->
\* scanned devices silently failed to save": an item counted as saved has a row
\* at its address.
SavedIsInTable ==
    [][\A s \in Savers : result[s] = "none" /\ result'[s] = "saved" =>
        \E r \in DOMAIN rows : rows[r]["ip"] = item[s].ip /\ r = match[s]]_vars
=============================================================================
