--------------------------- MODULE RegistryProofs ---------------------------
(***************************************************************************)
(* Theorems about Registry, the devices table, for every set of boards,    *)
(* addresses, editors and every bound, and about Scan, the workflow that   *)
(* fills it, for any number of scans, browsers and hosts.                  *)
(*                                                                         *)
(* Registry: the types and the operators' edits hold for any number of     *)
(* saving threads; what a single one at a time guarantees is stated under  *)
(* OneScan, the assumption the two-scan races in README.md show to be      *)
(* necessary.  NoIpConflict is not inductive alone: the row the session    *)
(* means to park must still own the address when the transaction runs.     *)
(*                                                                         *)
(* Scan: its properties follow from where the worker stands (ScanInv).     *)
(***************************************************************************)
EXTENDS Registry, Scan, TLAPS

OneScan == \A s, t \in Savers : s = t

\* The row a session is about to park still owns the address it is moving to,
\* and is parked only for a matched row that comes from elsewhere.
OtherOwnsAddress ==
    \A s \in Savers : spc[s] = "write" /\ other[s] # NoRow =>
        /\ match[s] # NoRow /\ other[s] # match[s]
        /\ loaded[s]["ip"] # item[s].ip
        /\ other[s] \in DOMAIN rows => rows[other[s]]["ip"] = item[s].ip

\* A session that has not yet looked for another owner has none in hand.
NoOtherYet ==
    \A s \in Savers : spc[s] \in {"fetch", "byDevId", "byMac", "byIp", "other"} =>
        other[s] = NoRow

\* A session looking for another owner matched a row loaded at another address.
MovingRow ==
    \A s \in Savers : spc[s] = "other" =>
        match[s] # NoRow /\ loaded[s]["ip"] # item[s].ip

IInv == TypeOK /\ NoIpConflict /\ OtherOwnsAddress /\ NoOtherYet /\ MovingRow

-----------------------------------------------------------------------------
\* Find returns NoRow exactly when no row holds the value.
LEMMA FindSpec ==
    ASSUME TypeOK, NEW f, NEW v
    PROVE  /\ Find(f, v) \in DOMAIN rows \cup {NoRow}
           /\ Find(f, v) # NoRow => rows[Find(f, v)][f] = v
           /\ v # None /\ Find(f, v) = NoRow => \A r \in DOMAIN rows : rows[r][f] # v
<1>1. NoRow \notin DOMAIN rows
  BY RegistryAssumption DEF TypeOK, Ids, NoRow
<1>2. CASE v # None /\ \E r \in DOMAIN rows : rows[r][f] = v
  BY <1>1, <1>2 DEF Find
<1>3. CASE ~(v # None /\ \E r \in DOMAIN rows : rows[r][f] = v)
  BY <1>3 DEF Find
<1>. QED  BY <1>2, <1>3

\* What an upsert assigns is a row whose address is the item's.
LEMMA AssignedType ==
    ASSUME TypeOK, NEW s \in Savers, spc[s] = "write"
    PROVE  /\ Assigned(s) \in Row
           /\ Assigned(s)["ip"] = item[s].ip
           /\ item[s].ip \in Ips
<1>1. /\ loaded[s] \in [Fields -> Columns] /\ item[s].ip \in Ips
      /\ item[s].mac \in Boards \cup {None} /\ devid[s] \in Boards \cup {None}
  BY DEF TypeOK, Row
<1>2. {"devId", "ip", "grp", "mac", "sim", "fw"} \subseteq Fields
  BY DEF Fields
<1>3. ScanGroup \in Columns /\ item[s].ip \in Columns /\ item[s].mac \in Columns
      /\ devid[s] \in Columns
  BY <1>1, RegistryAssumption DEF Columns
<1>4. Assigned(s) \in [Fields -> Columns]
  BY <1>1, <1>2, <1>3 DEF Assigned
<1>5. Assigned(s)["ip"] = item[s].ip
  BY <1>1, <1>2 DEF Assigned
<1>. QED  BY <1>1, <1>4, <1>5 DEF Row

\* A merge of rows is a row.
LEMMA MergeType ==
    ASSUME NEW cur \in Row, NEW old \in Row, NEW new \in Row
    PROVE  /\ Merge(cur, old, new) \in Row
           /\ \A f \in Fields : Merge(cur, old, new)[f] =
                IF new[f] # old[f] THEN new[f] ELSE cur[f]
BY DEF Merge, Row

\* The table after a transaction: a table again, every address an address.
LEMMA WrittenType ==
    ASSUME TypeOK, NEW s \in Savers, spc[s] = "write", RowsExist(s), NEW n \in Targets(s)
    PROVE  /\ n \in Ids
           /\ DOMAIN Written(s, n) = DOMAIN rows \cup {n}
           /\ Written(s, n) \in [DOMAIN rows \cup {n} -> Row]
           /\ \A r \in DOMAIN rows \cup {n} : Written(s, n)[r]["ip"] \in Ips \cup {Parked}
<1>1. n \in Ids /\ (match[s] # NoRow => n \in DOMAIN rows)
  BY DEF Targets, RowsExist, TypeOK, NoRow
<1>2. ASSUME NEW r \in DOMAIN rows \cup {n}
      PROVE  Written(s, n)[r] \in Row /\ Written(s, n)[r]["ip"] \in Ips \cup {Parked}
  <2>1. CASE r = n /\ match[s] = NoRow
    BY <2>1, AssignedType DEF Written
  <2>2. CASE r = n /\ match[s] # NoRow
    <3>1. /\ Written(s, n)[r] = Merge(rows[r], loaded[s], Assigned(s))
          /\ rows[r] \in Row /\ loaded[s] \in Row /\ rows[r]["ip"] \in Ips \cup {Parked}
      BY <1>1, <2>2 DEF Written, TypeOK
    <3>. QED  BY <3>1, AssignedType, MergeType DEF Fields
  <2>3. CASE r # n /\ r = other[s]
    BY <2>3 DEF Written, TypeOK, Row, Fields, Columns
  <2>4. CASE r # n /\ r # other[s]
    BY <2>4 DEF Written, TypeOK
  <2>. QED  BY <2>1, <2>2, <2>3, <2>4
<1>. QED  BY <1>1, <1>2 DEF Written

-----------------------------------------------------------------------------
\* The initial states satisfy the invariant.
LEMMA InitIInv == Init => IInv
<1> SUFFICES ASSUME Init PROVE IInv
  OBVIOUS
<1>1. BlankRow \in Row
  BY DEF BlankRow, Row, Columns
<1>2. TypeOK
  BY <1>1 DEF Init, TypeOK, UniqueKeys, Column, Ids
<1>3. NoIpConflict /\ OtherOwnsAddress /\ NoOtherYet /\ MovingRow
  BY DEF Init, NoIpConflict, OtherOwnsAddress, NoOtherYet, MovingRow
<1>. QED  BY <1>2, <1>3 DEF IInv

\* Removing rows leaves a well-typed table.
LEMMA RemoveType ==
    ASSUME TypeOK, NEW S, Remove(S)
    PROVE  /\ DOMAIN rows' = DOMAIN rows \ S
           /\ \A r \in DOMAIN rows' : rows'[r] = rows[r]
           /\ DOMAIN rows' \subseteq Ids /\ rows' \in [DOMAIN rows' -> Row]
           /\ \A r \in DOMAIN rows' : rows'[r]["ip"] \in Ips \cup {Parked}
           /\ UniqueKeys(rows') /\ seen' \subseteq DOMAIN rows'
BY DEF TypeOK, Remove, UniqueKeys

\* Writing one column that is no key leaves a well-typed table, with the same
\* rows at the same addresses.
LEMMA WriteColumnType ==
    ASSUME TypeOK, NEW e \in Editors, WriteColumn(e)
    PROVE  /\ DOMAIN rows' = DOMAIN rows
           /\ rows' \in [DOMAIN rows -> Row]
           /\ \A r \in DOMAIN rows : \A f \in {"ip", "mac", "devId"} : rows'[r][f] = rows[r][f]
           /\ \A r \in DOMAIN rows : rows'[r]["ip"] \in Ips \cup {Parked}
           /\ UniqueKeys(rows')
<1> DEFINE c == Column[eop[e]]
<1>1. c \in {"alias", "grp", "sim", "fw", "token"} /\ c \in Fields
  BY DEF WriteColumn, TypeOK, Column, Fields
<1>2. eval[e] \in Columns
  BY DEF TypeOK, Columns
<1>3. CASE rows' = rows
  BY <1>3 DEF TypeOK
<1>4. CASE /\ eid[e] \in DOMAIN rows
           /\ rows' = [rows EXCEPT ![eid[e]] = [@ EXCEPT ![c] = eval[e]]]
  <2> DEFINE new == [rows[eid[e]] EXCEPT ![c] = eval[e]]
  <2>1. rows[eid[e]] \in [Fields -> Columns] /\ rows \in [DOMAIN rows -> Row]
    BY <1>4 DEF TypeOK, Row
  <2>2. new \in [Fields -> Columns] /\ \A f \in {"ip", "mac", "devId"} : new[f] = rows[eid[e]][f]
    BY <1>1, <1>2, <2>1 DEF Fields
  <2>3. /\ DOMAIN rows' = DOMAIN rows
        /\ \A r \in DOMAIN rows : rows'[r] = IF r = eid[e] THEN new ELSE rows[r]
    BY <1>4, <2>1
  <2>4. rows' \in [DOMAIN rows -> Row]
    BY <1>4, <2>1, <2>2 DEF Row
  <2>5. \A r \in DOMAIN rows : \A f \in {"ip", "mac", "devId"} : rows'[r][f] = rows[r][f]
    BY <2>2, <2>3
  <2>6. UniqueKeys(rows')
    BY <2>3, <2>5 DEF TypeOK, UniqueKeys
  <2>. QED  BY <2>3, <2>4, <2>5, <2>6 DEF TypeOK
<1>. QED  BY <1>3, <1>4 DEF WriteColumn

\* Every step keeps the types.
LEMMA TypeStep == TypeOK /\ [Next]_vars => TypeOK'
<1> SUFFICES ASSUME TypeOK, [Next]_vars PROVE TypeOK'
  OBVIOUS
<1> USE DEF world, table, saver, editor
<1>1. BlankRow \in Row /\ None \in Columns
  BY DEF BlankRow, Row, Columns
<1>2. ASSUME NEW b \in Boards, NEW i \in Ips, Move(b, i) PROVE TypeOK'
  BY <1>2 DEF Move, TypeOK
<1>3. ASSUME NEW s \in Savers, NEW i \in Ips, Probe(s, i) PROVE TypeOK'
  BY <1>1, <1>3 DEF Probe, TypeOK
<1>4. ASSUME NEW s \in Savers, Fetch(s) PROVE TypeOK'
  BY <1>4 DEF Fetch, TypeOK
<1>5. ASSUME NEW s \in Savers, NEW f, NEW v,
             NEW from \in {"byDevId", "byMac", "byIp"}, NEW onMiss \in {"byMac", "byIp", "write"},
             Lookup(s, f, v, from, onMiss)
      PROVE  TypeOK'
  <2>1. Find(f, v) \in Ids \cup {NoRow}
    BY FindSpec DEF TypeOK
  <2>2. (IF Find(f, v) = NoRow THEN BlankRow ELSE rows[Find(f, v)]) \in Row
    BY <1>1, FindSpec DEF TypeOK
  <2>. QED  BY <1>5, <2>1, <2>2 DEF Lookup, TypeOK
<1>6. ASSUME NEW s \in Savers, LookupDevId(s) \/ LookupMac(s) \/ LookupIp(s) PROVE TypeOK'
  BY <1>5, <1>6 DEF LookupDevId, LookupMac, LookupIp
<1>7. ASSUME NEW s \in Savers, LookupOther(s) PROVE TypeOK'
  <2>1. Find("ip", item[s].ip) \in Ids \cup {NoRow}
    BY FindSpec DEF TypeOK
  <2>. QED  BY <1>7, <2>1 DEF LookupOther, TypeOK
<1>8. ASSUME NEW s \in Savers, Commit(s) PROVE TypeOK'
  <2>1. PICK n \in Targets(s) :
          /\ UniqueKeys(Written(s, n)) /\ rows' = Written(s, n)
          /\ seen' = seen \cup {n} /\ match' = [match EXCEPT ![s] = n]
    BY <1>8 DEF Commit
  <2>2. /\ n \in Ids /\ DOMAIN rows' = DOMAIN rows \cup {n}
        /\ rows' \in [DOMAIN rows' -> Row]
        /\ \A r \in DOMAIN rows' : rows'[r]["ip"] \in Ips \cup {Parked}
    BY <1>8, <2>1, WrittenType DEF Commit
  <2>3. /\ spc' = [spc EXCEPT ![s] = "refresh"] /\ spc[s] = "write"
        /\ UNCHANGED <<world, item, devid, loaded, other, result, saves, editor>>
    BY <1>8 DEF Commit
  <2>. QED  BY <2>1, <2>2, <2>3 DEF TypeOK
<1>9. ASSUME NEW s \in Savers, FlushFails(s) \/ CommitFails(s) \/ Refresh(s) PROVE TypeOK'
  BY <1>9 DEF FlushFails, CommitFails, Refresh, TypeOK
<1>10. ASSUME NEW e \in Editors, NEW op \in Ops, NEW r \in Ids, Load(e, op, r) PROVE TypeOK'
  <2>1. op \in DOMAIN Column
    BY RegistryAssumption DEF Column
  <2>2. Choices(op) \subseteq Boards \cup Labels \cup {None}
    BY DEF Choices
  <2>. QED  BY <1>10, <2>1, <2>2 DEF Load, TypeOK
<1>11. ASSUME NEW e \in Editors, Contact(e) \/ ContactEnds(e) PROVE TypeOK'
  BY <1>1, <1>11 DEF Contact, ContactEnds, EditorDone, TypeOK, NoRow
<1>12. ASSUME NEW e \in Editors, Reload(e) PROVE TypeOK'
  <2>1. UNCHANGED <<world, table, saver>>
    BY <1>12 DEF Reload
  <2>2. CASE eid[e] \in DOMAIN rows
    <3>1. epc' = [epc EXCEPT ![e] = "write"] /\ UNCHANGED <<eop, eid, eold, eval, edits>>
      BY <1>12, <2>2 DEF Reload, TypeOK
    <3>. QED  BY <2>1, <3>1 DEF TypeOK
  <2>3. CASE eid[e] \notin DOMAIN rows
    <3>1. EditorDone(e)
      BY <1>12, <2>3 DEF Reload
    <3>. QED  BY <1>1, <2>1, <3>1 DEF EditorDone, TypeOK, NoRow
  <2>. QED  BY <2>2, <2>3
<1>13. ASSUME NEW e \in Editors, WriteColumn(e) PROVE TypeOK'
  <2>1. UNCHANGED <<world, seen, saver>> /\ EditorDone(e)
    BY <1>13 DEF WriteColumn
  <2>. QED  BY <1>1, <1>13, <2>1, WriteColumnType DEF EditorDone, TypeOK, NoRow
<1>14. ASSUME NEW e \in Editors, DeleteRow(e) PROVE TypeOK'
  <2>1. UNCHANGED <<world, saver>> /\ EditorDone(e) /\ Remove({eid[e]})
    BY <1>14 DEF DeleteRow
  <2>. QED  BY <1>1, <2>1, RemoveType DEF EditorDone, TypeOK, NoRow
<1>15. ASSUME NEW S \in SUBSET Ids, BatchDelete(S) PROVE TypeOK'
  BY <1>15, RemoveType DEF BatchDelete, TypeOK
<1>16. CASE TimePasses
  BY <1>16 DEF TimePasses, TypeOK
<1>17. CASE CleanupStale
  BY <1>17, RemoveType DEF CleanupStale, TypeOK
<1>18. CASE UNCHANGED vars
  BY <1>18 DEF vars, TypeOK
<1>. QED
  BY <1>2, <1>3, <1>4, <1>6, <1>7, <1>8, <1>9, <1>10, <1>11, <1>12, <1>13, <1>14,
     <1>15, <1>16, <1>17, <1>18
  DEF Next, Save, Edit

\* The types are an invariant, for any number of scans at a time.
THEOREM TypeCorrect == Spec => []TypeOK
<1>1. Init => TypeOK
  BY InitIInv DEF IInv
<1>. QED  BY <1>1, TypeStep, PTL DEF Spec

-----------------------------------------------------------------------------
\* Only a commit gives a row an address or takes one: every other step leaves the
\* addresses of the rows it does not remove, and adds no row.
AddressFrame ==
    DOMAIN rows' \subseteq DOMAIN rows /\ \A r \in DOMAIN rows' : rows'[r]["ip"] = rows[r]["ip"]

LEMMA OnlyCommitMovesAddresses ==
    ASSUME TypeOK, [Next]_vars, \A s \in Savers : ~Commit(s)
    PROVE  AddressFrame
<1> USE DEF world, table, saver, editor
<1>1. CASE UNCHANGED rows
  BY <1>1 DEF AddressFrame
<1>2. ASSUME NEW S, Remove(S) PROVE AddressFrame
  BY <1>2, RemoveType DEF AddressFrame
<1>3. ASSUME NEW e \in Editors, WriteColumn(e) PROVE AddressFrame
  BY <1>3, WriteColumnType DEF AddressFrame
<1>4. ASSUME NEW s \in Savers, Save(s) PROVE UNCHANGED rows
  BY <1>4 DEF Save, Probe, Fetch, LookupDevId, LookupMac, LookupIp, Lookup, LookupOther,
              FlushFails, CommitFails, Refresh
<1>5. ASSUME NEW e \in Editors, Edit(e) PROVE AddressFrame
  BY <1>1, <1>2, <1>3, <1>5 DEF Edit, Load, Contact, ContactEnds, Reload, DeleteRow
<1>6. CASE (\E b \in Boards, i \in Ips : Move(b, i)) \/ TimePasses \/ UNCHANGED vars
  BY <1>1, <1>6 DEF Move, TimePasses, vars
<1>7. CASE (\E S \in SUBSET Ids : BatchDelete(S)) \/ CleanupStale
  BY <1>2, <1>7 DEF BatchDelete, CleanupStale
<1>. QED  BY <1>1, <1>4, <1>5, <1>6, <1>7 DEF Next

\* What the steps of editors, the clean-up and the network leave of a scan.
LEMMA OthersKeepInv ==
    ASSUME IInv, AddressFrame, UNCHANGED saver
    PROVE  NoIpConflict' /\ OtherOwnsAddress' /\ NoOtherYet' /\ MovingRow'
<1> USE DEF saver
<1>1. NoIpConflict'
  BY DEF IInv, AddressFrame, NoIpConflict
<1>2. OtherOwnsAddress'
  BY DEF IInv, AddressFrame, OtherOwnsAddress
<1>. QED  BY <1>1, <1>2 DEF IInv, NoOtherYet, MovingRow

\* A lookup that ends the search at the right row, or goes on to the next one.
LEMMA LookupKeepsInv ==
    ASSUME IInv, OneScan, NEW s \in Savers, NEW f, NEW v,
           NEW from \in {"byDevId", "byMac", "byIp"}, NEW onMiss \in {"byMac", "byIp", "write"},
           Lookup(s, f, v, from, onMiss),
           onMiss = "write" => f = "ip" /\ v = item[s].ip
    PROVE  NoIpConflict' /\ OtherOwnsAddress' /\ NoOtherYet' /\ MovingRow'
<1> DEFINE r == Find(f, v)
<1>2. /\ spc[s] = from /\ other' = other /\ rows' = rows /\ item' = item
      /\ match' = [match EXCEPT ![s] = r]
      /\ loaded' = [loaded EXCEPT ![s] = IF r = NoRow THEN BlankRow ELSE rows[r]]
      /\ spc' = [spc EXCEPT ![s] =
                  IF r = NoRow THEN onMiss
                  ELSE IF rows[r]["ip"] # item[s].ip THEN "other" ELSE "write"]
  BY DEF Lookup, table
<1>3. TypeOK /\ item[s].ip \in Ips /\ other[s] = NoRow
  BY <1>2 DEF IInv, TypeOK, NoOtherYet
<1>4. \A t \in Savers : t = s
  BY DEF OneScan
<1>5. /\ match'[s] = r /\ other'[s] = NoRow
      /\ loaded'[s] = IF r = NoRow THEN BlankRow ELSE rows[r]
      /\ spc'[s] = IF r = NoRow THEN onMiss
                   ELSE IF rows[r]["ip"] # item[s].ip THEN "other" ELSE "write"
  BY <1>2, <1>3 DEF TypeOK
<1>6. NoIpConflict'
  <2>1. SUFFICES ASSUME spc'[s] = "write", NEW q \in DOMAIN rows, rows[q]["ip"] = item[s].ip
                 PROVE  q = r
    BY <1>2, <1>4, <1>5 DEF NoIpConflict
  <2>2. CASE r = NoRow
    <3>1. f = "ip" /\ v = item[s].ip /\ v # None
      BY <1>3, <1>5, <2>1, <2>2, RegistryAssumption
    <3>. QED  BY <1>3, <2>1, <2>2, <3>1, FindSpec
  <2>3. CASE r # NoRow
    <3>1. r \in DOMAIN rows /\ rows[r]["ip"] = item[s].ip
      BY <1>3, <1>5, <2>1, <2>3, FindSpec
    <3>2. item[s].ip # Parked
      BY <1>3, RegistryAssumption
    <3>. QED  BY <1>3, <2>1, <3>1, <3>2 DEF TypeOK, UniqueKeys
  <2>. QED  BY <2>2, <2>3
<1>7. OtherOwnsAddress' /\ NoOtherYet'
  BY <1>4, <1>5 DEF OtherOwnsAddress, NoOtherYet
<1>8. MovingRow'
  BY <1>2, <1>4, <1>5 DEF MovingRow
<1>. QED  BY <1>6, <1>7, <1>8

\* The last read before writing finds the row that owns the address.
LEMMA LookupOtherKeepsInv ==
    ASSUME IInv, OneScan, NEW s \in Savers, LookupOther(s)
    PROVE  NoIpConflict' /\ OtherOwnsAddress' /\ NoOtherYet' /\ MovingRow'
<1> DEFINE r == Find("ip", item[s].ip)
<1>1. /\ spc[s] = "other" /\ spc' = [spc EXCEPT ![s] = "write"]
      /\ other' = [other EXCEPT ![s] = IF r = match[s] THEN NoRow ELSE r]
      /\ UNCHANGED <<rows, item, match, loaded>>
  BY DEF LookupOther, table
<1>2. TypeOK /\ item[s].ip \in Ips /\ match[s] # NoRow /\ loaded[s]["ip"] # item[s].ip
  BY <1>1 DEF IInv, TypeOK, MovingRow
<1>3. \A t \in Savers : t = s
  BY DEF OneScan
<1>4. spc'[s] = "write" /\ other'[s] = IF r = match[s] THEN NoRow ELSE r
  BY <1>1, <1>2 DEF TypeOK
<1>5. item[s].ip # None /\ item[s].ip # Parked
  BY <1>2, RegistryAssumption
<1>6. /\ r \in DOMAIN rows \cup {NoRow}
      /\ r # NoRow => rows[r]["ip"] = item[s].ip
      /\ r = NoRow => \A q \in DOMAIN rows : rows[q]["ip"] # item[s].ip
  BY <1>2, <1>5, FindSpec
<1>7. NoIpConflict'
  <2>1. SUFFICES ASSUME NEW q \in DOMAIN rows, rows[q]["ip"] = item[s].ip
                 PROVE  q \in {match[s], other'[s]}
    BY <1>1, <1>3 DEF NoIpConflict
  <2>2. r # NoRow /\ r \in DOMAIN rows
    BY <1>6, <2>1
  <2>3. q = r
    BY <1>2, <1>5, <1>6, <2>1, <2>2 DEF TypeOK, UniqueKeys
  <2>. QED  BY <1>4, <2>3
<1>8. OtherOwnsAddress'
  BY <1>1, <1>2, <1>3, <1>4, <1>6 DEF OtherOwnsAddress
<1>9. NoOtherYet' /\ MovingRow'
  BY <1>3, <1>4 DEF NoOtherYet, MovingRow
<1>. QED  BY <1>7, <1>8, <1>9

\* With one scan at a time the strengthening is inductive.
LEMMA InvStep == OneScan /\ IInv /\ [Next]_vars => IInv'
<1> SUFFICES ASSUME OneScan, IInv, [Next]_vars
             PROVE  TypeOK' /\ NoIpConflict' /\ OtherOwnsAddress' /\ NoOtherYet' /\ MovingRow'
  BY DEF IInv
<1> USE DEF world, table, saver, editor
<1>1. TypeOK /\ TypeOK'
  BY TypeStep DEF IInv
<1>2. CASE UNCHANGED saver /\ \A s \in Savers : ~Commit(s)
  BY <1>1, <1>2, OnlyCommitMovesAddresses, OthersKeepInv
<1>3. ASSUME NEW s \in Savers, Save(s)
      PROVE  NoIpConflict' /\ OtherOwnsAddress' /\ NoOtherYet' /\ MovingRow'
  <2>1. \A t \in Savers : t = s
    BY DEF OneScan
  <2>2. ASSUME NEW i \in Ips, Probe(s, i)
        PROVE  NoIpConflict' /\ OtherOwnsAddress' /\ NoOtherYet' /\ MovingRow'
    <3>1. spc'[s] = "fetch" /\ other'[s] = NoRow
      BY <1>1, <2>2 DEF Probe, TypeOK
    <3>. QED  BY <2>1, <3>1 DEF NoIpConflict, OtherOwnsAddress, NoOtherYet, MovingRow
  <2>3. CASE Fetch(s)
    <3>1. spc'[s] = "byDevId" /\ other' = other /\ spc[s] = "fetch"
      BY <1>1, <2>3 DEF Fetch, TypeOK
    <3>. QED
      BY <2>1, <3>1 DEF IInv, NoIpConflict, OtherOwnsAddress, NoOtherYet, MovingRow
  <2>4. CASE LookupDevId(s) \/ LookupMac(s) \/ LookupIp(s)
    BY <2>4, LookupKeepsInv DEF LookupDevId, LookupMac, LookupIp
  <2>5. CASE LookupOther(s)
    BY <2>5, LookupOtherKeepsInv
  <2>6. CASE Commit(s) \/ FlushFails(s) \/ CommitFails(s) \/ Refresh(s)
    <3>1. spc'[s] \in {"idle", "refresh"}
      BY <1>1, <2>6 DEF Commit, FlushFails, CommitFails, Refresh, TypeOK
    <3>. QED  BY <2>1, <3>1 DEF NoIpConflict, OtherOwnsAddress, NoOtherYet, MovingRow
  <2>. QED  BY <1>3, <2>2, <2>3, <2>4, <2>5, <2>6 DEF Save
<1>4. CASE \E s \in Savers : Save(s)
  BY <1>1, <1>3, <1>4
<1>5. CASE ~\E s \in Savers : Save(s)
  <2>1. \A s \in Savers : ~Commit(s)
    BY <1>5 DEF Save
  <2>2. CASE (\E b \in Boards, i \in Ips : Move(b, i)) \/ TimePasses \/ CleanupStale
             \/ (\E S \in SUBSET Ids : BatchDelete(S)) \/ UNCHANGED vars
    <3>1. UNCHANGED saver
      BY <2>2 DEF Move, TimePasses, CleanupStale, BatchDelete, vars
    <3>. QED  BY <1>2, <1>1, <2>1, <3>1
  <2>3. CASE \E e \in Editors : Edit(e)
    <3>1. UNCHANGED saver
      BY <2>3 DEF Edit, Load, Contact, ContactEnds, Reload, WriteColumn, DeleteRow
    <3>. QED  BY <1>2, <1>1, <2>1, <3>1
  <2>. QED  BY <1>5, <2>2, <2>3 DEF Next
<1>. QED  BY <1>4, <1>5

LEMMA Invariance == OneScan => (Spec => []IInv)
<1> SUFFICES ASSUME OneScan PROVE Spec => []IInv
  OBVIOUS
<1>1. IInv /\ [Next]_vars => IInv'
  BY InvStep
<1>. QED  BY <1>1, InitIInv, PTL DEF Spec

\* One scan at a time never meets a taken address when it writes, whatever the
\* operators, the clean-up and DHCP do between its reads and its transaction.
THEOREM IpConflictFree == OneScan => (Spec => []NoIpConflict)
<1> SUFFICES ASSUME OneScan PROVE Spec => []NoIpConflict
  OBVIOUS
<1>1. IInv => NoIpConflict
  BY DEF IInv
<1>. QED  BY <1>1, Invariance, PTL

-----------------------------------------------------------------------------
\* The condition of AddressesHandedOver on one step.
HandedOver ==
    \A i \in Ips : \A r \in DOMAIN rows :
        (rows[r]["ip"] = i /\ r \in DOMAIN rows' /\ rows'[r]["ip"] = Parked)
            => \E q \in DOMAIN rows' : rows'[q]["ip"] = i

\* A commit parks a row only to give its address to the row it writes.
LEMMA CommitHandsOver ==
    ASSUME IInv, NEW s \in Savers, Commit(s)
    PROVE  HandedOver
<1> SUFFICES ASSUME NEW i \in Ips, NEW r \in DOMAIN rows, rows[r]["ip"] = i,
                    r \in DOMAIN rows', rows'[r]["ip"] = Parked
             PROVE  \E q \in DOMAIN rows' : rows'[q]["ip"] = i
  BY DEF HandedOver
<1>1. PICK n \in Targets(s) : rows' = Written(s, n)
  BY DEF Commit
<1>2. TypeOK /\ spc[s] = "write" /\ RowsExist(s) /\ Parked \notin Ips
  BY RegistryAssumption DEF IInv, Commit
<1>3. /\ DOMAIN rows' = DOMAIN rows \cup {n} /\ n \in Ids
      /\ (match[s] # NoRow => n = match[s] /\ n \in DOMAIN rows)
  BY <1>1, <1>2, WrittenType DEF Targets, RowsExist
<1>4. Assigned(s) \in Row /\ Assigned(s)["ip"] = item[s].ip /\ item[s].ip \in Ips
  BY <1>2, AssignedType
<1>5. match[s] # NoRow =>
        rows'[n]["ip"] = IF item[s].ip # loaded[s]["ip"] THEN item[s].ip ELSE rows[n]["ip"]
  <2>1. ASSUME match[s] # NoRow PROVE rows'[n] = Merge(rows[n], loaded[s], Assigned(s))
    BY <1>1, <1>3, <2>1 DEF Written
  <2>2. (rows[n] \in Row /\ loaded[s] \in Row) \/ match[s] = NoRow
    BY <1>2, <1>3 DEF TypeOK
  <2>. QED  BY <1>4, <2>1, <2>2, MergeType DEF Fields
<1>6. r # n
  <2>1. CASE match[s] = NoRow
    BY <1>1, <1>2, <1>3, <1>4, <2>1 DEF Written
  <2>2. CASE match[s] # NoRow
    BY <1>2, <1>4, <1>5, <2>2
  <2>. QED  BY <2>1, <2>2
<1>7. r = other[s]
  BY <1>1, <1>2, <1>3, <1>6 DEF Written
<1>8. other[s] # NoRow
  BY <1>2, <1>7, RegistryAssumption DEF TypeOK, Ids, NoRow
<1>9. match[s] # NoRow /\ loaded[s]["ip"] # item[s].ip /\ i = item[s].ip
  BY <1>2, <1>7, <1>8 DEF IInv, OtherOwnsAddress
<1>10. rows'[n]["ip"] = i
  BY <1>5, <1>9
<1>. QED  BY <1>3, <1>10

\* With one scan at a time no address is lost by parking the row that had it.
THEOREM ParkingHandsOver == OneScan => (Spec => AddressesHandedOver)
<1> SUFFICES ASSUME OneScan PROVE Spec => [][HandedOver]_vars
  BY DEF AddressesHandedOver, HandedOver
<1>1. IInv /\ [Next]_vars => [HandedOver]_vars
  <2> SUFFICES ASSUME IInv, [Next]_vars PROVE HandedOver
    OBVIOUS
  <2>1. CASE \E s \in Savers : Commit(s)
    BY <2>1, CommitHandsOver
  <2>2. CASE \A s \in Savers : ~Commit(s)
    BY <2>2, OnlyCommitMovesAddresses, RegistryAssumption DEF AddressFrame, HandedOver, IInv
  <2>. QED  BY <2>1, <2>2
<1>. QED  BY <1>1, Invariance, PTL DEF Spec


-----------------------------------------------------------------------------
\* What an upsert never assigns, a merge takes from the row as it is now.
LEMMA UnassignedIsKept ==
    ASSUME TypeOK, NEW s \in Savers, spc[s] = "write", NEW cur \in Row, NEW f \in {"alias", "token"}
    PROVE  Merge(cur, loaded[s], Assigned(s))[f] = cur[f]
<1>1. loaded[s] \in [Fields -> Columns] /\ f \in Fields
  BY DEF TypeOK, Row, Fields
<1>2. Assigned(s)[f] = loaded[s][f]
  BY <1>1 DEF Assigned, Fields
<1>3. Assigned(s) \in Row /\ loaded[s] \in Row
  BY <1>1, AssignedType DEF Row
<1>. QED  BY <1>1, <1>2, <1>3, MergeType

LEMMA CommitKeepsEdits ==
    ASSUME TypeOK, NEW s \in Savers, Commit(s), NEW r \in DOMAIN rows, NEW f \in {"alias", "token"}
    PROVE  rows'[r][f] = rows[r][f]
<1>1. PICK n \in Targets(s) : rows' = Written(s, n)
  BY DEF Commit
<1>2. spc[s] = "write" /\ RowsExist(s) /\ rows[r] \in Row /\ r \in Int
  BY DEF Commit, TypeOK, Ids
<1>3. rows'[r] = IF r = n
                 THEN IF match[s] = NoRow THEN Assigned(s)
                                          ELSE Merge(rows[r], loaded[s], Assigned(s))
                 ELSE IF r = other[s] THEN [rows[r] EXCEPT !["ip"] = Parked]
                 ELSE rows[r]
  BY <1>1 DEF Written
<1>4. CASE r = n
  <2>1. match[s] # NoRow
    BY <1>2, <1>4 DEF Targets, IsNextId
  <2>. QED  BY <1>2, <1>3, <1>4, <2>1, UnassignedIsKept
<1>5. CASE r # n
  BY <1>2, <1>3, <1>5 DEF Row, Fields
<1>. QED  BY <1>4, <1>5

\* However many scans save at once, and whatever a session had loaded when an
\* operator renamed the device or a handler stored its token, its commit writes
\* back neither.
THEOREM NoLostEdit == Spec => SavesKeepEdits
<1> DEFINE Keeps == \A s \in Savers : spc[s] = "write" /\ spc'[s] = "refresh" =>
                        \A r \in DOMAIN rows : \A f \in {"alias", "token"} :
                            rows'[r][f] = rows[r][f]
<1>1. TypeOK /\ [Next]_vars => Keeps
  <2> SUFFICES ASSUME TypeOK, [Next]_vars, NEW s \in Savers, spc[s] = "write", spc'[s] = "refresh"
               PROVE  Commit(s)
    BY CommitKeepsEdits
  <2>1. spc' # spc
    OBVIOUS
  <2>2. PICK t \in Savers : Save(t)
    BY <2>1 DEF Next, Move, Edit, Load, Contact, ContactEnds, Reload, WriteColumn, DeleteRow,
                BatchDelete, TimePasses, CleanupStale, vars, saver
  <2>3. t = s
    BY <2>2 DEF Save, Probe, Fetch, LookupDevId, LookupMac, LookupIp, Lookup, LookupOther, Commit,
                FlushFails, CommitFails, Refresh, TypeOK
  <2>4. ~(\E i \in Ips : Probe(s, i)) /\ ~Fetch(s) /\ ~LookupOther(s) /\ ~Refresh(s)
    BY DEF Probe, Fetch, LookupOther, Refresh
  <2>5. ~LookupDevId(s) /\ ~LookupMac(s) /\ ~LookupIp(s)
    BY DEF LookupDevId, LookupMac, LookupIp, Lookup
  <2>6. ~FlushFails(s) /\ ~CommitFails(s)
    BY DEF FlushFails, CommitFails, TypeOK
  <2>. QED  BY <2>2, <2>3, <2>4, <2>5, <2>6 DEF Save
<1>. QED  BY <1>1, TypeCorrect, PTL DEF Spec, SavesKeepEdits

-----------------------------------------------------------------------------
(***************************************************************************)
(* The scan workflow.                                                      *)
(***************************************************************************)

\* A browser that sleeps has a poll left; one that polls or refreshes has a scan.
PollsLeft ==
    \A c \in Clients :
        /\ client[c] = "sleeping" => ticks[c] > 0
        /\ client[c] \notin {"idle", "hungStart"} => scanId[c] \in Scans

\* finished_at is set by the worker's very last step.
FinishedHasEnded == \A s \in Scans : finished[s] => worker[s] = "ended"

\* The status says where the worker stands, as far as the two are in step.
StatusFollows ==
    \A s \in Scans :
        /\ worker[s] = "probing" => status[s] = "scanning"
        /\ status[s] = "saving" => worker[s] = "saving"
        /\ status[s] = "error" => worker[s] \in {"closing", "ended"}

\* Everything the probes left is saved, counted as failed, or still to do.
NothingDropped ==
    \A s \in Scans : worker[s] = "saving" =>
        results[s] \subseteq todo[s] \cup written[s] \cup unflushed[s] \cup failed[s]

\* The scan has failed for good, or its process is gone.
Over(s) == worker[s] = "lost" \/ (status[s] = "error" /\ worker[s] \in {"closing", "ended"})

\* A browser is told "error" of a scan that is over.
ErrorIsLast == \A c \in Clients : reply[c] = "error" => scanId[c] \in Scans /\ Over(scanId[c])

ScanInv ==
    /\ ScanTypeOK
    /\ PollsLeft
    /\ RunningScansStayKnown
    /\ FinishedHasEnded
    /\ StatusFollows
    /\ NothingDropped
    /\ ErrorIsLast

\* The steps of the server that no browser asked for, and the steps of a browser
\* and its session that start no scan.
ServerStep == (\E s \in Scans : Worker(s) \/ Age(s)) \/ Cleanup \/ Restart
BrowserStep == (\E c \in Clients : StartRefused(c) \/ Browser(c) \/ LogoutLost(c)) \/ Session

LEMMA ServerFrame == ServerStep => UNCHANGED <<browser, login>>
BY DEF ServerStep, Worker, Begin, Probed, ProbeFails, StartSaving, SaveItem, SaveItemUnflushed,
       SaveItemFails, SaveAborts, Publish, Close, Age, Cleanup, Restart

LEMMA BrowserFrame == BrowserStep => UNCHANGED <<state, run, restarts>> /\ known' \in {known, Kept}
BY DEF BrowserStep, Browser, StartRefused, Hangs, Poll, PollFails, PollRefused, Receive, Refreshed,
       RefreshRefused, LogoutSettles, LogoutLost, Released, Session, SessionEnds, LogsIn, LogsOut

LEMMA StepScanTypes == ScanInv /\ [ScanNext]_scanVars => ScanTypeOK'
<1> SUFFICES ASSUME ScanInv, [ScanNext]_scanVars PROVE ScanTypeOK'
  OBVIOUS
<1> USE DEF ScanInv, ScanTypeOK, PollsLeft, Statuses, Running, Hung, state, run, browser, login
<1>1. ASSUME NEW s \in Scans, Begin(s) PROVE ScanTypeOK'
  BY <1>1 DEF Begin, Goto, SetStatus
<1>2. ASSUME NEW s \in Scans, Probed(s) PROVE ScanTypeOK'
  BY <1>2, ScanAssumption DEF ScanAssumption, Probed, Goto, SetStatus
<1>3. ASSUME NEW s \in Scans, ProbeFails(s) PROVE ScanTypeOK'
  BY <1>3 DEF ProbeFails, Goto, SetStatus
<1>4. ASSUME NEW s \in Scans, StartSaving(s) PROVE ScanTypeOK'
  BY <1>4 DEF StartSaving, Goto, SetStatus
<1>5. ASSUME NEW s \in Scans, NEW h \in Hosts, SaveItem(s, h) PROVE ScanTypeOK'
  BY <1>5 DEF SaveItem
<1>6. ASSUME NEW s \in Scans, NEW h \in Hosts, SaveItemUnflushed(s, h) PROVE ScanTypeOK'
  BY <1>6 DEF SaveItemUnflushed
<1>7. ASSUME NEW s \in Scans, NEW h \in Hosts, SaveItemFails(s, h) PROVE ScanTypeOK'
  BY <1>7 DEF SaveItemFails
<1>8. ASSUME NEW s \in Scans, SaveAborts(s) PROVE ScanTypeOK'
  BY <1>8 DEF SaveAborts, Goto, SetStatus
<1>9. ASSUME NEW s \in Scans, Publish(s) PROVE ScanTypeOK'
  BY <1>9 DEF Publish, Goto, SetStatus
<1>10. ASSUME NEW s \in Scans, Close(s) PROVE ScanTypeOK'
  BY <1>10 DEF Close, Goto
<1>11. ASSUME NEW s \in Scans, Age(s) PROVE ScanTypeOK'
  BY <1>11 DEF Age
<1>12. CASE Cleanup
  BY <1>12 DEF Cleanup, Kept
<1>13. CASE Restart
  <2>1. restarts' \in 0..MaxRestarts
    BY <1>13, ScanAssumption DEF Restart, ScanAssumption
  <2>2. status' \in [Scans -> {"pending", "scanning", "saving", "done", "error"}]
    BY <1>13 DEF Restart, Pending
  <2>3. \A f \in {results', todo', written', unflushed', failed'} : f \in [Scans -> SUBSET Hosts]
    BY <1>13 DEF Restart, Nothing
  <2>4. finished' \in [Scans -> BOOLEAN] /\ aged' \in [Scans -> BOOLEAN]
    BY <1>13, Zenon DEF Restart, Never
  <2>5. worker' \in [Scans -> Running \cup {"none", "ended", "lost"}]
    BY <1>13 DEF Restart
  <2> QED
    BY <1>13, <2>1, <2>2, <2>3, <2>4, <2>5 DEF Restart, login
<1>14. ASSUME NEW c \in Clients, NEW s \in Scans, Start(c, s) PROVE ScanTypeOK'
  <2>1. ticks' \in [Clients -> 0..MaxTicks]
    BY <1>14, ScanAssumption DEF Start, ScanAssumption
  <2>2. scanId' \in [Clients -> Scans \cup {NoScan}]
    BY <1>14 DEF Start
  <2> QED
    BY <1>14, <2>1, <2>2 DEF Start, Register, Goto
<1>15. ASSUME NEW c \in Clients, NEW s \in Scans, StartAnswerLost(c, s) PROVE ScanTypeOK'
  BY <1>15 DEF StartAnswerLost, Register, Goto
<1>16. ASSUME NEW c \in Clients, StartRefused(c) PROVE ScanTypeOK'
  BY <1>16 DEF StartRefused, Hangs
<1>17. ASSUME NEW c \in Clients, Poll(c) PROVE ScanTypeOK'
  <2>1. ticks' \in [Clients -> 0..MaxTicks]
    BY <1>17, ScanAssumption DEF Poll, Ticked, ScanAssumption
  <2>2. reply' \in [Clients -> Statuses \cup {"none", "failed"}]
    <3>1. scanId[c] \in Kept => status[scanId[c]] \in Statuses
      BY DEF Kept
    <3> QED
      BY <1>17, <3>1 DEF Poll
  <2>3. known' \subseteq Scans
    BY <1>17 DEF Poll, Kept
  <2> QED
    BY <1>17, <2>1, <2>2, <2>3 DEF Poll
<1>18. ASSUME NEW c \in Clients, PollFails(c) PROVE ScanTypeOK'
  <2>1. ticks' \in [Clients -> 0..MaxTicks]
    BY <1>18, ScanAssumption DEF PollFails, Ticked, ScanAssumption
  <2> QED
    BY <1>18, <2>1 DEF PollFails
<1>19. ASSUME NEW c \in Clients, PollRefused(c) PROVE ScanTypeOK'
  <2>1. ticks' \in [Clients -> 0..MaxTicks]
    BY <1>19, ScanAssumption DEF PollRefused, Hangs, Ticked, ScanAssumption
  <2> QED
    BY <1>19, <2>1 DEF PollRefused, Hangs
<1>20. ASSUME NEW c \in Clients, Receive(c) PROVE ScanTypeOK'
  BY <1>20 DEF Receive, NextStep
<1>21. ASSUME NEW c \in Clients, Refreshed(c) PROVE ScanTypeOK'
  <2>1. ticks' \in [Clients -> 0..MaxTicks] /\ scanId' \in [Clients -> Scans \cup {NoScan}]
    BY <1>21, ScanAssumption DEF Refreshed, Ends, ScanAssumption
  <2> QED
    BY <1>21, <2>1 DEF Refreshed, Ends
<1>22. ASSUME NEW c \in Clients, RefreshRefused(c) PROVE ScanTypeOK'
  BY <1>22 DEF RefreshRefused, Hangs
<1>23. ASSUME NEW c \in Clients, LogoutSettles(c) PROVE ScanTypeOK'
  <2>1. ticks' \in [Clients -> 0..MaxTicks] /\ scanId' \in [Clients -> Scans \cup {NoScan}]
    BY <1>23, ScanAssumption DEF LogoutSettles, Released, Ends, ScanAssumption
  <2>2. client' \in [Clients -> Hung \cup {"idle", "sleeping", "answered", "refreshing"}]
    BY <1>23 DEF LogoutSettles, Released, Ends
  <2>3. reply' \in [Clients -> Statuses \cup {"none", "failed"}]
    BY <1>23 DEF LogoutSettles, Released, Ends
  <2>4. authed' \in [Clients -> BOOLEAN] /\ stale' \in BOOLEAN
    BY <1>23 DEF LogoutSettles, Released
  <2> QED
    BY <1>23, <2>1, <2>2, <2>3, <2>4 DEF LogoutSettles, Released
<1>24. ASSUME NEW c \in Clients, LogoutLost(c) PROVE ScanTypeOK'
  <2>1. ticks' \in [Clients -> 0..MaxTicks] /\ scanId' \in [Clients -> Scans \cup {NoScan}]
    BY <1>24, ScanAssumption DEF LogoutLost, Released, Ends, ScanAssumption
  <2>2. client' \in [Clients -> Hung \cup {"idle", "sleeping", "answered", "refreshing"}]
    BY <1>24 DEF LogoutLost, Released, Ends
  <2>3. reply' \in [Clients -> Statuses \cup {"none", "failed"}]
    BY <1>24 DEF LogoutLost, Released, Ends
  <2>4. authed' \in [Clients -> BOOLEAN] /\ stale' \in BOOLEAN
    BY <1>24 DEF LogoutLost, Released
  <2> QED
    BY <1>24, <2>1, <2>2, <2>3, <2>4 DEF LogoutLost, Released
<1>25. CASE SessionEnds
  BY <1>25 DEF SessionEnds
<1>26. ASSUME NEW c \in Clients, LogsIn(c) PROVE ScanTypeOK'
  BY <1>26 DEF LogsIn
<1>27. ASSUME NEW c \in Clients, LogsOut(c) PROVE ScanTypeOK'
  BY <1>27 DEF LogsOut
<1>28. CASE UNCHANGED scanVars
  BY <1>28 DEF scanVars
<1> QED
  BY <1>1, <1>2, <1>3, <1>4, <1>5, <1>6, <1>7, <1>8, <1>9, <1>10, <1>11, <1>12, <1>13, <1>14, <1>15, <1>16, <1>17, <1>18, <1>19, <1>20, <1>21, <1>22, <1>23, <1>24, <1>25, <1>26, <1>27, <1>28
     DEF ScanNext, Worker, Browser, Session

\* The polls are counted down to the last one.
LEMMA StepPolls == ScanInv /\ [ScanNext]_scanVars => PollsLeft'
<1> SUFFICES ASSUME ScanInv, [ScanNext]_scanVars PROVE PollsLeft'
  OBVIOUS
<1> USE DEF ScanInv, ScanTypeOK, browser, login, PollsLeft
<1>1. ASSUME NEW c \in Clients, NEW s \in Scans, Start(c, s) PROVE PollsLeft'
  BY <1>1, ScanAssumption DEF ScanAssumption, Start, Register, Goto
<1>2. ASSUME NEW c \in Clients, NEW s \in Scans, StartAnswerLost(c, s) PROVE PollsLeft'
  BY <1>2 DEF StartAnswerLost, Register, Goto
<1>3. ASSUME NEW c \in Clients, StartRefused(c) PROVE PollsLeft'
  BY <1>3 DEF StartRefused, Hangs
<1>4. ASSUME NEW c \in Clients, Poll(c) PROVE PollsLeft'
  BY <1>4 DEF Poll, Ticked, Kept
<1>5. ASSUME NEW c \in Clients, PollFails(c) PROVE PollsLeft'
  BY <1>5 DEF PollFails, Ticked
<1>6. ASSUME NEW c \in Clients, PollRefused(c) PROVE PollsLeft'
  BY <1>6 DEF PollRefused, Hangs, Ticked
<1>7. ASSUME NEW c \in Clients, Receive(c) PROVE PollsLeft'
  BY <1>7 DEF Receive, NextStep
<1>8. ASSUME NEW c \in Clients, Refreshed(c) PROVE PollsLeft'
  BY <1>8 DEF Refreshed, Ends
<1>9. ASSUME NEW c \in Clients, RefreshRefused(c) PROVE PollsLeft'
  BY <1>9 DEF RefreshRefused, Hangs
<1>10. ASSUME NEW c \in Clients, LogoutSettles(c) PROVE PollsLeft'
  BY <1>10 DEF LogoutSettles, Released, Ends
<1>11. ASSUME NEW c \in Clients, LogoutLost(c) PROVE PollsLeft'
  BY <1>11 DEF LogoutLost, Released, Ends
<1>12. CASE SessionEnds
  BY <1>12 DEF SessionEnds
<1>13. ASSUME NEW c \in Clients, LogsIn(c) PROVE PollsLeft'
  BY <1>13 DEF LogsIn
<1>14. ASSUME NEW c \in Clients, LogsOut(c) PROVE PollsLeft'
  BY <1>14 DEF LogsOut
<1>15. CASE ServerStep
  BY <1>15, ServerFrame
<1>16. CASE UNCHANGED scanVars
  BY <1>16 DEF scanVars, login
<1> QED
  BY <1>1, <1>2, <1>3, <1>4, <1>5, <1>6, <1>7, <1>8, <1>9, <1>10, <1>11, <1>12, <1>13, <1>14, <1>15, <1>16
     DEF ScanNext, Worker, Browser, Session, ServerStep

\* No sweep finds a finished_at at a scan that is queued or at work.
LEMMA StepKnown == ScanInv /\ [ScanNext]_scanVars => RunningScansStayKnown'
<1> SUFFICES ASSUME ScanInv, [ScanNext]_scanVars PROVE RunningScansStayKnown'
  OBVIOUS
<1> USE DEF ScanInv, ScanTypeOK, state, run, RunningScansStayKnown, FinishedHasEnded, Running
<1>1. ASSUME NEW s \in Scans, Begin(s) PROVE RunningScansStayKnown'
  BY <1>1 DEF Begin, Goto, SetStatus
<1>2. ASSUME NEW s \in Scans, Probed(s) PROVE RunningScansStayKnown'
  BY <1>2 DEF Probed, Goto, SetStatus
<1>3. ASSUME NEW s \in Scans, ProbeFails(s) PROVE RunningScansStayKnown'
  BY <1>3 DEF ProbeFails, Goto, SetStatus
<1>4. ASSUME NEW s \in Scans, StartSaving(s) PROVE RunningScansStayKnown'
  BY <1>4 DEF StartSaving, Goto, SetStatus
<1>5. ASSUME NEW s \in Scans, NEW h \in Hosts, SaveItem(s, h) PROVE RunningScansStayKnown'
  BY <1>5 DEF SaveItem
<1>6. ASSUME NEW s \in Scans, NEW h \in Hosts, SaveItemUnflushed(s, h) PROVE RunningScansStayKnown'
  BY <1>6 DEF SaveItemUnflushed
<1>7. ASSUME NEW s \in Scans, NEW h \in Hosts, SaveItemFails(s, h) PROVE RunningScansStayKnown'
  BY <1>7 DEF SaveItemFails
<1>8. ASSUME NEW s \in Scans, SaveAborts(s) PROVE RunningScansStayKnown'
  BY <1>8 DEF SaveAborts, Goto, SetStatus
<1>9. ASSUME NEW s \in Scans, Publish(s) PROVE RunningScansStayKnown'
  BY <1>9 DEF Publish, Goto, SetStatus
<1>10. ASSUME NEW s \in Scans, Close(s) PROVE RunningScansStayKnown'
  BY <1>10 DEF Close, Goto
<1>11. ASSUME NEW s \in Scans, Age(s) PROVE RunningScansStayKnown'
  BY <1>11 DEF Age
<1>12. CASE Cleanup
  BY <1>12 DEF Cleanup, Kept
<1>13. CASE Restart
  BY <1>13 DEF Restart, Pending, Nothing, Never
<1>14. ASSUME NEW c \in Clients, NEW s \in Scans, Start(c, s) PROVE RunningScansStayKnown'
  BY <1>14 DEF Start, Register, Goto
<1>15. ASSUME NEW c \in Clients, NEW s \in Scans, StartAnswerLost(c, s) PROVE RunningScansStayKnown'
  BY <1>15 DEF StartAnswerLost, Register, Goto
<1>16. CASE BrowserStep
  BY <1>16, BrowserFrame DEF Kept
<1>17. CASE UNCHANGED scanVars
  BY <1>17 DEF scanVars, login
<1> QED
  BY <1>1, <1>2, <1>3, <1>4, <1>5, <1>6, <1>7, <1>8, <1>9, <1>10, <1>11, <1>12, <1>13, <1>14, <1>15, <1>16, <1>17
     DEF ScanNext, Worker, Browser, Session, BrowserStep

LEMMA StepFinished == ScanInv /\ [ScanNext]_scanVars => FinishedHasEnded'
<1> SUFFICES ASSUME ScanInv, [ScanNext]_scanVars PROVE FinishedHasEnded'
  OBVIOUS
<1> USE DEF ScanInv, ScanTypeOK, state, run, FinishedHasEnded
<1>1. ASSUME NEW s \in Scans, Begin(s) PROVE FinishedHasEnded'
  BY <1>1 DEF Begin, Goto, SetStatus
<1>2. ASSUME NEW s \in Scans, Probed(s) PROVE FinishedHasEnded'
  BY <1>2 DEF Probed, Goto, SetStatus
<1>3. ASSUME NEW s \in Scans, ProbeFails(s) PROVE FinishedHasEnded'
  BY <1>3 DEF ProbeFails, Goto, SetStatus
<1>4. ASSUME NEW s \in Scans, StartSaving(s) PROVE FinishedHasEnded'
  BY <1>4 DEF StartSaving, Goto, SetStatus
<1>5. ASSUME NEW s \in Scans, NEW h \in Hosts, SaveItem(s, h) PROVE FinishedHasEnded'
  BY <1>5 DEF SaveItem
<1>6. ASSUME NEW s \in Scans, NEW h \in Hosts, SaveItemUnflushed(s, h) PROVE FinishedHasEnded'
  BY <1>6 DEF SaveItemUnflushed
<1>7. ASSUME NEW s \in Scans, NEW h \in Hosts, SaveItemFails(s, h) PROVE FinishedHasEnded'
  BY <1>7 DEF SaveItemFails
<1>8. ASSUME NEW s \in Scans, SaveAborts(s) PROVE FinishedHasEnded'
  BY <1>8 DEF SaveAborts, Goto, SetStatus
<1>9. ASSUME NEW s \in Scans, Publish(s) PROVE FinishedHasEnded'
  BY <1>9 DEF Publish, Goto, SetStatus
<1>10. ASSUME NEW s \in Scans, Close(s) PROVE FinishedHasEnded'
  BY <1>10 DEF Close, Goto
<1>11. ASSUME NEW s \in Scans, Age(s) PROVE FinishedHasEnded'
  BY <1>11 DEF Age
<1>12. CASE Cleanup
  BY <1>12 DEF Cleanup, Kept
<1>13. CASE Restart
  BY <1>13 DEF Restart, Pending, Nothing, Never
<1>14. ASSUME NEW c \in Clients, NEW s \in Scans, Start(c, s) PROVE FinishedHasEnded'
  BY <1>14 DEF Start, Register, Goto
<1>15. ASSUME NEW c \in Clients, NEW s \in Scans, StartAnswerLost(c, s) PROVE FinishedHasEnded'
  BY <1>15 DEF StartAnswerLost, Register, Goto
<1>16. CASE BrowserStep
  BY <1>16, BrowserFrame DEF Kept
<1>17. CASE UNCHANGED scanVars
  BY <1>17 DEF scanVars, login
<1> QED
  BY <1>1, <1>2, <1>3, <1>4, <1>5, <1>6, <1>7, <1>8, <1>9, <1>10, <1>11, <1>12, <1>13, <1>14, <1>15, <1>16, <1>17
     DEF ScanNext, Worker, Browser, Session, BrowserStep

LEMMA StepStatus == ScanInv /\ [ScanNext]_scanVars => StatusFollows'
<1> SUFFICES ASSUME ScanInv, [ScanNext]_scanVars PROVE StatusFollows'
  OBVIOUS
<1> USE DEF ScanInv, ScanTypeOK, state, run, StatusFollows
<1>1. ASSUME NEW s \in Scans, Begin(s) PROVE StatusFollows'
  BY <1>1 DEF Begin, Goto, SetStatus
<1>2. ASSUME NEW s \in Scans, Probed(s) PROVE StatusFollows'
  BY <1>2 DEF Probed, Goto, SetStatus
<1>3. ASSUME NEW s \in Scans, ProbeFails(s) PROVE StatusFollows'
  BY <1>3 DEF ProbeFails, Goto, SetStatus
<1>4. ASSUME NEW s \in Scans, StartSaving(s) PROVE StatusFollows'
  BY <1>4 DEF StartSaving, Goto, SetStatus
<1>5. ASSUME NEW s \in Scans, NEW h \in Hosts, SaveItem(s, h) PROVE StatusFollows'
  BY <1>5 DEF SaveItem
<1>6. ASSUME NEW s \in Scans, NEW h \in Hosts, SaveItemUnflushed(s, h) PROVE StatusFollows'
  BY <1>6 DEF SaveItemUnflushed
<1>7. ASSUME NEW s \in Scans, NEW h \in Hosts, SaveItemFails(s, h) PROVE StatusFollows'
  BY <1>7 DEF SaveItemFails
<1>8. ASSUME NEW s \in Scans, SaveAborts(s) PROVE StatusFollows'
  BY <1>8 DEF SaveAborts, Goto, SetStatus
<1>9. ASSUME NEW s \in Scans, Publish(s) PROVE StatusFollows'
  BY <1>9 DEF Publish, Goto, SetStatus
<1>10. ASSUME NEW s \in Scans, Close(s) PROVE StatusFollows'
  BY <1>10 DEF Close, Goto
<1>11. ASSUME NEW s \in Scans, Age(s) PROVE StatusFollows'
  BY <1>11 DEF Age
<1>12. CASE Cleanup
  BY <1>12 DEF Cleanup, Kept
<1>13. CASE Restart
  BY <1>13 DEF Restart, Pending, Nothing, Never
<1>14. ASSUME NEW c \in Clients, NEW s \in Scans, Start(c, s) PROVE StatusFollows'
  BY <1>14 DEF Start, Register, Goto
<1>15. ASSUME NEW c \in Clients, NEW s \in Scans, StartAnswerLost(c, s) PROVE StatusFollows'
  BY <1>15 DEF StartAnswerLost, Register, Goto
<1>16. CASE BrowserStep
  BY <1>16, BrowserFrame DEF Kept
<1>17. CASE UNCHANGED scanVars
  BY <1>17 DEF scanVars, login
<1> QED
  BY <1>1, <1>2, <1>3, <1>4, <1>5, <1>6, <1>7, <1>8, <1>9, <1>10, <1>11, <1>12, <1>13, <1>14, <1>15, <1>16, <1>17
     DEF ScanNext, Worker, Browser, Session, BrowserStep

\* An item leaves the worker's list saved or counted as failed.
LEMMA StepSaved == ScanInv /\ [ScanNext]_scanVars => NothingDropped'
<1> SUFFICES ASSUME ScanInv, [ScanNext]_scanVars PROVE NothingDropped'
  OBVIOUS
<1> USE DEF ScanInv, ScanTypeOK, state, run, StatusFollows, NothingDropped
<1>1. ASSUME NEW s \in Scans, Begin(s) PROVE NothingDropped'
  BY <1>1 DEF Begin, Goto, SetStatus
<1>2. ASSUME NEW s \in Scans, Probed(s) PROVE NothingDropped'
  BY <1>2 DEF Probed, Goto, SetStatus
<1>3. ASSUME NEW s \in Scans, ProbeFails(s) PROVE NothingDropped'
  BY <1>3 DEF ProbeFails, Goto, SetStatus
<1>4. ASSUME NEW s \in Scans, StartSaving(s) PROVE NothingDropped'
  BY <1>4 DEF StartSaving, Goto, SetStatus
<1>5. ASSUME NEW s \in Scans, NEW h \in Hosts, SaveItem(s, h) PROVE NothingDropped'
  BY <1>5 DEF SaveItem
<1>6. ASSUME NEW s \in Scans, NEW h \in Hosts, SaveItemUnflushed(s, h) PROVE NothingDropped'
  BY <1>6 DEF SaveItemUnflushed
<1>7. ASSUME NEW s \in Scans, NEW h \in Hosts, SaveItemFails(s, h) PROVE NothingDropped'
  BY <1>7 DEF SaveItemFails
<1>8. ASSUME NEW s \in Scans, SaveAborts(s) PROVE NothingDropped'
  BY <1>8 DEF SaveAborts, Goto, SetStatus
<1>9. ASSUME NEW s \in Scans, Publish(s) PROVE NothingDropped'
  BY <1>9 DEF Publish, Goto, SetStatus
<1>10. ASSUME NEW s \in Scans, Close(s) PROVE NothingDropped'
  BY <1>10 DEF Close, Goto
<1>11. ASSUME NEW s \in Scans, Age(s) PROVE NothingDropped'
  BY <1>11 DEF Age
<1>12. CASE Cleanup
  BY <1>12 DEF Cleanup, Kept
<1>13. CASE Restart
  BY <1>13 DEF Restart, Pending, Nothing, Never
<1>14. ASSUME NEW c \in Clients, NEW s \in Scans, Start(c, s) PROVE NothingDropped'
  BY <1>14 DEF Start, Register, Goto
<1>15. ASSUME NEW c \in Clients, NEW s \in Scans, StartAnswerLost(c, s) PROVE NothingDropped'
  BY <1>15 DEF StartAnswerLost, Register, Goto
<1>16. CASE BrowserStep
  BY <1>16, BrowserFrame DEF Kept
<1>17. CASE UNCHANGED scanVars
  BY <1>17 DEF scanVars, login
<1> QED
  BY <1>1, <1>2, <1>3, <1>4, <1>5, <1>6, <1>7, <1>8, <1>9, <1>10, <1>11, <1>12, <1>13, <1>14, <1>15, <1>16, <1>17
     DEF ScanNext, Worker, Browser, Session, BrowserStep

\* Nothing revives a scan that is over, and it writes no row any more.
LEMMA OverStays ==
  ASSUME ScanInv, [ScanNext]_scanVars, NEW s \in Scans, Over(s)
  PROVE  Over(s)' /\ (worker'[s] = "lost" \/ written'[s] = written[s])
<1> DEFINE Stays == Over(s)' /\ (worker'[s] = "lost" \/ written'[s] = written[s])
<1> USE DEF ScanInv, ScanTypeOK, Over, state, run
<1>1. ASSUME NEW r \in Scans, Begin(r) PROVE Stays
  BY <1>1 DEF Begin, Goto, SetStatus
<1>2. ASSUME NEW r \in Scans, Probed(r) PROVE Stays
  BY <1>2 DEF Probed, Goto, SetStatus
<1>3. ASSUME NEW r \in Scans, ProbeFails(r) PROVE Stays
  BY <1>3 DEF ProbeFails, Goto, SetStatus
<1>4. ASSUME NEW r \in Scans, StartSaving(r) PROVE Stays
  BY <1>4 DEF StartSaving, Goto, SetStatus
<1>5. ASSUME NEW r \in Scans, NEW h \in Hosts, SaveItem(r, h) PROVE Stays
  BY <1>5 DEF SaveItem
<1>6. ASSUME NEW r \in Scans, NEW h \in Hosts, SaveItemUnflushed(r, h) PROVE Stays
  BY <1>6 DEF SaveItemUnflushed
<1>7. ASSUME NEW r \in Scans, NEW h \in Hosts, SaveItemFails(r, h) PROVE Stays
  BY <1>7 DEF SaveItemFails
<1>8. ASSUME NEW r \in Scans, SaveAborts(r) PROVE Stays
  BY <1>8 DEF SaveAborts, Goto, SetStatus
<1>9. ASSUME NEW r \in Scans, Publish(r) PROVE Stays
  BY <1>9 DEF Publish, Goto, SetStatus
<1>10. ASSUME NEW r \in Scans, Close(r) PROVE Stays
  BY <1>10 DEF Close, Goto
<1>11. ASSUME NEW r \in Scans, Age(r) PROVE Stays
  BY <1>11 DEF Age
<1>12. CASE Cleanup
  BY <1>12 DEF Cleanup, Kept
<1>13. CASE Restart
  BY <1>13 DEF Restart, Pending, Nothing, Never
<1>14. ASSUME NEW d \in Clients, NEW r \in Scans, Start(d, r) PROVE Stays
  BY <1>14 DEF Start, Register, Goto
<1>15. ASSUME NEW d \in Clients, NEW r \in Scans, StartAnswerLost(d, r) PROVE Stays
  BY <1>15 DEF StartAnswerLost, Register, Goto
<1>16. CASE BrowserStep
  BY <1>16, BrowserFrame
<1>17. CASE UNCHANGED scanVars
  BY <1>17 DEF scanVars
<1> QED
  BY <1>1, <1>2, <1>3, <1>4, <1>5, <1>6, <1>7, <1>8, <1>9, <1>10, <1>11, <1>12, <1>13, <1>14, <1>15, <1>16, <1>17
     DEF ScanNext, Worker, Browser, Session, BrowserStep

\* Nothing follows "error" but the end of the worker, or of the process.
LEMMA StepError == ScanInv /\ [ScanNext]_scanVars => ErrorIsLast'
<1> SUFFICES ASSUME ScanInv, [ScanNext]_scanVars PROVE ErrorIsLast'
  OBVIOUS
<1>0. \A s \in Scans : Over(s) => Over(s)'
  BY OverStays
<1> USE <1>0 DEF ScanInv, ErrorIsLast
<1>1. ASSUME NEW c \in Clients, NEW s \in Scans, Start(c, s) PROVE ErrorIsLast'
  BY <1>1 DEF Start, Register, Goto, ScanTypeOK, browser
<1>2. ASSUME NEW c \in Clients, NEW s \in Scans, StartAnswerLost(c, s) PROVE ErrorIsLast'
  BY <1>2 DEF StartAnswerLost, Register, Goto, ScanTypeOK, browser
<1>3. ASSUME NEW c \in Clients, StartRefused(c) PROVE ErrorIsLast'
  BY <1>3 DEF StartRefused, Hangs, ScanTypeOK, browser
<1>4. ASSUME NEW c \in Clients, Poll(c) PROVE ErrorIsLast'
  <2>1. UNCHANGED <<status, worker>>
    BY <1>4 DEF Poll, state, run
  <2>2. reply'[c] = "error" => scanId[c] \in Scans /\ status[scanId[c]] = "error"
    BY <1>4 DEF Poll, ScanTypeOK, Kept
  <2>3. \A d \in Clients \ {c} : reply'[d] = reply[d]
    BY <1>4 DEF Poll, ScanTypeOK
  <2>4. scanId' = scanId
    BY <1>4 DEF Poll
  <2> QED
    BY <2>1, <2>2, <2>3, <2>4 DEF StatusFollows, Over
<1>5. ASSUME NEW c \in Clients, PollFails(c) PROVE ErrorIsLast'
  BY <1>5 DEF PollFails, Ticked, ScanTypeOK, browser
<1>6. ASSUME NEW c \in Clients, PollRefused(c) PROVE ErrorIsLast'
  BY <1>6 DEF PollRefused, Hangs, Ticked, ScanTypeOK, browser
<1>7. ASSUME NEW c \in Clients, Receive(c) PROVE ErrorIsLast'
  BY <1>7 DEF Receive, NextStep, ScanTypeOK, browser
<1>8. ASSUME NEW c \in Clients, Refreshed(c) PROVE ErrorIsLast'
  BY <1>8 DEF Refreshed, Ends, ScanTypeOK, browser
<1>9. ASSUME NEW c \in Clients, RefreshRefused(c) PROVE ErrorIsLast'
  BY <1>9 DEF RefreshRefused, Hangs, ScanTypeOK, browser
<1>10. ASSUME NEW c \in Clients, LogoutSettles(c) PROVE ErrorIsLast'
  BY <1>10 DEF LogoutSettles, Released, Ends, ScanTypeOK, browser
<1>11. ASSUME NEW c \in Clients, LogoutLost(c) PROVE ErrorIsLast'
  BY <1>11 DEF LogoutLost, Released, Ends, ScanTypeOK, browser
<1>12. CASE SessionEnds
  BY <1>12 DEF SessionEnds, ScanTypeOK, browser
<1>13. ASSUME NEW c \in Clients, LogsIn(c) PROVE ErrorIsLast'
  BY <1>13 DEF LogsIn, ScanTypeOK, browser
<1>14. ASSUME NEW c \in Clients, LogsOut(c) PROVE ErrorIsLast'
  BY <1>14 DEF LogsOut, ScanTypeOK, browser
<1>15. CASE ServerStep
  BY <1>15, ServerFrame DEF browser
<1>16. CASE UNCHANGED scanVars
  BY <1>16 DEF scanVars, browser
<1> QED
  BY <1>1, <1>2, <1>3, <1>4, <1>5, <1>6, <1>7, <1>8, <1>9, <1>10, <1>11, <1>12, <1>13, <1>14, <1>15, <1>16
     DEF ScanNext, Worker, Browser, Session, ServerStep

LEMMA ScanInvHolds == ScanSpec => []ScanInv
<1>1. ScanInit => ScanInv
  <2> SUFFICES ASSUME ScanInit PROVE ScanInv
    OBVIOUS
  <2> USE DEF ScanInit, Nothing, Never, Pending
  <2>1. finished \in [Scans -> BOOLEAN] /\ aged \in [Scans -> BOOLEAN] /\ authed \in [Clients -> BOOLEAN]
    BY Zenon
  <2>2. ScanTypeOK
    <3>1. status \in [Scans -> Statuses] /\ worker \in [Scans -> Running \cup {"none", "ended", "lost"}]
      BY DEF Statuses
    <3>2. \A f \in {results, todo, written, unflushed, failed} : f \in [Scans -> SUBSET Hosts]
      OBVIOUS
    <3>3. client \in [Clients -> Hung \cup {"idle", "sleeping", "answered", "refreshing"}]
      OBVIOUS
    <3>4. ticks \in [Clients -> 0..MaxTicks] /\ restarts \in 0..MaxRestarts
      BY ScanAssumption DEF ScanAssumption
    <3>5. scanId \in [Clients -> Scans \cup {NoScan}] /\ reply \in [Clients -> Statuses \cup {"none", "failed"}]
      OBVIOUS
    <3> QED
      BY <2>1, <3>1, <3>2, <3>3, <3>4, <3>5 DEF ScanTypeOK
  <2> QED
    BY <2>2 DEF ScanInv, PollsLeft, RunningScansStayKnown, FinishedHasEnded, StatusFollows, NothingDropped,
                ErrorIsLast, Running
<1>2. ScanInv /\ [ScanNext]_scanVars => ScanInv'
  BY StepScanTypes, StepPolls, StepKnown, StepFinished, StepStatus, StepSaved, StepError DEF ScanInv
<1> QED
  BY <1>1, <1>2, PTL DEF ScanSpec

\* The types of the scans, the workers and the browsers' polling loops, for any
\* number of each.
THEOREM ScanTypeCorrect == ScanSpec => []ScanTypeOK
<1>1. ScanInv => ScanTypeOK
  BY DEF ScanInv
<1> QED
  BY <1>1, ScanInvHolds, PTL

\* scan.py:130-141: whenever the cleanup loop runs and however many browsers poll,
\* no sweep drops a scan that is queued or at work.
THEOREM RunningScansAreKept == ScanSpec => []RunningScansStayKnown
<1>1. ScanInv => RunningScansStayKnown
  BY DEF ScanInv
<1> QED
  BY <1>1, ScanInvHolds, PTL

\* Only Publish ends the saving as "done".
LEMMA OnlyPublishSaysDone ==
  ASSUME ScanInv, [ScanNext]_scanVars, NEW s \in Scans, status[s] = "saving", status'[s] = "done"
  PROVE  Publish(s)
<1>0. worker[s] = "saving"
  BY DEF ScanInv, StatusFollows
<1> USE <1>0 DEF ScanInv, ScanTypeOK, state, run
<1>1. ASSUME NEW r \in Scans, Begin(r) PROVE Publish(s)
  BY <1>1 DEF Begin, Goto, SetStatus
<1>2. ASSUME NEW r \in Scans, Probed(r) PROVE Publish(s)
  BY <1>2 DEF Probed, Goto, SetStatus
<1>3. ASSUME NEW r \in Scans, ProbeFails(r) PROVE Publish(s)
  BY <1>3 DEF ProbeFails, Goto, SetStatus
<1>4. ASSUME NEW r \in Scans, StartSaving(r) PROVE Publish(s)
  BY <1>4 DEF StartSaving, Goto, SetStatus
<1>5. ASSUME NEW r \in Scans, NEW h \in Hosts, SaveItem(r, h) PROVE Publish(s)
  BY <1>5 DEF SaveItem
<1>6. ASSUME NEW r \in Scans, NEW h \in Hosts, SaveItemUnflushed(r, h) PROVE Publish(s)
  BY <1>6 DEF SaveItemUnflushed
<1>7. ASSUME NEW r \in Scans, NEW h \in Hosts, SaveItemFails(r, h) PROVE Publish(s)
  BY <1>7 DEF SaveItemFails
<1>8. ASSUME NEW r \in Scans, SaveAborts(r) PROVE Publish(s)
  BY <1>8 DEF SaveAborts, Goto, SetStatus
<1>9. ASSUME NEW r \in Scans, Publish(r) PROVE Publish(s)
  BY <1>9 DEF Publish, Goto, SetStatus
<1>10. ASSUME NEW r \in Scans, Close(r) PROVE Publish(s)
  BY <1>10 DEF Close, Goto
<1>11. ASSUME NEW r \in Scans, Age(r) PROVE Publish(s)
  BY <1>11 DEF Age
<1>12. CASE Cleanup
  BY <1>12 DEF Cleanup, Kept
<1>13. CASE Restart
  BY <1>13 DEF Restart, Pending, Nothing, Never
<1>14. ASSUME NEW d \in Clients, NEW r \in Scans, Start(d, r) PROVE Publish(s)
  BY <1>14 DEF Start, Register, Goto
<1>15. ASSUME NEW d \in Clients, NEW r \in Scans, StartAnswerLost(d, r) PROVE Publish(s)
  BY <1>15 DEF StartAnswerLost, Register, Goto
<1>16. CASE BrowserStep
  BY <1>16, BrowserFrame
<1>17. CASE UNCHANGED scanVars
  BY <1>17 DEF scanVars
<1> QED
  BY <1>1, <1>2, <1>3, <1>4, <1>5, <1>6, <1>7, <1>8, <1>9, <1>10, <1>11, <1>12, <1>13, <1>14, <1>15, <1>16, <1>17
     DEF ScanNext, Worker, Browser, Session, BrowserStep

\* _run_scan_bg: a scan that ends as "done" has written everything its probes had
\* found, but for what a failed flush let pass as saved, whatever other scans,
\* sweeps, restarts and refused calls came between.
THEOREM DoneDropsNothing == ScanSpec => NothingFoundIsDropped
<1>1. ScanInv /\ [ScanNext]_scanVars =>
        [\A s \in Scans : status[s] = "saving" /\ status'[s] = "done" =>
            results[s] \subseteq written'[s] \cup unflushed'[s]]_scanVars
  <2> SUFFICES ASSUME ScanInv, [ScanNext]_scanVars, NEW s \in Scans, status[s] = "saving", status'[s] = "done"
               PROVE  results[s] \subseteq written'[s] \cup unflushed'[s]
    OBVIOUS
  <2>1. Publish(s)
    BY OnlyPublishSaysDone
  <2>2. worker[s] = "saving" /\ todo[s] = {} /\ UNCHANGED <<written, unflushed>>
    BY <2>1 DEF Publish
  <2>3. failed[s] = {}
    <3>1. status'[s] = IF failed[s] # {} THEN "error" ELSE "done"
      BY <2>1 DEF Publish, SetStatus, ScanInv, ScanTypeOK
    <3> QED
      BY <3>1
  <2> QED
    BY <2>2, <2>3 DEF ScanInv, NothingDropped
<1> QED
  BY <1>1, ScanInvHolds, PTL DEF ScanSpec, NothingFoundIsDropped

\* The polling loop of scan.js stops at "error".  As long as the process lives, that
\* is the scan's last word and it writes nothing after it.
THEOREM ErrorIsFinal == ScanSpec => NothingFollowsError
<1>1. ScanInv /\ [ScanNext]_scanVars =>
        [\A c \in Clients : reply[c] = "error" =>
            \/ worker'[scanId[c]] = "lost"
            \/ /\ status'[scanId[c]] = "error"
               /\ written'[scanId[c]] = written[scanId[c]]]_scanVars
  <2> SUFFICES ASSUME ScanInv, [ScanNext]_scanVars, NEW c \in Clients, reply[c] = "error"
               PROVE  \/ worker'[scanId[c]] = "lost"
                      \/ /\ status'[scanId[c]] = "error"
                         /\ written'[scanId[c]] = written[scanId[c]]
    OBVIOUS
  <2>1. scanId[c] \in Scans /\ Over(scanId[c])
    BY DEF ScanInv, ErrorIsLast
  <2>2. \A r \in Scans : Over(r) =>
            worker'[r] = "lost" \/ (status'[r] = "error" /\ written'[r] = written[r])
    BY OverStays DEF Over
  <2> QED
    BY <2>1, <2>2
<1> QED
  BY <1>1, ScanInvHolds, PTL DEF ScanSpec, NothingFollowsError
=============================================================================
