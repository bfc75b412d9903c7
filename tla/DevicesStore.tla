----------------------------- MODULE DevicesStore -----------------------------
(***************************************************************************)
(* The device list of one browser tab (frontend/src/stores/devices.js) over *)
(* the list, alias, group and delete routes of backend/routes/devices.py.  *)
(* refresh() is called by every change of page or group, 250 ms after the  *)
(* last change of the search text, after every write of the page and by the *)
(* operator; nothing cancels an earlier one or tells its answer from the   *)
(* latest, so several are under way and their answers arrive in any order. *)
(* Other operators delete, rename and regroup rows and scans add and change *)
(* them meanwhile.                                                         *)
(*                                                                         *)
(* The number list, the group list and the counters ride in the same       *)
(* refresh and are left out.  The page writes one thing at a time.         *)
(***************************************************************************)
EXTENDS Integers, FiniteSets

CONSTANTS
    Boards,     \* devices
    Groups,     \* groups a device can be in
    All,        \* the filter "all"
    Texts,      \* texts the operator searches for
    NoText,     \* the empty search text
    PageSize,   \* devicesPageSize
    MaxId,      \* bound: largest row id
    MaxAsks,    \* bound: refreshes started
    MaxPending, \* bound: refreshes under way at once
    MaxChanges  \* bound: changes of the table

ASSUME StoreAssumption ==
    /\ All \notin Groups /\ NoText \notin Texts
    /\ PageSize \in Nat \ {0} /\ MaxId \in Nat \ {0}
    /\ MaxAsks \in Nat /\ MaxPending \in Nat /\ MaxChanges \in Nat
    /\ IsFiniteSet(Boards) /\ Cardinality(Boards) <= MaxId + 1

Ids == 1..MaxId
Item == [id : Ids, board : Boards]

\* words: the texts that a column of the row contains.
Row == [board : Boards, grp : Groups, words : SUBSET Texts]

Filters == (Groups \cup {All}) \X (Texts \cup {NoText})

Matches(row, f) == f[1] \in {All, row.grp} /\ f[2] \in {NoText} \cup row.words

VARIABLES
    rows,        \* the devices table: id -> Row
    devices,     \* the rows the page shows: [id, board]
    devicesPage, devicesPages,
    filter,      \* groupFilter and searchText
    typing,      \* the timer of _searchDebounce runs
    selectedIds, \* each with the board the list showed when it was ticked
    asks,        \* refreshes under way
    write,       \* the write of the page under way
    asked,       \* refreshes started so far
    changes,     \* changes of the table so far
    \* history
    shownFor,    \* page and filter the shown list was asked for
    inOrder,     \* answers have come in the order of their refreshes, none failed
    alone,       \* no refresh has started while another was under way
    left         \* a row has left a filter: deleted, regrouped or changed

controls == <<devicesPage, devicesPages, filter, typing>>
shown == <<devices, shownFor, inOrder>>
started == <<asked, alone>>
refreshes == <<asks, started>>
table == <<rows, left, changes>>
storeVars == <<table, shown, controls, selectedIds, refreshes, write>>

NoWrite == [kind |-> "none", ids |-> {}, stage |-> "none"]

\* One board has no row yet; SQLite numbers the rows of the others 1, 2, 3 ...
Tables ==
    LET n == Cardinality(Boards) - 1 IN
    {tbl \in [1..n -> Row] :
        \A r, q \in 1..n : tbl[r].board = tbl[q].board => r = q}

StoreInit ==
    /\ rows \in Tables
    /\ devices = {} /\ devicesPage = 1 /\ devicesPages = 0
    /\ filter = <<All, NoText>> /\ typing = FALSE
    /\ selectedIds = {}
    /\ asks = {} /\ asked = 0
    /\ write = NoWrite
    /\ shownFor = <<1, filter>>
    /\ inOrder = TRUE /\ alone = TRUE
    /\ left = FALSE /\ changes = 0

-----------------------------------------------------------------------------
\* The server: newest row first, PageSize rows a page.

Matching(f) == {r \in DOMAIN rows : Matches(rows[r], f)}

PagesOf(f) == (Cardinality(Matching(f)) + PageSize - 1) \div PageSize

\* Mutant: offset without limit.
PageOfUnlimited(p, f) ==
    {[id |-> r, board |-> rows[r].board] : r \in
        {r \in Matching(f) :
            (Cardinality({q \in Matching(f) : q > r}) \div PageSize) + 1 >= p}}

PageOf(p, f) ==
    {[id |-> r, board |-> rows[r].board] : r \in
        {r \in Matching(f) :
            (Cardinality({q \in Matching(f) : q > r}) \div PageSize) + 1 = p}}

\* apidevices counts the rows first ...
Count(a) ==
    /\ a.stage = "sent"
    /\ asks' = (asks \ {a}) \cup {[a EXCEPT !.stage = "counted", !.pages = PagesOf(a.filter)]}
    /\ UNCHANGED <<table, shown, controls, selectedIds, started, write>>

\* ... and reads the page in a query of its own: any page number is accepted.
Fetch(a) ==
    /\ a.stage = "counted"
    /\ asks' = (asks \ {a}) \cup
                   {[a EXCEPT !.stage = "answered", !.items = PageOf(a.page, a.filter)]}
    /\ UNCHANGED <<table, shown, controls, selectedIds, started, write>>

Change == changes < MaxChanges /\ changes' = changes + 1

\* api_batch_delete and deletedevice.
Delete ==
    /\ write.kind \in {"delete", "batch"} /\ write.stage = "sent"
    /\ Change
    /\ rows' = [r \in DOMAIN rows \ write.ids |-> rows[r]]
    /\ left' = TRUE
    /\ write' = [write EXCEPT !.stage = "answered"]
    /\ UNCHANGED <<shown, controls, selectedIds, refreshes>>

\* A row of the same board gets another group, or other columns.
Rewrite(r, row) ==
    /\ r \in DOMAIN rows /\ row.board = rows[r].board
    /\ row.grp = rows[r].grp \/ row.words = rows[r].words
    /\ Change
    /\ rows' = [rows EXCEPT ![r] = row]
    /\ left' = (left \/ row.grp # rows[r].grp \/ ~(rows[r].words \subseteq row.words))

\* api_set_alias and api_set_group; a row that is gone is a 404, see WriteFails.
Edit(r, row) ==
    /\ write.kind = "edit" /\ write.stage = "sent" /\ r \in write.ids
    /\ Rewrite(r, row)
    /\ write' = [write EXCEPT !.stage = "answered"]
    /\ UNCHANGED <<shown, controls, selectedIds, refreshes>>

\* Another operator deletes a row ...
OtherDeletes(r) ==
    /\ r \in DOMAIN rows
    /\ Change
    /\ rows' = [q \in DOMAIN rows \ {r} |-> rows[q]]
    /\ left' = TRUE
    /\ UNCHANGED <<shown, controls, selectedIds, refreshes, write>>

\* ... or edits it, or a scan finds its board again with other numbers.
OtherEdits(r, row) ==
    /\ Rewrite(r, row)
    /\ UNCHANGED <<shown, controls, selectedIds, refreshes, write>>

\* A scan adds a board that has no row: its id is the largest in use plus one.
ScanAdds(r, row) ==
    /\ \A q \in DOMAIN rows : q < r /\ rows[q].board # row.board
    /\ r = 1 \/ r - 1 \in DOMAIN rows
    /\ Change
    /\ rows' = [q \in DOMAIN rows \cup {r} |-> IF q = r THEN row ELSE rows[q]]
    /\ UNCHANGED <<left, shown, controls, selectedIds, refreshes, write>>

-----------------------------------------------------------------------------
\* The store.

\* refresh() with the page and the filter of that moment.
Ask(p, f) ==
    /\ asked < MaxAsks /\ Cardinality(asks) < MaxPending
    /\ asked' = asked + 1 /\ alone' = (alone /\ asks = {})
    /\ asks' = asks \cup {[n |-> asked + 1, page |-> p, filter |-> f, stage |-> "sent",
                           items |-> {}, pages |-> 0]}

Refresh ==
    /\ Ask(devicesPage, filter)
    /\ UNCHANGED <<table, shown, controls, selectedIds, write>>

\* Mutant: the page is not reset.
SetGroupKeepingPage(g) ==
    /\ g # filter[1]
    /\ filter' = <<g, filter[2]>>
    /\ Ask(devicesPage, filter')
    /\ UNCHANGED <<table, shown, devicesPage, devicesPages, typing, selectedIds, write>>

\* The watcher of groupFilter.
SetGroup(g) ==
    /\ g # filter[1]
    /\ filter' = <<g, filter[2]>>
    /\ devicesPage' = 1
    /\ Ask(1, filter')
    /\ UNCHANGED <<table, shown, devicesPages, typing, selectedIds, write>>

\* The watcher of searchText: every refresh uses the new text at once, but the
\* page is reset when the operator has paused.
Type(t) ==
    /\ filter' = <<filter[1], t>> /\ typing' = TRUE
    /\ UNCHANGED <<table, shown, devicesPage, devicesPages, selectedIds, refreshes, write>>

\* Mutant: the pause resets the page and asks for nothing.
DebouncedUnasked ==
    /\ typing /\ typing' = FALSE
    /\ devicesPage' = 1
    /\ UNCHANGED <<table, shown, devicesPages, filter, selectedIds, refreshes, write>>

Debounced ==
    /\ typing /\ typing' = FALSE
    /\ devicesPage' = 1
    /\ Ask(1, filter)
    /\ UNCHANGED <<table, shown, devicesPages, filter, selectedIds, write>>

\* setDevicesPage: clamped to the pages of the last answer.
SetDevicesPage(n) ==
    /\ n # devicesPage /\ n \in 1..(IF devicesPages > 1 THEN devicesPages ELSE 1)
    /\ devicesPage' = n
    /\ Ask(n, filter)
    /\ UNCHANGED <<table, shown, devicesPages, filter, typing, selectedIds, write>>

\* The answer, whichever refresh it belongs to: list, page and pages are its own,
\* the filter is left as it is.
AnswerComes(a) ==
    /\ a.stage = "answered"
    /\ asks' = asks \ {a}
    /\ devices' = a.items /\ devicesPage' = a.page /\ devicesPages' = a.pages
    /\ shownFor' = <<a.page, a.filter>>
    /\ inOrder' = (inOrder /\ \A b \in asks : b.n >= a.n)
    /\ UNCHANGED <<table, filter, typing, selectedIds, started, write>>

\* A refresh fails: everything stays.
AnswerFails(a) ==
    /\ asks' = asks \ {a}
    /\ inOrder' = FALSE
    /\ UNCHANGED <<table, devices, shownFor, controls, selectedIds, started, write>>

\* toggleSelect on a row the list shows.
Toggle(d) ==
    /\ LET ticked == {s \in selectedIds : s.id = d.id}
       IN selectedIds' = IF ticked # {} THEN selectedIds \ ticked ELSE selectedIds \cup {d}
    /\ UNCHANGED <<table, shown, controls, refreshes, write>>

Start(kind, ids) ==
    /\ write = NoWrite /\ ids # {}
    /\ write' = [kind |-> kind, ids |-> ids, stage |-> "sent"]
    /\ UNCHANGED <<table, shown, controls, selectedIds, refreshes>>

\* rename, regroup and deleteOne on a row the list shows, batchDeleteSelected on
\* the selection.
StartEdit(d) == Start("edit", {d.id})
DeleteOne(d) == Start("delete", {d.id})
BatchDeleteSelected == Start("batch", {s.id : s \in selectedIds})

\* Success: a batch clears the selection, nothing else touches it.
WriteEnds ==
    /\ write.stage = "answered"
    /\ write' = NoWrite
    /\ selectedIds' = IF write.kind = "batch" THEN {} ELSE selectedIds
    /\ Ask(devicesPage, filter)
    /\ UNCHANGED <<table, shown, controls>>

WriteFails ==
    /\ write # NoWrite
    /\ write' = NoWrite
    /\ UNCHANGED <<table, shown, controls, selectedIds, refreshes>>

-----------------------------------------------------------------------------
StoreNext ==
    \/ \E a \in asks : Count(a) \/ Fetch(a) \/ AnswerComes(a) \/ AnswerFails(a)
    \/ Delete
    \/ \E r \in Ids : OtherDeletes(r)
    \/ \E r \in Ids, row \in Row : Edit(r, row) \/ OtherEdits(r, row) \/ ScanAdds(r, row)
    \/ Refresh
    \/ \E g \in Groups \cup {All} : SetGroup(g)
    \/ \E t \in Texts \cup {NoText} : Type(t)
    \/ Debounced
    \/ \E n \in Ids : SetDevicesPage(n)
    \/ \E d \in devices : Toggle(d) \/ StartEdit(d) \/ DeleteOne(d)
    \/ BatchDeleteSelected
    \/ WriteEnds
    \/ WriteFails

StoreSpec == StoreInit /\ [][StoreNext]_storeVars

-----------------------------------------------------------------------------
StoreTypeOK ==
    /\ DOMAIN rows \subseteq Ids
    /\ rows \in [DOMAIN rows -> Row]
    /\ devices \subseteq Item /\ Cardinality(devices) <= PageSize
    /\ devicesPage \in 1..MaxId /\ devicesPages \in 0..MaxId
    /\ filter \in Filters /\ typing \in BOOLEAN
    /\ selectedIds \subseteq Item
    /\ \A s, d \in selectedIds : s.id = d.id => s = d
    /\ asks \subseteq [n : 1..MaxAsks, page : 1..MaxId, filter : Filters,
                       stage : {"sent", "counted", "answered"},
                       items : SUBSET Item, pages : 0..MaxId]
    /\ write \in [kind : {"none", "edit", "delete", "batch"}, ids : SUBSET Ids,
                  stage : {"none", "sent", "answered"}]
    /\ asked \in 0..MaxAsks /\ changes \in 0..MaxChanges
    /\ shownFor \in (1..MaxId) \X Filters
    /\ inOrder \in BOOLEAN /\ alone \in BOOLEAN /\ left \in BOOLEAN

\* The "filtering" already happened on the server (devices.js:80-82): once every
\* refresh is answered and the operator has paused, the list is the one its page
\* number, group and search text say, as long as the answers came in order and
\* none failed.
ListMatchesControls ==
    inOrder /\ asks = {} /\ asked > 0 /\ ~typing => shownFor = <<devicesPage, filter>>

\* "also reset numbersPage so a group change while on numbers page >1 doesn't
\* request an out-of-range page" (devices.js:160-162), and devicesPage likewise:
\* while no row has left a filter, no search text waits and every refresh waits for
\* the answer of the one before, none asks for a page its filter does not have.  (A
\* page chosen before the answer for a new group comes may lie beyond that group.)
RequestsStayInRange ==
    [][\A a \in asks' \ asks :
        asks = {} /\ alone /\ inOrder /\ ~left /\ ~typing =>
            a.page = 1 \/ a.page <= PagesOf(a.filter)]_storeVars

\* "a batch action could send stale device IDs to the server" (auth.js:84-85) is
\* what clearing the selection prevents: a batch delete removes no device but
\* those the operator ticked.
BatchDeletesOnlyPicked ==
    [][write.kind = "batch" /\ write.stage = "sent" /\ write'.stage = "answered" =>
        \A s \in selectedIds :
            s.id \in write.ids \cap DOMAIN rows => rows[s.id].board = s.board]_storeVars
=============================================================================
