------------------------------ MODULE Messaging ------------------------------
(***************************************************************************)
(* Sending a text message and dialling: the panel of the dashboard         *)
(* (useMessaging.js), the loading flag it shares with every other workflow *)
(* of the page (useLoading.js), the two handlers of                        *)
(* backend/routes/devices.py, and the device behind them.                  *)
(*                                                                         *)
(* A flight is one run of a workflow, from the click to its finally.  The  *)
(* two forms of the panel are kept apart by their mode, and a form's       *)
(* contents are one entry: 0 when it is empty, else the number of the text *)
(* or call typed into it.                                                  *)
(***************************************************************************)
EXTENDS Integers, FiniteSets

CONSTANTS
    Devices,      \* devices a message can be sent from
    Flights,      \* workflows that may be under way together
    MaxEntries,   \* bound: texts and calls typed
    MaxClicks,    \* bound: workflows started
    MaxFaults,    \* bound: refusals, failures and lost answers
    MaxDeletes    \* bound: rows deleted

ASSUME MessagingBounds ==
    /\ Devices # {}
    /\ MaxEntries \in Nat /\ MaxClicks \in Nat /\ MaxFaults \in Nat /\ MaxDeletes \in Nat

VARIABLES
    loading,      \* the page's one loading flag
    form,         \* what each form holds
    flight,       \* each flight's stage, mode, device and entry
    rows,         \* devices in the table
    tokens,       \* devices whose token the table holds
    entries, clicks, faults,
    \* history
    carried,      \* <<click, entry>>: a device sent or dialled it
    confirmed,    \* <<click, entry>>: the panel said so
    audited,      \* <<click, entry>>: it is in the audit log
    garbled,      \* <<click, entry>>: the device's reply was no JSON
    dropped,      \* entries of flights whose answer never reached the page
    retyped,      \* entries the operator replaced
    overlapped    \* another workflow was started during a flight

panel == <<loading, form, entries, clicks>>
server == <<rows, tokens, audited>>
history == <<confirmed, retyped, overlapped>>
vars == <<panel, flight, server, faults, carried, dropped, garbled, history>>

Modes == {"sms", "dial"}

\* The stages of a flight; "ok", "notOk" and "error" are answers on their way:
\* {"ok": true}, {"ok": false}, and a status that axios rejects.  "refused" is a 401
\* on a page that is logged in: the workflow waits for a logout.
Stages == {"idle", "limit", "row", "auth", "device", "ok", "notOk", "error", "refused", "other"}
Landed == [at |-> "idle", mode |-> "sms", dev |-> CHOOSE d \in Devices : TRUE, entry |-> 0, click |-> 0]

Init ==
    /\ loading = FALSE
    /\ form = [m \in Modes |-> 0]
    /\ flight = [f \in Flights |-> Landed]
    /\ rows = Devices
    /\ tokens \in SUBSET Devices
    /\ entries = 0 /\ clicks = 0 /\ faults = 0
    /\ carried = {} /\ confirmed = {} /\ audited = {}
    /\ garbled = {} /\ dropped = {} /\ retyped = {} /\ overlapped = FALSE

-----------------------------------------------------------------------------
\* The page.
Airborne == {f \in Flights : flight[f].at # "idle"}
At(f, stage) == flight[f].at = stage
Go(f, stage) == flight' = [flight EXCEPT ![f].at = stage]
Fault == faults < MaxFaults /\ faults' = faults + 1

\* The fields stay open while a flight is under way.
Type(m) ==
    /\ entries < MaxEntries
    /\ entries' = entries + 1
    /\ retyped' = IF form[m] = 0 THEN retyped ELSE retyped \cup {form[m]}
    /\ form' = [form EXCEPT ![m] = entries']
    /\ UNCHANGED <<loading, clicks, flight, server, faults, carried, dropped, garbled, confirmed, overlapped>>

TakeOff(f, record) ==
    /\ At(f, "idle") /\ clicks < MaxClicks
    /\ clicks' = clicks + 1
    /\ flight' = [flight EXCEPT ![f] = record]
    /\ loading' = TRUE
    /\ UNCHANGED <<form, entries, server, faults, carried, dropped, garbled, confirmed, retyped>>

\* Mutant: the button does not look at the flag.
BlockedNever(m) == form[m] = 0

\* The button is disabled by the flag, and by an empty form.
Blocked(m) == loading \/ form[m] = 0

Send(f, m) ==
    /\ ~Blocked(m)
    /\ \E d \in Devices :
          TakeOff(f, [at |-> "limit", mode |-> m, dev |-> d, entry |-> form[m], click |-> clicks + 1])
    /\ UNCHANGED overlapped

\* Another workflow of the page; a device's details and the r key are not
\* blocked by the flag.
Other(f) ==
    /\ TakeOff(f, [Landed EXCEPT !.at = "other"])
    /\ overlapped' = (overlapped \/ Airborne # {})

-----------------------------------------------------------------------------
\* smssenddirect and tel_dial.

\* The middleware finds no token for a workflow's request.
Refuse(f) ==
    /\ At(f, "limit") \/ At(f, "other")
    /\ Fault
    /\ Go(f, "refused")
    /\ UNCHANGED <<panel, server, carried, dropped, garbled, history>>

\* The rate limit is RateLimit's; here it lets pass or answers 429, which a 401
\* on a page that is logged out is no different from.
Limit(f) ==
    /\ At(f, "limit")
    /\ \/ Go(f, "row") /\ UNCHANGED faults
       \/ Go(f, "error") /\ Fault
    /\ UNCHANGED <<panel, server, carried, dropped, garbled, history>>

\* 404 for a row that is gone; a call whose row has a token needs no more.
Load(f) ==
    /\ At(f, "row")
    /\ LET d == flight[f].dev IN
       Go(f, CASE d \notin rows -> "error"
               [] d \in rows /\ flight[f].mode = "dial" /\ d \in tokens -> "device"
               [] OTHER -> "auth")
    /\ UNCHANGED <<panel, server, faults, carried, dropped, garbled, history>>

\* A message asks first whether this is one of the boards.  A call fetches the
\* token and commits it; that the commit fails, because the row is gone or the
\* database is locked, is passed over, but the row object is of no use then.
Auth(f) ==
    /\ At(f, "auth")
    /\ LET d == flight[f].dev IN
       \/ /\ flight[f].mode = "dial" => d \in rows
          /\ Go(f, "device")
          /\ tokens' = IF flight[f].mode = "dial" THEN tokens \cup {d} ELSE tokens
          /\ UNCHANGED faults
       \/ /\ flight[f].mode = "dial"
          /\ Go(f, "notOk")
          /\ (d \notin rows /\ UNCHANGED faults) \/ Fault
          /\ UNCHANGED tokens
       \/ Go(f, "error") /\ Fault /\ UNCHANGED tokens
    /\ UNCHANGED <<panel, rows, audited, carried, dropped, garbled, history>>

Mark(f) == {<<flight[f].click, flight[f].entry>>}

\* Mutant: status 200 alone counts for a message.
ReplyOfStatus(mode, body) == IF body = "none" THEN "notOk" ELSE "ok"

\* What the handlers make of the device's reply: a message needs success = true;
\* for a call, a body of status 200 that is no JSON has no code, which is 0.
Reply(mode, body) ==
    IF body = "success" \/ (body = "garbled" /\ mode = "dial") THEN "ok" ELSE "notOk"

\* The device carries it out, or not, and its reply arrives or is lost.
Exchange(f) ==
    /\ At(f, "device")
    /\ \E body \in {"success", "refusal", "garbled", "none"} :
          LET verdict == Reply(flight[f].mode, body) IN
          /\ carried' \in (IF body = "success" THEN {carried \cup Mark(f)}
                           ELSE IF body = "refusal" THEN {carried}
                           ELSE {carried, carried \cup Mark(f)})
          /\ IF body = "success" THEN UNCHANGED faults ELSE Fault
          /\ garbled' = IF body = "garbled" THEN garbled \cup Mark(f) ELSE garbled
          /\ audited' = IF verdict = "ok" THEN audited \cup Mark(f) ELSE audited
          /\ Go(f, verdict)
    /\ UNCHANGED <<panel, rows, tokens, dropped, history>>

Serve(f) == Limit(f) \/ Load(f) \/ Auth(f) \/ Exchange(f)

Delete(d) ==
    /\ d \in rows /\ Cardinality(Devices \ rows) < MaxDeletes
    /\ rows' = rows \ {d} /\ tokens' = tokens \ {d}
    /\ UNCHANGED <<panel, flight, audited, faults, carried, dropped, garbled, history>>

-----------------------------------------------------------------------------
\* The answers.
Land(f) == flight' = [flight EXCEPT ![f] = Landed] /\ loading' = FALSE

\* Every answer of status 200 is "sent" or "dialled", and empties the form.
Confirm(f) ==
    /\ At(f, "ok") \/ At(f, "notOk")
    /\ confirmed' = confirmed \cup Mark(f)
    /\ form' = [form EXCEPT ![flight[f].mode] = 0]
    /\ Land(f)
    /\ UNCHANGED <<entries, clicks, server, faults, carried, dropped, garbled, retyped, overlapped>>

\* Mutant: the form is emptied in the finally.
ReportEmptied(f) ==
    /\ At(f, "error")
    /\ form' = [form EXCEPT ![flight[f].mode] = 0]
    /\ Land(f)
    /\ UNCHANGED <<entries, clicks, server, faults, carried, dropped, garbled, history>>

\* Mutant: an error leaves before the flag is taken down.
ReportHanging(f) ==
    /\ At(f, "error")
    /\ flight' = [flight EXCEPT ![f] = Landed]
    /\ UNCHANGED <<panel, server, faults, carried, dropped, garbled, history>>

\* An error is shown, and the form keeps what it holds.
Report(f) ==
    /\ At(f, "error")
    /\ Land(f)
    /\ UNCHANGED <<form, entries, clicks, server, faults, carried, dropped, garbled, history>>

\* The answer to the browser is lost: an error too.
Drop(f) ==
    /\ At(f, "ok") \/ At(f, "notOk")
    /\ Fault
    /\ dropped' = dropped \cup {flight[f].entry}
    /\ Land(f)
    /\ UNCHANGED <<form, entries, clicks, server, carried, garbled, history>>

OtherEnds(f) ==
    /\ At(f, "other")
    /\ Land(f)
    /\ UNCHANGED <<form, entries, clicks, server, faults, carried, dropped, garbled, history>>

\* The interceptor's logout ends after all, with anything but a 401, and the 401 is
\* reported; Sessions shows that it need not.
LogsOut(f) ==
    /\ At(f, "refused")
    /\ Land(f)
    /\ UNCHANGED <<form, entries, clicks, server, faults, carried, dropped, garbled, history>>

Receive(f) == Confirm(f) \/ Report(f) \/ Drop(f) \/ OtherEnds(f)

Next ==
    \/ \E m \in Modes : Type(m)
    \/ \E f \in Flights : Other(f) \/ Serve(f) \/ Receive(f) \/ (\E m \in Modes : Send(f, m))
    \/ \E f \in Flights : Refuse(f) \/ LogsOut(f)
    \/ \E d \in Devices : Delete(d)

Spec == Init /\ [][Next]_vars

\* Every device call has a time-out, and a request of the browser ends in an
\* answer or an error, but for one answered 401 on a page that is logged in:
\* nothing makes the logout it waits for end.  Nobody has to send anything.
FairSpec == Spec /\ \A f \in Flights : WF_vars(Serve(f)) /\ WF_vars(Receive(f))

-----------------------------------------------------------------------------
\* Types of the page, the flights, the table and the history.
TypeOK ==
    /\ loading \in BOOLEAN /\ overlapped \in BOOLEAN
    /\ form \in [Modes -> 0..entries]
    /\ flight \in [Flights -> [at : Stages, mode : Modes, dev : Devices, entry : 0..entries,
                               click : 0..clicks]]
    /\ rows \subseteq Devices /\ tokens \subseteq Devices
    /\ entries \in Nat /\ clicks \in Nat /\ faults \in Nat
    /\ carried \subseteq (1..clicks) \X (1..entries)
    /\ confirmed \subseteq (1..clicks) \X (1..entries)
    /\ audited \subseteq (1..clicks) \X (1..entries)
    /\ garbled \subseteq (1..clicks) \X (1..entries)
    /\ dropped \subseteq 1..entries /\ retyped \subseteq 1..entries

\* However often the operator clicks, a device sends a text once: the flag blocks
\* the second click, the answer empties the form, and nothing is retried on the
\* way.  Only an answer that was lost, or another workflow that takes the flag
\* down, lets a text go out twice.
SentOnce ==
    \A p, q \in carried :
        (p[2] = q[2] /\ p # q) => p[2] \in dropped \/ overlapped

\* What is in the audit log was carried out, unless the device's reply was
\* garbled; a message is never on that ground.
AuditedWasCarried ==
    \A p \in audited : p \in carried \/ p \in garbled

\* While no workflow is started during another and the operator replaces nothing,
\* what was typed stays in its form until the server has answered it.
NothingTypedIsLost ==
    (~overlapped /\ retyped = {}) =>
        \A e \in 1..entries :
            (\E m \in Modes : form[m] = e) \/ (\E p \in confirmed : p[2] = e)

\* The buttons come back after every click, whatever fails, or a workflow waits for
\* the logout of auth.js:26-31.
ButtonsComeBack == loading ~> (~loading \/ \E f \in Flights : At(f, "refused"))

\* useMessaging.js:49, 77: "sent" and "dialled" are shown for what was sent and
\* dialled.
SentNoticeIsTrue == \A p \in confirmed : p \in carried

\* useLoading.js:3: the flag says that something is in flight.
FlagCoversFlights == loading <=> Airborne # {}
=============================================================================
