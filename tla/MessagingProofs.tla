---------------------------- MODULE MessagingProofs ----------------------------
(***************************************************************************)
(* Proofs about Messaging, for any number of devices, flights, texts,      *)
(* clicks, faults and deletes.                                             *)
(***************************************************************************)
EXTENDS Messaging, TLAPS

\* A flight of the panel that the middleware let in, or may yet, and one whose answer
\* is on its way.
Carrying(f) == flight[f].at \notin {"idle", "other", "refused"}
Answered(f) == flight[f].at \in {"ok", "notOk"}

\* It carries a text or call, and a click's number.
CarriersAreMarked ==
    \A f \in Flights : Carrying(f) => flight[f].entry \in 1..entries /\ flight[f].click \in 1..clicks

\* While no workflow was started during another, the flag stands for the only one.
FlagStandsForOne ==
    ~overlapped =>
        /\ \A f, g \in Airborne : f = g
        /\ Airborne # {} => loading

\* Each text belongs to one form.
EntriesKeepTheirForm ==
    /\ \A m, n \in Modes : (m # n /\ form[m] # 0) => form[m] # form[n]
    /\ \A f \in Flights, m \in Modes :
          (Carrying(f) /\ form[m] = flight[f].entry) => m = flight[f].mode

\* A text that went out is in the hands of the flight that carried it, or its
\* answer was lost, or it is neither in a form nor in a flight any more.
Spent(p) ==
    \/ p[2] \in dropped
    \/ \E f \in Flights : Answered(f) /\ flight[f].click = p[1] /\ flight[f].entry = p[2]
    \/ /\ \A m \in Modes : form[m] # p[2]
       /\ \A f \in Flights : Carrying(f) => flight[f].entry # p[2]

SpentStaySpent == ~overlapped => \A p \in carried : Spent(p)

\* A flight's text is still in its form, unless the operator replaced it.
FormKeepsEntry ==
    (~overlapped /\ retyped = {}) =>
        \A f \in Flights : Carrying(f) => form[flight[f].mode] = flight[f].entry

IInv ==
    /\ TypeOK
    /\ CarriersAreMarked
    /\ FlagStandsForOne
    /\ EntriesKeepTheirForm
    /\ SpentStaySpent
    /\ FormKeepsEntry
    /\ SentOnce
    /\ AuditedWasCarried
    /\ NothingTypedIsLost

-----------------------------------------------------------------------------
FlightRecords == [at : Stages, mode : Modes, dev : Devices, entry : 0..entries, click : 0..clicks]

\* A flight that has landed is a flight.
LEMMA LandedType == TypeOK => Landed \in FlightRecords
<1> SUFFICES ASSUME TypeOK PROVE Landed \in FlightRecords
  OBVIOUS
<1>1. (CHOOSE d \in Devices : TRUE) \in Devices
  BY MessagingBounds DEF MessagingBounds
<1>2. "idle" \in Stages /\ "sms" \in Modes /\ 0 \in 0..entries /\ 0 \in 0..clicks
  BY DEF TypeOK, Stages, Modes
<1> QED
  BY <1>1, <1>2 DEF Landed, FlightRecords

\* Landing keeps the flights' type.
LEMMA LandType ==
  ASSUME TypeOK, NEW f \in Flights, Land(f)
  PROVE  flight' \in [Flights -> FlightRecords] /\ loading' \in BOOLEAN
<1>1. flight \in [Flights -> FlightRecords]
  BY DEF TypeOK, FlightRecords
<1> QED
  BY <1>1, LandedType DEF Land

LEMMA StepTypeOK == IInv /\ [Next]_vars => TypeOK'
<1> SUFFICES ASSUME IInv, [Next]_vars PROVE TypeOK'
  OBVIOUS
<1> USE DEF IInv, TypeOK, CarriersAreMarked, Carrying, panel, server, history, At, Stages, Modes
<1>1. ASSUME NEW m \in Modes, Type(m) PROVE TypeOK'
  <2>1. entries' = entries + 1 /\ 0..entries \subseteq 0..entries' /\ 1..entries \subseteq 1..entries'
    BY <1>1 DEF Type
  <2>2. form' \in [Modes -> 0..entries']
    BY <1>1, <2>1 DEF Type
  <2>3. retyped' \subseteq 1..entries'
    <3>1. form[m] \in 0..entries
      OBVIOUS
    <3>2. form[m] # 0 => form[m] \in 1..entries'
      BY <3>1, <2>1
    <3>3. retyped \subseteq 1..entries'
      BY <2>1
    <3> QED
      BY <1>1, <3>2, <3>3 DEF Type
  <2>4. flight' \in [Flights -> [at : Stages, mode : Modes, dev : Devices, entry : 0..entries',
                                  click : 0..clicks']]
    BY <1>1, <2>1 DEF Type
  <2>5. (1..clicks) \X (1..entries) \subseteq (1..clicks') \X (1..entries')
    BY <1>1, <2>1 DEF Type
  <2>6. dropped' \subseteq 1..entries'
    BY <1>1, <2>1 DEF Type
  <2> QED
    BY <1>1, <2>1, <2>2, <2>3, <2>4, <2>5, <2>6 DEF Type
<1>2. ASSUME NEW f \in Flights, NEW m \in Modes, Send(f, m) PROVE TypeOK'
  BY <1>2 DEF Send, TakeOff, Blocked
<1>3. ASSUME NEW f \in Flights, Other(f) PROVE TypeOK'
  <2>1. clicks' = clicks + 1 /\ 0..clicks \subseteq 0..clicks' /\ 1..clicks \subseteq 1..clicks'
    BY <1>3 DEF Other, TakeOff
  <2>2. [Landed EXCEPT !.at = "other"] \in FlightRecords
    <3>1. Landed \in FlightRecords /\ "other" \in Stages
      BY LandedType
    <3> DEFINE L == Landed
    <3>2. L \in FlightRecords
      BY <3>1
    <3> HIDE DEF L
    <3>3. [L EXCEPT !.at = "other"] \in FlightRecords
      BY <3>1, <3>2 DEF FlightRecords
    <3> QED
      BY <3>3 DEF L
  <2>3. flight' \in [Flights -> FlightRecords]
    BY <1>3, <2>2 DEF Other, TakeOff, FlightRecords
  <2>4. flight' \in [Flights -> [at : Stages, mode : Modes, dev : Devices, entry : 0..entries',
                                  click : 0..clicks']]
    BY <1>3, <2>1, <2>3 DEF Other, TakeOff, FlightRecords
  <2>5. (1..clicks) \X (1..entries) \subseteq (1..clicks') \X (1..entries')
    BY <1>3, <2>1 DEF Other, TakeOff
  <2>6. overlapped' \in BOOLEAN /\ loading' \in BOOLEAN
    BY <1>3 DEF Other, TakeOff
  <2> QED
    BY <1>3, <2>1, <2>4, <2>5, <2>6 DEF Other, TakeOff
<1>4. ASSUME NEW f \in Flights, Limit(f) PROVE TypeOK'
  BY <1>4 DEF Limit, Go, Fault
<1>5. ASSUME NEW f \in Flights, Load(f) PROVE TypeOK'
  BY <1>5 DEF Load, Go
<1>6. ASSUME NEW f \in Flights, Auth(f) PROVE TypeOK'
  <2>1. \E stage \in {"device", "notOk", "error"} : flight' = [flight EXCEPT ![f].at = stage]
    BY <1>6 DEF Auth, Go
  <2>2. flight' \in [Flights -> [at : Stages, mode : Modes, dev : Devices, entry : 0..entries,
                                  click : 0..clicks]]
    BY <2>1
  <2>3. tokens' \subseteq Devices /\ faults' \in Nat
    BY <1>6 DEF Auth, Fault
  <2> QED
    BY <1>6, <2>2, <2>3 DEF Auth
<1>7. ASSUME NEW f \in Flights, Exchange(f) PROVE TypeOK'
  BY <1>7 DEF Exchange, Go, Fault, Mark, Reply
<1>8. ASSUME NEW f \in Flights, Confirm(f) PROVE TypeOK'
  <2>1. flight' \in [Flights -> FlightRecords] /\ loading' \in BOOLEAN
    BY <1>8, LandType DEF Confirm
  <2>2. Mark(f) \subseteq (1..clicks) \X (1..entries)
    BY <1>8 DEF Confirm, Mark
  <2>3. form' \in [Modes -> 0..entries]
    BY <1>8 DEF Confirm
  <2> QED
    BY <1>8, <2>1, <2>2, <2>3 DEF Confirm, FlightRecords
<1>9. ASSUME NEW f \in Flights, Report(f) PROVE TypeOK'
  <2>1. flight' \in [Flights -> FlightRecords] /\ loading' \in BOOLEAN
    BY <1>9, LandType DEF Report
  <2> QED
    BY <1>9, <2>1 DEF Report, FlightRecords
<1>10. ASSUME NEW f \in Flights, Drop(f) PROVE TypeOK'
  <2>1. flight' \in [Flights -> FlightRecords] /\ loading' \in BOOLEAN
    BY <1>10, LandType DEF Drop
  <2>2. flight[f].entry \in 1..entries
    BY <1>10 DEF Drop
  <2>3. dropped' \subseteq 1..entries
    BY <1>10, <2>2 DEF Drop
  <2>4. faults' \in Nat
    BY <1>10 DEF Drop, Fault
  <2>5. UNCHANGED <<form, entries, clicks, rows, tokens, audited, carried, garbled, confirmed, retyped,
                    overlapped>>
    BY <1>10 DEF Drop
  <2> QED
    BY <2>1, <2>3, <2>4, <2>5 DEF FlightRecords
<1>11. ASSUME NEW f \in Flights, OtherEnds(f) PROVE TypeOK'
  <2>1. flight' \in [Flights -> FlightRecords] /\ loading' \in BOOLEAN
    BY <1>11, LandType DEF OtherEnds
  <2> QED
    BY <1>11, <2>1 DEF OtherEnds, FlightRecords
<1>12. ASSUME NEW d \in Devices, Delete(d) PROVE TypeOK'
  BY <1>12 DEF Delete
<1>13. ASSUME NEW f \in Flights, Refuse(f) PROVE TypeOK'
  BY <1>13 DEF Refuse, Go, Fault
<1>14. ASSUME NEW f \in Flights, LogsOut(f) PROVE TypeOK'
  <2>1. flight' \in [Flights -> FlightRecords] /\ loading' \in BOOLEAN
    BY <1>14, LandType DEF LogsOut
  <2> QED
    BY <1>14, <2>1 DEF LogsOut, FlightRecords
<1>15. CASE UNCHANGED vars
  BY <1>15 DEF vars
<1> QED
  BY <1>1, <1>2, <1>3, <1>4, <1>5, <1>6, <1>7, <1>8, <1>9, <1>10, <1>11, <1>12, <1>13, <1>14, <1>15 DEF Next, Serve, Receive

LEMMA StepMarked == IInv /\ [Next]_vars => CarriersAreMarked'
<1> SUFFICES ASSUME IInv, [Next]_vars PROVE CarriersAreMarked'
  OBVIOUS
<1> USE DEF IInv, TypeOK, CarriersAreMarked, Modes, panel, server, history, At, Airborne, Carrying, Answered
<1>1. ASSUME NEW m \in Modes, Type(m) PROVE CarriersAreMarked'
  BY <1>1 DEF Type
<1>2. ASSUME NEW f \in Flights, NEW m \in Modes, Send(f, m) PROVE CarriersAreMarked'
  BY <1>2 DEF Send, TakeOff, Blocked
<1>3. ASSUME NEW f \in Flights, Other(f) PROVE CarriersAreMarked'
  BY <1>3 DEF Other, TakeOff
<1>4. ASSUME NEW f \in Flights, Limit(f) PROVE CarriersAreMarked'
  BY <1>4 DEF Limit, Go, Fault
<1>5. ASSUME NEW f \in Flights, Load(f) PROVE CarriersAreMarked'
  BY <1>5 DEF Load, Go
<1>6. ASSUME NEW f \in Flights, Auth(f) PROVE CarriersAreMarked'
  BY <1>6 DEF Auth, Go, Fault
<1>7. ASSUME NEW f \in Flights, Exchange(f) PROVE CarriersAreMarked'
  BY <1>7 DEF Exchange, Go, Fault, Mark, Reply
<1>8. ASSUME NEW f \in Flights, Confirm(f) PROVE CarriersAreMarked'
  BY <1>8 DEF Confirm, Land, Mark, Landed
<1>9. ASSUME NEW f \in Flights, Report(f) PROVE CarriersAreMarked'
  BY <1>9 DEF Report, Land, Landed
<1>10. ASSUME NEW f \in Flights, Drop(f) PROVE CarriersAreMarked'
  BY <1>10 DEF Drop, Land, Fault, Landed
<1>11. ASSUME NEW f \in Flights, OtherEnds(f) PROVE CarriersAreMarked'
  BY <1>11 DEF OtherEnds, Land, Landed
<1>12. ASSUME NEW d \in Devices, Delete(d) PROVE CarriersAreMarked'
  BY <1>12 DEF Delete
<1>13. ASSUME NEW f \in Flights, Refuse(f) PROVE CarriersAreMarked'
  BY <1>13 DEF Refuse, Go, Fault
<1>14. ASSUME NEW f \in Flights, LogsOut(f) PROVE CarriersAreMarked'
  BY <1>14 DEF LogsOut, Land, Landed
<1>15. CASE UNCHANGED vars
  BY <1>15 DEF vars
<1> QED
  BY <1>1, <1>2, <1>3, <1>4, <1>5, <1>6, <1>7, <1>8, <1>9, <1>10, <1>11, <1>12, <1>13, <1>14, <1>15 DEF Next, Serve, Receive

LEMMA StepFlag == IInv /\ [Next]_vars => FlagStandsForOne'
<1> SUFFICES ASSUME IInv, [Next]_vars PROVE FlagStandsForOne'
  OBVIOUS
<1> USE DEF IInv, TypeOK, FlagStandsForOne, panel, server, history, At, Airborne, Carrying, Answered
<1>1. ASSUME NEW m \in Modes, Type(m) PROVE FlagStandsForOne'
  BY <1>1 DEF Type
<1>2. ASSUME NEW f \in Flights, NEW m \in Modes, Send(f, m) PROVE FlagStandsForOne'
  BY <1>2 DEF Send, TakeOff, Blocked
<1>3. ASSUME NEW f \in Flights, Other(f) PROVE FlagStandsForOne'
  BY <1>3 DEF Other, TakeOff
<1>4. ASSUME NEW f \in Flights, Limit(f) PROVE FlagStandsForOne'
  BY <1>4 DEF Limit, Go, Fault
<1>5. ASSUME NEW f \in Flights, Load(f) PROVE FlagStandsForOne'
  BY <1>5 DEF Load, Go
<1>6. ASSUME NEW f \in Flights, Auth(f) PROVE FlagStandsForOne'
  BY <1>6 DEF Auth, Go, Fault
<1>7. ASSUME NEW f \in Flights, Exchange(f) PROVE FlagStandsForOne'
  BY <1>7 DEF Exchange, Go, Fault, Mark, Reply
<1>8. ASSUME NEW f \in Flights, Confirm(f) PROVE FlagStandsForOne'
  BY <1>8 DEF Confirm, Land, Mark, Landed
<1>9. ASSUME NEW f \in Flights, Report(f) PROVE FlagStandsForOne'
  BY <1>9 DEF Report, Land, Landed
<1>10. ASSUME NEW f \in Flights, Drop(f) PROVE FlagStandsForOne'
  BY <1>10 DEF Drop, Land, Fault, Landed
<1>11. ASSUME NEW f \in Flights, OtherEnds(f) PROVE FlagStandsForOne'
  BY <1>11 DEF OtherEnds, Land, Landed
<1>12. ASSUME NEW d \in Devices, Delete(d) PROVE FlagStandsForOne'
  BY <1>12 DEF Delete
<1>13. ASSUME NEW f \in Flights, Refuse(f) PROVE FlagStandsForOne'
  BY <1>13 DEF Refuse, Go, Fault
<1>14. ASSUME NEW f \in Flights, LogsOut(f) PROVE FlagStandsForOne'
  BY <1>14 DEF LogsOut, Land, Landed
<1>15. CASE UNCHANGED vars
  BY <1>15 DEF vars
<1> QED
  BY <1>1, <1>2, <1>3, <1>4, <1>5, <1>6, <1>7, <1>8, <1>9, <1>10, <1>11, <1>12, <1>13, <1>14, <1>15 DEF Next, Serve, Receive

LEMMA StepTheirForm == IInv /\ [Next]_vars => EntriesKeepTheirForm'
<1> SUFFICES ASSUME IInv, [Next]_vars PROVE EntriesKeepTheirForm'
  OBVIOUS
<1> USE DEF IInv, TypeOK, CarriersAreMarked, FlagStandsForOne, EntriesKeepTheirForm, Modes, panel, server, history, At, Airborne, Carrying, Answered
<1>1. ASSUME NEW m \in Modes, Type(m) PROVE EntriesKeepTheirForm'
  BY <1>1 DEF Type
<1>2. ASSUME NEW f \in Flights, NEW m \in Modes, Send(f, m) PROVE EntriesKeepTheirForm'
  BY <1>2 DEF Send, TakeOff, Blocked
<1>3. ASSUME NEW f \in Flights, Other(f) PROVE EntriesKeepTheirForm'
  BY <1>3 DEF Other, TakeOff
<1>4. ASSUME NEW f \in Flights, Limit(f) PROVE EntriesKeepTheirForm'
  BY <1>4 DEF Limit, Go, Fault
<1>5. ASSUME NEW f \in Flights, Load(f) PROVE EntriesKeepTheirForm'
  BY <1>5 DEF Load, Go
<1>6. ASSUME NEW f \in Flights, Auth(f) PROVE EntriesKeepTheirForm'
  BY <1>6 DEF Auth, Go, Fault
<1>7. ASSUME NEW f \in Flights, Exchange(f) PROVE EntriesKeepTheirForm'
  BY <1>7 DEF Exchange, Go, Fault, Mark, Reply
<1>8. ASSUME NEW f \in Flights, Confirm(f) PROVE EntriesKeepTheirForm'
  BY <1>8 DEF Confirm, Land, Mark, Landed
<1>9. ASSUME NEW f \in Flights, Report(f) PROVE EntriesKeepTheirForm'
  BY <1>9 DEF Report, Land, Landed
<1>10. ASSUME NEW f \in Flights, Drop(f) PROVE EntriesKeepTheirForm'
  BY <1>10 DEF Drop, Land, Fault, Landed
<1>11. ASSUME NEW f \in Flights, OtherEnds(f) PROVE EntriesKeepTheirForm'
  BY <1>11 DEF OtherEnds, Land, Landed
<1>12. ASSUME NEW d \in Devices, Delete(d) PROVE EntriesKeepTheirForm'
  BY <1>12 DEF Delete
<1>13. ASSUME NEW f \in Flights, Refuse(f) PROVE EntriesKeepTheirForm'
  BY <1>13 DEF Refuse, Go, Fault
<1>14. ASSUME NEW f \in Flights, LogsOut(f) PROVE EntriesKeepTheirForm'
  BY <1>14 DEF LogsOut, Land, Landed
<1>15. CASE UNCHANGED vars
  BY <1>15 DEF vars
<1> QED
  BY <1>1, <1>2, <1>3, <1>4, <1>5, <1>6, <1>7, <1>8, <1>9, <1>10, <1>11, <1>12, <1>13, <1>14, <1>15 DEF Next, Serve, Receive

LEMMA StepSpent == IInv /\ [Next]_vars => SpentStaySpent'
<1> SUFFICES ASSUME IInv, [Next]_vars PROVE SpentStaySpent'
  OBVIOUS
<1> USE DEF IInv, TypeOK, CarriersAreMarked, FlagStandsForOne, SpentStaySpent, Spent, Modes, panel, server, history, At, Airborne, Carrying, Answered
<1>1. ASSUME NEW m \in Modes, Type(m) PROVE SpentStaySpent'
  BY <1>1 DEF Type
<1>2. ASSUME NEW f \in Flights, NEW m \in Modes, Send(f, m) PROVE SpentStaySpent'
  BY <1>2 DEF Send, TakeOff, Blocked
<1>3. ASSUME NEW f \in Flights, Other(f) PROVE SpentStaySpent'
  BY <1>3 DEF Other, TakeOff
<1>4. ASSUME NEW f \in Flights, Limit(f) PROVE SpentStaySpent'
  BY <1>4 DEF Limit, Go, Fault
<1>5. ASSUME NEW f \in Flights, Load(f) PROVE SpentStaySpent'
  BY <1>5 DEF Load, Go
<1>6. ASSUME NEW f \in Flights, Auth(f) PROVE SpentStaySpent'
  BY <1>6 DEF Auth, Go, Fault
<1>7. ASSUME NEW f \in Flights, Exchange(f) PROVE SpentStaySpent'
  BY <1>7 DEF Exchange, Go, Fault, Mark, Reply
<1>8. ASSUME NEW f \in Flights, Confirm(f) PROVE SpentStaySpent'
  <2> SUFFICES ASSUME ~overlapped, NEW p \in carried PROVE Spent(p)'
    BY <1>8 DEF Confirm
  <2>1. /\ \A g \in Flights : g # f => flight'[g] = flight[g] /\ flight[g].at = "idle"
        /\ flight'[f].at = "idle"
    BY <1>8 DEF Confirm, Land, Landed
  <2>2. form' = [form EXCEPT ![flight[f].mode] = 0] /\ dropped' = dropped /\ p[2] # 0
    BY <1>8 DEF Confirm
  <2>3. Spent(p)
    OBVIOUS
  <2>4. CASE p[2] \in dropped
    BY <2>4, <2>2
  <2>5. CASE \E g \in Flights : Answered(g) /\ flight[g].click = p[1] /\ flight[g].entry = p[2]
    <3>1. flight[f].entry = p[2] /\ flight[f].at # "idle"
      BY <2>5, <2>1
    <3>2. \A m \in Modes : form[m] = p[2] => m = flight[f].mode
      BY <3>1, <1>8 DEF Confirm, EntriesKeepTheirForm
    <3>3. \A m \in Modes : form'[m] # p[2]
      BY <3>2, <2>2
    <3> QED
      BY <3>3, <2>1
  <2>6. CASE /\ \A m \in Modes : form[m] # p[2]
             /\ \A g \in Flights : Carrying(g) => flight[g].entry # p[2]
    BY <2>6, <2>1, <2>2
  <2> QED
    BY <2>3, <2>4, <2>5, <2>6
<1>9. ASSUME NEW f \in Flights, Report(f) PROVE SpentStaySpent'
  BY <1>9 DEF Report, Land, Landed
<1>10. ASSUME NEW f \in Flights, Drop(f) PROVE SpentStaySpent'
  BY <1>10 DEF Drop, Land, Fault, Landed
<1>11. ASSUME NEW f \in Flights, OtherEnds(f) PROVE SpentStaySpent'
  BY <1>11 DEF OtherEnds, Land, Landed
<1>12. ASSUME NEW d \in Devices, Delete(d) PROVE SpentStaySpent'
  BY <1>12 DEF Delete
<1>13. ASSUME NEW f \in Flights, Refuse(f) PROVE SpentStaySpent'
  BY <1>13 DEF Refuse, Go, Fault
<1>14. ASSUME NEW f \in Flights, LogsOut(f) PROVE SpentStaySpent'
  BY <1>14 DEF LogsOut, Land, Landed
<1>15. CASE UNCHANGED vars
  BY <1>15 DEF vars
<1> QED
  BY <1>1, <1>2, <1>3, <1>4, <1>5, <1>6, <1>7, <1>8, <1>9, <1>10, <1>11, <1>12, <1>13, <1>14, <1>15 DEF Next, Serve, Receive

LEMMA StepForm == IInv /\ [Next]_vars => FormKeepsEntry'
<1> SUFFICES ASSUME IInv, [Next]_vars PROVE FormKeepsEntry'
  OBVIOUS
<1> USE DEF IInv, TypeOK, CarriersAreMarked, FlagStandsForOne, FormKeepsEntry, Modes, panel, server, history, At, Airborne, Carrying, Answered
<1>1. ASSUME NEW m \in Modes, Type(m) PROVE FormKeepsEntry'
  BY <1>1 DEF Type
<1>2. ASSUME NEW f \in Flights, NEW m \in Modes, Send(f, m) PROVE FormKeepsEntry'
  BY <1>2 DEF Send, TakeOff, Blocked
<1>3. ASSUME NEW f \in Flights, Other(f) PROVE FormKeepsEntry'
  BY <1>3 DEF Other, TakeOff
<1>4. ASSUME NEW f \in Flights, Limit(f) PROVE FormKeepsEntry'
  BY <1>4 DEF Limit, Go, Fault
<1>5. ASSUME NEW f \in Flights, Load(f) PROVE FormKeepsEntry'
  BY <1>5 DEF Load, Go
<1>6. ASSUME NEW f \in Flights, Auth(f) PROVE FormKeepsEntry'
  BY <1>6 DEF Auth, Go, Fault
<1>7. ASSUME NEW f \in Flights, Exchange(f) PROVE FormKeepsEntry'
  BY <1>7 DEF Exchange, Go, Fault, Mark, Reply
<1>8. ASSUME NEW f \in Flights, Confirm(f) PROVE FormKeepsEntry'
  BY <1>8 DEF Confirm, Land, Mark, Landed
<1>9. ASSUME NEW f \in Flights, Report(f) PROVE FormKeepsEntry'
  BY <1>9 DEF Report, Land, Landed
<1>10. ASSUME NEW f \in Flights, Drop(f) PROVE FormKeepsEntry'
  BY <1>10 DEF Drop, Land, Fault, Landed
<1>11. ASSUME NEW f \in Flights, OtherEnds(f) PROVE FormKeepsEntry'
  BY <1>11 DEF OtherEnds, Land, Landed
<1>12. ASSUME NEW d \in Devices, Delete(d) PROVE FormKeepsEntry'
  BY <1>12 DEF Delete
<1>13. ASSUME NEW f \in Flights, Refuse(f) PROVE FormKeepsEntry'
  BY <1>13 DEF Refuse, Go, Fault
<1>14. ASSUME NEW f \in Flights, LogsOut(f) PROVE FormKeepsEntry'
  BY <1>14 DEF LogsOut, Land, Landed
<1>15. CASE UNCHANGED vars
  BY <1>15 DEF vars
<1> QED
  BY <1>1, <1>2, <1>3, <1>4, <1>5, <1>6, <1>7, <1>8, <1>9, <1>10, <1>11, <1>12, <1>13, <1>14, <1>15 DEF Next, Serve, Receive

LEMMA StepOnce == IInv /\ [Next]_vars => SentOnce'
<1> SUFFICES ASSUME IInv, [Next]_vars PROVE SentOnce'
  OBVIOUS
<1> USE DEF IInv, TypeOK, CarriersAreMarked, FlagStandsForOne, SpentStaySpent, Spent, SentOnce, Modes, panel, server, history, At, Airborne, Carrying, Answered
<1>1. ASSUME NEW m \in Modes, Type(m) PROVE SentOnce'
  BY <1>1 DEF Type
<1>2. ASSUME NEW f \in Flights, NEW m \in Modes, Send(f, m) PROVE SentOnce'
  BY <1>2 DEF Send, TakeOff, Blocked
<1>3. ASSUME NEW f \in Flights, Other(f) PROVE SentOnce'
  BY <1>3 DEF Other, TakeOff
<1>4. ASSUME NEW f \in Flights, Limit(f) PROVE SentOnce'
  BY <1>4 DEF Limit, Go, Fault
<1>5. ASSUME NEW f \in Flights, Load(f) PROVE SentOnce'
  BY <1>5 DEF Load, Go
<1>6. ASSUME NEW f \in Flights, Auth(f) PROVE SentOnce'
  BY <1>6 DEF Auth, Go, Fault
<1>7. ASSUME NEW f \in Flights, Exchange(f) PROVE SentOnce'
  BY <1>7 DEF Exchange, Go, Fault, Mark, Reply
<1>8. ASSUME NEW f \in Flights, Confirm(f) PROVE SentOnce'
  BY <1>8 DEF Confirm, Land, Mark, Landed
<1>9. ASSUME NEW f \in Flights, Report(f) PROVE SentOnce'
  BY <1>9 DEF Report, Land, Landed
<1>10. ASSUME NEW f \in Flights, Drop(f) PROVE SentOnce'
  BY <1>10 DEF Drop, Land, Fault, Landed
<1>11. ASSUME NEW f \in Flights, OtherEnds(f) PROVE SentOnce'
  BY <1>11 DEF OtherEnds, Land, Landed
<1>12. ASSUME NEW d \in Devices, Delete(d) PROVE SentOnce'
  BY <1>12 DEF Delete
<1>13. ASSUME NEW f \in Flights, Refuse(f) PROVE SentOnce'
  BY <1>13 DEF Refuse, Go, Fault
<1>14. ASSUME NEW f \in Flights, LogsOut(f) PROVE SentOnce'
  BY <1>14 DEF LogsOut, Land, Landed
<1>15. CASE UNCHANGED vars
  BY <1>15 DEF vars
<1> QED
  BY <1>1, <1>2, <1>3, <1>4, <1>5, <1>6, <1>7, <1>8, <1>9, <1>10, <1>11, <1>12, <1>13, <1>14, <1>15 DEF Next, Serve, Receive

LEMMA StepAudited == IInv /\ [Next]_vars => AuditedWasCarried'
<1> SUFFICES ASSUME IInv, [Next]_vars PROVE AuditedWasCarried'
  OBVIOUS
<1> USE DEF IInv, TypeOK, AuditedWasCarried, panel, server, history, At, Airborne, Carrying, Answered
<1>1. ASSUME NEW m \in Modes, Type(m) PROVE AuditedWasCarried'
  BY <1>1 DEF Type
<1>2. ASSUME NEW f \in Flights, NEW m \in Modes, Send(f, m) PROVE AuditedWasCarried'
  BY <1>2 DEF Send, TakeOff, Blocked
<1>3. ASSUME NEW f \in Flights, Other(f) PROVE AuditedWasCarried'
  BY <1>3 DEF Other, TakeOff
<1>4. ASSUME NEW f \in Flights, Limit(f) PROVE AuditedWasCarried'
  BY <1>4 DEF Limit, Go, Fault
<1>5. ASSUME NEW f \in Flights, Load(f) PROVE AuditedWasCarried'
  BY <1>5 DEF Load, Go
<1>6. ASSUME NEW f \in Flights, Auth(f) PROVE AuditedWasCarried'
  BY <1>6 DEF Auth, Go, Fault
<1>7. ASSUME NEW f \in Flights, Exchange(f) PROVE AuditedWasCarried'
  BY <1>7 DEF Exchange, Go, Fault, Mark, Reply
<1>8. ASSUME NEW f \in Flights, Confirm(f) PROVE AuditedWasCarried'
  BY <1>8 DEF Confirm, Land, Mark, Landed
<1>9. ASSUME NEW f \in Flights, Report(f) PROVE AuditedWasCarried'
  BY <1>9 DEF Report, Land, Landed
<1>10. ASSUME NEW f \in Flights, Drop(f) PROVE AuditedWasCarried'
  BY <1>10 DEF Drop, Land, Fault, Landed
<1>11. ASSUME NEW f \in Flights, OtherEnds(f) PROVE AuditedWasCarried'
  BY <1>11 DEF OtherEnds, Land, Landed
<1>12. ASSUME NEW d \in Devices, Delete(d) PROVE AuditedWasCarried'
  BY <1>12 DEF Delete
<1>13. ASSUME NEW f \in Flights, Refuse(f) PROVE AuditedWasCarried'
  BY <1>13 DEF Refuse, Go, Fault
<1>14. ASSUME NEW f \in Flights, LogsOut(f) PROVE AuditedWasCarried'
  BY <1>14 DEF LogsOut, Land, Landed
<1>15. CASE UNCHANGED vars
  BY <1>15 DEF vars
<1> QED
  BY <1>1, <1>2, <1>3, <1>4, <1>5, <1>6, <1>7, <1>8, <1>9, <1>10, <1>11, <1>12, <1>13, <1>14, <1>15 DEF Next, Serve, Receive

LEMMA StepLost == IInv /\ [Next]_vars => NothingTypedIsLost'
<1> SUFFICES ASSUME IInv, [Next]_vars PROVE NothingTypedIsLost'
  OBVIOUS
<1> USE DEF IInv, TypeOK, CarriersAreMarked, FlagStandsForOne, FormKeepsEntry, NothingTypedIsLost, Modes, panel, server, history, At, Airborne, Carrying, Answered
<1>1. ASSUME NEW m \in Modes, Type(m) PROVE NothingTypedIsLost'
  BY <1>1 DEF Type
<1>2. ASSUME NEW f \in Flights, NEW m \in Modes, Send(f, m) PROVE NothingTypedIsLost'
  BY <1>2 DEF Send, TakeOff, Blocked
<1>3. ASSUME NEW f \in Flights, Other(f) PROVE NothingTypedIsLost'
  BY <1>3 DEF Other, TakeOff
<1>4. ASSUME NEW f \in Flights, Limit(f) PROVE NothingTypedIsLost'
  BY <1>4 DEF Limit, Go, Fault
<1>5. ASSUME NEW f \in Flights, Load(f) PROVE NothingTypedIsLost'
  BY <1>5 DEF Load, Go
<1>6. ASSUME NEW f \in Flights, Auth(f) PROVE NothingTypedIsLost'
  BY <1>6 DEF Auth, Go, Fault
<1>7. ASSUME NEW f \in Flights, Exchange(f) PROVE NothingTypedIsLost'
  BY <1>7 DEF Exchange, Go, Fault, Mark, Reply
<1>8. ASSUME NEW f \in Flights, Confirm(f) PROVE NothingTypedIsLost'
  <2> SUFFICES ASSUME ~overlapped, retyped = {}, NEW e \in 1..entries
               PROVE  (\E m \in Modes : form'[m] = e) \/ (\E p \in confirmed' : p[2] = e)
    BY <1>8 DEF Confirm
  <2>1. Carrying(f) /\ form[flight[f].mode] = flight[f].entry
    BY <1>8 DEF Confirm
  <2>2. confirmed' = confirmed \cup {<<flight[f].click, flight[f].entry>>}
    BY <1>8 DEF Confirm, Mark
  <2>3. form' = [form EXCEPT ![flight[f].mode] = 0]
    BY <1>8 DEF Confirm
  <2>4. CASE \E p \in confirmed : p[2] = e
    BY <2>4, <2>2
  <2>5. CASE \E m \in Modes : form[m] = e
    <3>1. PICK m \in Modes : form[m] = e
      BY <2>5
    <3>2. CASE m = flight[f].mode
      <4>1. <<flight[f].click, flight[f].entry>> \in confirmed' /\ flight[f].entry = e
        BY <3>1, <3>2, <2>1, <2>2
      <4> QED
        BY <4>1
    <3>3. CASE m # flight[f].mode
      BY <3>1, <3>3, <2>3
    <3> QED
      BY <3>2, <3>3
  <2> QED
    BY <2>4, <2>5
<1>9. ASSUME NEW f \in Flights, Report(f) PROVE NothingTypedIsLost'
  BY <1>9 DEF Report, Land, Landed
<1>10. ASSUME NEW f \in Flights, Drop(f) PROVE NothingTypedIsLost'
  BY <1>10 DEF Drop, Land, Fault, Landed
<1>11. ASSUME NEW f \in Flights, OtherEnds(f) PROVE NothingTypedIsLost'
  BY <1>11 DEF OtherEnds, Land, Landed
<1>12. ASSUME NEW d \in Devices, Delete(d) PROVE NothingTypedIsLost'
  BY <1>12 DEF Delete
<1>13. ASSUME NEW f \in Flights, Refuse(f) PROVE NothingTypedIsLost'
  BY <1>13 DEF Refuse, Go, Fault
<1>14. ASSUME NEW f \in Flights, LogsOut(f) PROVE NothingTypedIsLost'
  BY <1>14 DEF LogsOut, Land, Landed
<1>15. CASE UNCHANGED vars
  BY <1>15 DEF vars
<1> QED
  BY <1>1, <1>2, <1>3, <1>4, <1>5, <1>6, <1>7, <1>8, <1>9, <1>10, <1>11, <1>12, <1>13, <1>14, <1>15 DEF Next, Serve, Receive

-----------------------------------------------------------------------------
LEMMA InitHolds == Init => IInv
<1> SUFFICES ASSUME Init PROVE IInv
  OBVIOUS
<1> USE DEF Init
<1>1. (CHOOSE d \in Devices : TRUE) \in Devices
  BY MessagingBounds DEF MessagingBounds
<1>2. Landed \in [at : Stages, mode : Modes, dev : Devices, entry : 0..0, click : 0..0]
  BY <1>1 DEF Landed, Stages, Modes
<1>3. TypeOK
  <2>1. flight \in [Flights -> [at : Stages, mode : Modes, dev : Devices, entry : 0..entries,
                                click : 0..clicks]]
    BY <1>2
  <2>2. form \in [Modes -> 0..entries] /\ entries \in Nat /\ clicks \in Nat /\ faults \in Nat
    OBVIOUS
  <2>3. loading \in BOOLEAN /\ overlapped \in BOOLEAN /\ rows \subseteq Devices /\ tokens \subseteq Devices
    OBVIOUS
  <2>4. carried = {} /\ confirmed = {} /\ audited = {} /\ garbled = {} /\ dropped = {} /\ retyped = {}
    OBVIOUS
  <2> QED
    BY <2>1, <2>2, <2>3, <2>4 DEF TypeOK
<1>4. \A f \in Flights : flight[f].at = "idle" /\ flight[f].entry = 0
  BY DEF Landed
<1>5. CarriersAreMarked /\ FlagStandsForOne /\ EntriesKeepTheirForm /\ FormKeepsEntry
  BY <1>4 DEF CarriersAreMarked, FlagStandsForOne, EntriesKeepTheirForm, FormKeepsEntry, Carrying, Airborne
<1>6. SpentStaySpent /\ SentOnce /\ AuditedWasCarried
  BY DEF SpentStaySpent, SentOnce, AuditedWasCarried
<1>7. NothingTypedIsLost
  BY DEF NothingTypedIsLost
<1> QED
  BY <1>3, <1>5, <1>6, <1>7 DEF IInv

LEMMA Inductive == Spec => []IInv
<1>1. IInv /\ [Next]_vars => IInv'
  BY StepTypeOK, StepMarked, StepFlag, StepTheirForm, StepSpent, StepForm, StepOnce, StepAudited, StepLost
     DEF IInv
<1> QED
  BY <1>1, InitHolds, PTL DEF Spec

\* Every reachable state has the types TypeOK gives.
THEOREM TypeCorrect == Spec => []TypeOK
<1>1. IInv => TypeOK
  BY DEF IInv
<1> QED
  BY <1>1, Inductive, PTL

\* A text goes out once, unless an answer was lost or another workflow took the
\* flag down: the flag (useLoading.js), the emptied form (useMessaging.js) and
\* the absence of a retry give it together.
THEOREM SendsOnce == Spec => []SentOnce
<1>1. IInv => SentOnce
  BY DEF IInv
<1> QED
  BY <1>1, Inductive, PTL

\* What smssenddirect and tel_dial audit was carried out, or the reply was no JSON.
THEOREM AuditIsTrue == Spec => []AuditedWasCarried
<1>1. IInv => AuditedWasCarried
  BY DEF IInv
<1> QED
  BY <1>1, Inductive, PTL

\* Undisturbed, a text stays in its form until the server has answered it.
THEOREM TextsAreKept == Spec => []NothingTypedIsLost
<1>1. IInv => NothingTypedIsLost
  BY DEF IInv
<1> QED
  BY <1>1, Inductive, PTL
=============================================================================
