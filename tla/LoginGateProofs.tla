---------------------------- MODULE LoginGateProofs ----------------------------
(***************************************************************************)
(* Proofs about LoginGate, for any number of processes, addresses, names,  *)
(* attempts and faults, any limits and periods, and any stretch of time.   *)
(***************************************************************************)
EXTENDS LoginGate, FiniteSetTheorems, TLAPS

Recording(p) == pc[p] \in {"recordIp", "recordUser"}
Checking(p) == pc[p] \in {"checkIp", "checkUser"}

\* A request that is checked or recorded has an address, and one that is
\* recorded for its account has an account.
KeysAreKnown ==
    \A p \in Procs :
        /\ Checking(p) \/ Recording(p) => req[p].ip \in Addresses
        /\ pc[p] \in {"checkUser", "recordUser"} => UserKey(p) # Blank

\* Attempts are numbered apart.
AttemptsDiffer ==
    /\ \A p \in Procs : req[p].id <= attempts
    /\ \A p \in Procs : Checking(p) \/ Recording(p) => req[p].id # 0
    /\ \A p, q \in Procs : (req[p].id = req[q].id /\ req[p].id # 0) => p = q
    /\ \A g \in guesses : g.id <= attempts

\* An attempt becomes a guess when its password is judged, not before; from then
\* on its process knows it, and its clock is not behind it.
GuessedWhenJudged ==
    \A p \in Procs :
        /\ Checking(p) => \A g \in guesses : g.id # req[p].id
        /\ Recording(p) =>
              /\ \E g \in guesses : g.id = req[p].id /\ g.keys = KeysOf(p)
              /\ \A g \in guesses : g.id = req[p].id => g.ts <= since[p] /\ g.keys = KeysOf(p)

\* The row of a guess is no older than the guess.
RowsFollowGuesses ==
    \A e \in events, g \in guesses : e.id = g.id => g.ts <= e.ts

ClocksAreRead == \A p \in Procs : since[p] <= now

IInv ==
    /\ TypeOK
    /\ ClocksAreRead
    /\ KeysAreKnown
    /\ AttemptsDiffer
    /\ GuessedWhenJudged
    /\ RowsFollowGuesses
    /\ OnlyGuessesAreCharged
    /\ FailuresStayCounted

-----------------------------------------------------------------------------
\* What Goto and Finish leave of every process.
LEMMA GotoFacts ==
  ASSUME TypeOK, NEW p \in Procs, NEW point \in Points, Goto(p, point)
  PROVE  /\ pc' \in [Procs -> Points] /\ since' \in [Procs -> Nat] /\ req' \in [Procs -> Request]
         /\ req' = req /\ pc'[p] = point /\ since'[p] = now
         /\ \A q \in Procs : q # p => pc'[q] = pc[q] /\ since'[q] = since[q]
  BY DEF TypeOK, Goto

LEMMA FinishFacts ==
  ASSUME TypeOK, NEW p \in Procs, Finish(p)
  PROVE  /\ pc' \in [Procs -> Points] /\ since' \in [Procs -> Nat] /\ req' \in [Procs -> Request]
         /\ req'[p].id = 0 /\ pc'[p] = "idle" /\ since'[p] = 0
         /\ \A q \in Procs : q # p => pc'[q] = pc[q] /\ since'[q] = since[q] /\ req'[q] = req[q]
<1>1. NoRequest \in Request
  BY GateAssumption DEF GateAssumption, NoRequest, Request, Secrets
<1> QED
  BY <1>1 DEF TypeOK, Finish, Points, NoRequest

Faded(e) == e.ts < now - Period[e.key]

\* Pruning takes what is over.
LEMMA PruneFacts ==
  ASSUME IInv, NEW p \in Procs, NEW k \in Keys, NEW t \in Clocks(p), events' = Pruned(k, t)
  PROVE  events' \subseteq events /\ \A e \in events \ events' : Faded(e)
<1>1. t \in Nat /\ t <= now
  BY DEF IInv, TypeOK, Clocks
<1>2. Period[k] \in Nat /\ now \in Nat /\ \A e \in events : e.ts \in Nat
  BY GateAssumption DEF GateAssumption, IInv, TypeOK, Event
<1> QED
  BY <1>1, <1>2 DEF Pruned, Faded

LEMMA PassFacts ==
  ASSUME IInv, NEW p \in Procs, NEW k \in Keys, Pass(p, k)
  PROVE  events' \subseteq events /\ (\A e \in events \ events' : Faded(e)) /\ faults' \in Nat
<1>1. CASE \E t \in Clocks(p) : events' = Pruned(k, t) /\ UNCHANGED faults
  BY <1>1, PruneFacts DEF IInv, TypeOK
<1>2. CASE Fault /\ UNCHANGED events
  BY <1>2 DEF Fault, IInv, TypeOK
<1> QED
  BY <1>1, <1>2 DEF Pass

LEMMA RefuseFacts ==
  ASSUME IInv, NEW p \in Procs, Refused(p)
  PROVE  /\ events' \subseteq events /\ (\A e \in events \ events' : Faded(e))
         /\ Finish(p) /\ Checking(p)
         /\ UNCHANGED <<now, attempts, faults, guesses, unrecorded, cleared>>
<1>1. PICK k \in Keys : Refuse(p, k) /\ Checking(p)
  <2>1. req[p].ip \in Keys \/ ~Checking(p)
    BY DEF IInv, KeysAreKnown, Keys
  <2>2. UserKey(p) \in Keys \/ pc[p] # "checkUser"
    BY GateAssumption DEF GateAssumption, IInv, TypeOK, Request, KeysAreKnown, Keys, UserKey
  <2> QED
    BY <2>1, <2>2 DEF Refused, Checking
<1>2. PICK t \in Clocks(p) : events' = Pruned(k, t)
  BY <1>1 DEF Refuse
<1>3. events' \subseteq events /\ \A e \in events \ events' : Faded(e)
  BY <1>2, PruneFacts
<1> QED
  BY <1>1, <1>3 DEF Refused, Refuse, history

\* Both checks forget what is over, and end in an exception, in the next check,
\* in a login, or in a guess.
NewGuess(p) == [id |-> req[p].id, keys |-> KeysOf(p), ts |-> now]

LEMMA CheckFacts ==
  ASSUME IInv, NEW p \in Procs, CheckIp(p) \/ CheckUser(p)
  PROVE  /\ events' \subseteq events /\ (\A e \in events \ events' : Faded(e)) /\ faults' \in Nat
         /\ Checking(p) /\ UNCHANGED <<now, attempts, unrecorded, cleared>>
         /\ \/ /\ \E point \in {"raised", "reset", "checkUser"} :
                     Goto(p, point) /\ (point = "checkUser" => UserKey(p) # Blank)
               /\ guesses' = guesses
            \/ Goto(p, "recordIp") /\ guesses' = guesses \cup {NewGuess(p)}
<1>1. Judge(p) => \/ (\E point \in {"raised", "reset"} : Goto(p, point)) /\ guesses' = guesses
                  \/ Goto(p, "recordIp") /\ guesses' = guesses \cup {NewGuess(p)}
  BY DEF Judge, NewGuess
<1>2. CASE CheckIp(p)
  <2>1. req[p].ip \in Keys
    BY <1>2 DEF CheckIp, IInv, KeysAreKnown, Checking, Keys
  <2>2. events' \subseteq events /\ (\A e \in events \ events' : Faded(e)) /\ faults' \in Nat
    BY <1>2, <2>1, PassFacts DEF CheckIp
  <2>3. Judge(p) \/ (UserKey(p) # Blank /\ Goto(p, "checkUser") /\ guesses' = guesses)
    BY <1>2 DEF CheckIp
  <2>4. Checking(p) /\ UNCHANGED <<now, attempts, unrecorded, cleared>>
    BY <1>2 DEF CheckIp, Checking
  <2> QED
    BY <1>1, <2>2, <2>3, <2>4
<1>3. CASE CheckUser(p)
  <2>1. UserKey(p) \in Keys
    BY <1>3, GateAssumption
       DEF CheckUser, GateAssumption, IInv, TypeOK, Request, KeysAreKnown, Keys, UserKey
  <2>2. events' \subseteq events /\ (\A e \in events \ events' : Faded(e)) /\ faults' \in Nat
    BY <1>3, <2>1, PassFacts DEF CheckUser
  <2>3. Checking(p) /\ UNCHANGED <<now, attempts, unrecorded, cleared>> /\ Judge(p)
    BY <1>3 DEF CheckUser, Checking
  <2> QED
    BY <1>1, <2>2, <2>3
<1> QED
  BY <1>2, <1>3

\* A record is written or not; then comes the account's, or the end.
RecordKey(p) == IF pc[p] = "recordIp" THEN req[p].ip ELSE UserKey(p)

LEMMA RecordFacts ==
  ASSUME IInv, NEW p \in Procs, Record(p)
  PROVE  /\ Recording(p) /\ RecordKey(p) \in Keys /\ faults' \in Nat
         /\ UNCHANGED <<now, attempts, guesses, cleared>>
         /\ \/ /\ \E t \in Nat : /\ since[p] <= t /\ t <= now
                                 /\ events' = events \cup {[id |-> req[p].id, key |-> RecordKey(p), ts |-> t]}
               /\ unrecorded' = unrecorded
            \/ events' = events /\ unrecorded' = unrecorded \cup {<<req[p].id, RecordKey(p)>>}
         /\ \/ pc[p] = "recordIp" /\ UserKey(p) # Blank /\ Goto(p, "recordUser")
            \/ (pc[p] = "recordUser" \/ UserKey(p) = Blank) /\ Finish(p)
<1>1. Recording(p)
  BY DEF Record, Recording
<1>2. RecordKey(p) \in Keys
  BY <1>1, GateAssumption
     DEF GateAssumption, IInv, TypeOK, Request, KeysAreKnown, Keys, UserKey, RecordKey, Recording
<1>3. \/ /\ \E t \in Clocks(p) : events' = events \cup {[id |-> req[p].id, key |-> RecordKey(p), ts |-> t]}
         /\ UNCHANGED <<faults, unrecorded>>
      \/ Fault /\ UNCHANGED events /\ unrecorded' = unrecorded \cup {<<req[p].id, RecordKey(p)>>}
  BY DEF Record, RecordKey
<1>4. \A t \in Clocks(p) : t \in Nat /\ since[p] <= t /\ t <= now
  BY DEF Clocks, IInv, TypeOK
<1>5. faults' \in Nat
  BY <1>3 DEF Fault, IInv, TypeOK
<1>6. \/ pc[p] = "recordIp" /\ UserKey(p) # Blank /\ Goto(p, "recordUser")
      \/ (pc[p] = "recordUser" \/ UserKey(p) = Blank) /\ Finish(p)
  BY <1>1 DEF Record, Recording
<1> QED
  BY <1>1, <1>2, <1>3, <1>4, <1>5, <1>6 DEF Record

-----------------------------------------------------------------------------
\* An attempt that is over leaves the others apart.
LEMMA FinishKeepsIds ==
  ASSUME IInv, NEW p \in Procs, Finish(p), UNCHANGED <<attempts, guesses>>
  PROVE  AttemptsDiffer'
<1>1. /\ req'[p].id = 0 /\ pc'[p] = "idle"
      /\ \A q \in Procs : q # p => pc'[q] = pc[q] /\ req'[q] = req[q]
  BY FinishFacts DEF IInv
<1>2. attempts \in Nat
  BY DEF IInv, TypeOK
<1> QED
  BY <1>1, <1>2 DEF IInv, AttemptsDiffer, Checking, Recording

LEMMA StepTypeOK == IInv /\ [Next]_vars => TypeOK'
<1> SUFFICES ASSUME IInv, [Next]_vars PROVE TypeOK'
  OBVIOUS
<1> USE GateAssumption DEF IInv, TypeOK, Points, Request, Event, Guess, Secrets, Keys, NoRequest, history, UserKey, KeysOf, GateAssumption, KeysAreKnown, Recording, Checking
<1>1. ASSUME NEW p \in Procs, Submit(p) PROVE TypeOK'
  BY <1>1 DEF Submit
<1>2. ASSUME NEW p \in Procs, Malformed(p) PROVE TypeOK'
  <2>1. /\ Finish(p) \/ Goto(p, "raised")
        /\ UNCHANGED <<now, attempts, events, guesses, unrecorded, cleared>> /\ faults' \in Nat
    BY <1>2 DEF Malformed, Fault
  <2>2. CASE Finish(p)
    BY <2>1, <2>2, FinishFacts
  <2>3. CASE Goto(p, "raised")
    BY <2>1, <2>3, GotoFacts
  <2> QED
    BY <2>1, <2>2, <2>3
<1>3. ASSUME NEW p \in Procs, CheckIp(p) PROVE TypeOK'
  <2>1. /\ events' \subseteq events /\ faults' \in Nat /\ Checking(p)
        /\ UNCHANGED <<now, attempts, unrecorded, cleared>>
    BY <1>3, CheckFacts
  <2>2. ASSUME NEW point \in {"raised", "reset", "checkUser"}, Goto(p, point), guesses' = guesses,
               point = "checkUser" => UserKey(p) # Blank
        PROVE  TypeOK'
    BY <2>1, <2>2, GotoFacts
  <2>3. ASSUME Goto(p, "recordIp"), guesses' = guesses \cup {NewGuess(p)} PROVE TypeOK'
    BY <2>1, <2>3, GotoFacts DEF NewGuess
  <2> QED
    BY <1>3, <2>2, <2>3, CheckFacts
<1>4. ASSUME NEW p \in Procs, CheckUser(p) PROVE TypeOK'
  <2>1. /\ events' \subseteq events /\ faults' \in Nat /\ Checking(p)
        /\ UNCHANGED <<now, attempts, unrecorded, cleared>>
    BY <1>4, CheckFacts
  <2>2. ASSUME NEW point \in {"raised", "reset", "checkUser"}, Goto(p, point), guesses' = guesses,
               point = "checkUser" => UserKey(p) # Blank
        PROVE  TypeOK'
    BY <2>1, <2>2, GotoFacts
  <2>3. ASSUME Goto(p, "recordIp"), guesses' = guesses \cup {NewGuess(p)} PROVE TypeOK'
    BY <2>1, <2>3, GotoFacts DEF NewGuess
  <2> QED
    BY <1>4, <2>2, <2>3, CheckFacts
<1>5. ASSUME NEW p \in Procs, Refused(p) PROVE TypeOK'
  <2>1. /\ events' \subseteq events /\ Finish(p)
        /\ UNCHANGED <<now, attempts, faults, guesses, unrecorded, cleared>>
    BY <1>5, RefuseFacts
  <2> QED
    BY <2>1, FinishFacts
<1>6. ASSUME NEW p \in Procs, Record(p) PROVE TypeOK'
  <2>1. /\ Recording(p) /\ RecordKey(p) \in Keys /\ faults' \in Nat
        /\ UNCHANGED <<now, attempts, guesses, cleared>>
    BY <1>6, RecordFacts
  <2>2. \/ /\ \E t \in Nat : /\ since[p] <= t
                           /\ events' = events \cup {[id |-> req[p].id, key |-> RecordKey(p), ts |-> t]}
           /\ unrecorded' = unrecorded
        \/ events' = events /\ unrecorded' = unrecorded \cup {<<req[p].id, RecordKey(p)>>}
    BY <1>6, RecordFacts
  <2>3. CASE pc[p] = "recordIp" /\ Goto(p, "recordUser")
    BY <2>1, <2>2, <2>3, GotoFacts
  <2>4. CASE Finish(p)
    BY <2>1, <2>2, <2>4, FinishFacts
  <2> QED
    BY <1>6, <2>3, <2>4, RecordFacts
<1>7. ASSUME NEW p \in Procs, Reset(p) PROVE TypeOK'
  BY <1>7 DEF Reset, ResetRows, EventsOf, Goto, UserKey, Fault
<1>8. ASSUME NEW p \in Procs, Issue(p) PROVE TypeOK'
  <2>1. /\ Finish(p) \/ Goto(p, "raised")
        /\ UNCHANGED <<now, attempts, events, guesses, unrecorded, cleared>> /\ faults' \in Nat
    BY <1>8 DEF Issue, Fault
  <2>2. CASE Finish(p)
    BY <2>1, <2>2, FinishFacts
  <2>3. CASE Goto(p, "raised")
    BY <2>1, <2>3, GotoFacts
  <2> QED
    BY <2>1, <2>2, <2>3
<1>9. ASSUME NEW p \in Procs, Unhandled(p) PROVE TypeOK'
  BY <1>9 DEF Unhandled, Finish
<1>10. ASSUME NEW p \in Procs, Crash(p) PROVE TypeOK'
  BY <1>10 DEF Crash, Finish, KeysOf, UserKey, Fault
<1>11. ASSUME Sweep PROVE TypeOK'
  BY <1>11 DEF Sweep, Swept
<1>12. ASSUME Tick PROVE TypeOK'
  BY <1>12 DEF Tick
<1>13. CASE UNCHANGED vars
  BY <1>13 DEF vars
<1> QED
  BY <1>1, <1>2, <1>3, <1>4, <1>5, <1>6, <1>7, <1>8, <1>9, <1>10, <1>11, <1>12, <1>13 DEF Next, Attempt

LEMMA StepClocks == IInv /\ [Next]_vars => ClocksAreRead'
<1> SUFFICES ASSUME IInv, [Next]_vars PROVE ClocksAreRead'
  OBVIOUS
<1> USE GateAssumption DEF IInv, TypeOK, Request, Event, Guess, Keys, NoRequest, history, Recording, Checking, UserKey, KeysOf, GateAssumption, ClocksAreRead
<1>1. ASSUME NEW p \in Procs, Submit(p) PROVE ClocksAreRead'
  BY <1>1 DEF Submit
<1>2. ASSUME NEW p \in Procs, Malformed(p) PROVE ClocksAreRead'
  <2>1. UNCHANGED now /\ (Finish(p) \/ \E point \in Points : Goto(p, point))
    BY <1>2 DEF Malformed, Points
  <2>2. since'[p] \in {0, now} /\ \A q \in Procs : q # p => since'[q] = since[q]
    BY <2>1, FinishFacts, GotoFacts
  <2> QED
    BY <2>1, <2>2
<1>3. ASSUME NEW p \in Procs, CheckIp(p) PROVE ClocksAreRead'
  <2>1. UNCHANGED now /\ \E point \in Points : Goto(p, point)
    BY <1>3, CheckFacts DEF Points
  <2>2. since'[p] = now /\ \A q \in Procs : q # p => since'[q] = since[q]
    BY <2>1, GotoFacts
  <2> QED
    BY <2>1, <2>2
<1>4. ASSUME NEW p \in Procs, CheckUser(p) PROVE ClocksAreRead'
  <2>1. UNCHANGED now /\ \E point \in Points : Goto(p, point)
    BY <1>4, CheckFacts DEF Points
  <2>2. since'[p] = now /\ \A q \in Procs : q # p => since'[q] = since[q]
    BY <2>1, GotoFacts
  <2> QED
    BY <2>1, <2>2
<1>5. ASSUME NEW p \in Procs, Refused(p) PROVE ClocksAreRead'
  <2>1. UNCHANGED now /\ (Finish(p) \/ \E point \in Points : Goto(p, point))
    BY <1>5, RefuseFacts
  <2>2. since'[p] \in {0, now} /\ \A q \in Procs : q # p => since'[q] = since[q]
    BY <2>1, FinishFacts, GotoFacts
  <2> QED
    BY <2>1, <2>2
<1>6. ASSUME NEW p \in Procs, Record(p) PROVE ClocksAreRead'
  <2>1. UNCHANGED now /\ (Finish(p) \/ \E point \in Points : Goto(p, point))
    BY <1>6, RecordFacts DEF Points
  <2>2. since'[p] \in {0, now} /\ \A q \in Procs : q # p => since'[q] = since[q]
    BY <2>1, FinishFacts, GotoFacts
  <2> QED
    BY <2>1, <2>2
<1>7. ASSUME NEW p \in Procs, Reset(p) PROVE ClocksAreRead'
  <2>1. UNCHANGED now /\ (Finish(p) \/ \E point \in Points : Goto(p, point))
    BY <1>7 DEF Reset, Points
  <2>2. since'[p] \in {0, now} /\ \A q \in Procs : q # p => since'[q] = since[q]
    BY <2>1, FinishFacts, GotoFacts
  <2> QED
    BY <2>1, <2>2
<1>8. ASSUME NEW p \in Procs, Issue(p) PROVE ClocksAreRead'
  <2>1. UNCHANGED now /\ (Finish(p) \/ \E point \in Points : Goto(p, point))
    BY <1>8 DEF Issue, Points
  <2>2. since'[p] \in {0, now} /\ \A q \in Procs : q # p => since'[q] = since[q]
    BY <2>1, FinishFacts, GotoFacts
  <2> QED
    BY <2>1, <2>2
<1>9. ASSUME NEW p \in Procs, Unhandled(p) PROVE ClocksAreRead'
  <2>1. UNCHANGED now /\ (Finish(p) \/ \E point \in Points : Goto(p, point))
    BY <1>9 DEF Unhandled, Points
  <2>2. since'[p] \in {0, now} /\ \A q \in Procs : q # p => since'[q] = since[q]
    BY <2>1, FinishFacts, GotoFacts
  <2> QED
    BY <2>1, <2>2
<1>10. ASSUME NEW p \in Procs, Crash(p) PROVE ClocksAreRead'
  <2>1. UNCHANGED now /\ (Finish(p) \/ \E point \in Points : Goto(p, point))
    BY <1>10 DEF Crash, Points
  <2>2. since'[p] \in {0, now} /\ \A q \in Procs : q # p => since'[q] = since[q]
    BY <2>1, FinishFacts, GotoFacts
  <2> QED
    BY <2>1, <2>2
<1>11. ASSUME Sweep PROVE ClocksAreRead'
  BY <1>11 DEF Sweep, Swept
<1>12. ASSUME Tick PROVE ClocksAreRead'
  BY <1>12 DEF Tick
<1>13. CASE UNCHANGED vars
  BY <1>13 DEF vars
<1> QED
  BY <1>1, <1>2, <1>3, <1>4, <1>5, <1>6, <1>7, <1>8, <1>9, <1>10, <1>11, <1>12, <1>13 DEF Next, Attempt

LEMMA StepKeys == IInv /\ [Next]_vars => KeysAreKnown'
<1> SUFFICES ASSUME IInv, [Next]_vars PROVE KeysAreKnown'
  OBVIOUS
<1> USE GateAssumption DEF IInv, TypeOK, Request, Event, Guess, Keys, NoRequest, history, Recording, Checking, UserKey, KeysOf, GateAssumption, KeysAreKnown
<1>1. ASSUME NEW p \in Procs, Submit(p) PROVE KeysAreKnown'
  BY <1>1 DEF Submit
<1>2. ASSUME NEW p \in Procs, Malformed(p) PROVE KeysAreKnown'
  BY <1>2 DEF Malformed, Finish, Goto
<1>3. ASSUME NEW p \in Procs, CheckIp(p) PROVE KeysAreKnown'
  BY <1>3 DEF CheckIp, Judge, Goto, KeysOf, UserKey, Pass, Pruned, EventsOf, Clocks, Fault
<1>4. ASSUME NEW p \in Procs, CheckUser(p) PROVE KeysAreKnown'
  BY <1>4 DEF CheckUser, Judge, Goto, KeysOf, UserKey, Pass, Pruned, EventsOf, Clocks, Fault
<1>5. ASSUME NEW p \in Procs, Refused(p) PROVE KeysAreKnown'
  BY <1>5 DEF Refused, Refuse, Finish, Pass, Pruned, EventsOf, Clocks, Fault
<1>6. ASSUME NEW p \in Procs, Record(p) PROVE KeysAreKnown'
  BY <1>6 DEF Record, Goto, Finish, UserKey, Clocks, Fault
<1>7. ASSUME NEW p \in Procs, Reset(p) PROVE KeysAreKnown'
  BY <1>7 DEF Reset, ResetRows, EventsOf, Goto, UserKey, Fault
<1>8. ASSUME NEW p \in Procs, Issue(p) PROVE KeysAreKnown'
  BY <1>8 DEF Issue, Goto, Finish, Fault
<1>9. ASSUME NEW p \in Procs, Unhandled(p) PROVE KeysAreKnown'
  BY <1>9 DEF Unhandled, Finish
<1>10. ASSUME NEW p \in Procs, Crash(p) PROVE KeysAreKnown'
  BY <1>10 DEF Crash, Finish, KeysOf, UserKey, Fault
<1>11. ASSUME Sweep PROVE KeysAreKnown'
  BY <1>11 DEF Sweep, Swept
<1>12. ASSUME Tick PROVE KeysAreKnown'
  BY <1>12 DEF Tick
<1>13. CASE UNCHANGED vars
  BY <1>13 DEF vars
<1> QED
  BY <1>1, <1>2, <1>3, <1>4, <1>5, <1>6, <1>7, <1>8, <1>9, <1>10, <1>11, <1>12, <1>13 DEF Next, Attempt

LEMMA StepAttempts == IInv /\ [Next]_vars => AttemptsDiffer'
<1> SUFFICES ASSUME IInv, [Next]_vars PROVE AttemptsDiffer'
  OBVIOUS
<1> USE GateAssumption DEF IInv, TypeOK, Request, Event, Guess, Keys, NoRequest, history, Recording, Checking, UserKey, KeysOf, GateAssumption, AttemptsDiffer
<1>1. ASSUME NEW p \in Procs, Submit(p) PROVE AttemptsDiffer'
  BY <1>1 DEF Submit
<1>2. ASSUME NEW p \in Procs, Malformed(p) PROVE AttemptsDiffer'
  <2>1. /\ Finish(p) \/ Goto(p, "raised")
        /\ UNCHANGED <<now, attempts, events, guesses, unrecorded, cleared>> /\ faults' \in Nat
    BY <1>2 DEF Malformed, Fault
  <2>2. CASE Finish(p)
    <3>1. /\ req'[p].id = 0 /\ pc'[p] = "idle"
          /\ \A q \in Procs : q # p => pc'[q] = pc[q] /\ since'[q] = since[q] /\ req'[q] = req[q]
      BY <2>2, FinishFacts
    <3> QED
      BY <2>1, <3>1
  <2>3. CASE Goto(p, "raised")
    <3>1. /\ req' = req /\ pc'[p] = "raised" /\ since'[p] = now
          /\ \A q \in Procs : q # p => pc'[q] = pc[q] /\ since'[q] = since[q]
      BY <2>3, GotoFacts DEF Points
    <3> QED
      BY <2>1, <3>1
  <2> QED
    BY <2>1, <2>2, <2>3
<1>3. ASSUME NEW p \in Procs, CheckIp(p) PROVE AttemptsDiffer'
  BY <1>3 DEF CheckIp, Judge, Goto, KeysOf, UserKey, Pass, Pruned, EventsOf, Clocks, Fault
<1>4. ASSUME NEW p \in Procs, CheckUser(p) PROVE AttemptsDiffer'
  BY <1>4 DEF CheckUser, Judge, Goto, KeysOf, UserKey, Pass, Pruned, EventsOf, Clocks, Fault
<1>5. ASSUME NEW p \in Procs, Refused(p) PROVE AttemptsDiffer'
  BY <1>5, RefuseFacts, FinishKeepsIds
<1>6. ASSUME NEW p \in Procs, Record(p) PROVE AttemptsDiffer'
  <2>1. Recording(p) /\ UNCHANGED <<attempts, guesses>>
    BY <1>6, RecordFacts
  <2>2. CASE pc[p] = "recordIp" /\ Goto(p, "recordUser")
    <3>1. req' = req /\ pc'[p] = "recordUser" /\ \A q \in Procs : q # p => pc'[q] = pc[q]
      BY <2>2, GotoFacts DEF Points
    <3> QED
      BY <2>1, <2>2, <3>1
  <2>3. CASE Finish(p)
    BY <2>1, <2>3, FinishKeepsIds
  <2> QED
    BY <1>6, <2>2, <2>3, RecordFacts
<1>7. ASSUME NEW p \in Procs, Reset(p) PROVE AttemptsDiffer'
  BY <1>7 DEF Reset, ResetRows, EventsOf, Goto, UserKey, Fault
<1>8. ASSUME NEW p \in Procs, Issue(p) PROVE AttemptsDiffer'
  <2>1. /\ Finish(p) \/ Goto(p, "raised")
        /\ UNCHANGED <<now, attempts, events, guesses, unrecorded, cleared>> /\ faults' \in Nat
    BY <1>8 DEF Issue, Fault
  <2>2. CASE Finish(p)
    <3>1. /\ req'[p].id = 0 /\ pc'[p] = "idle"
          /\ \A q \in Procs : q # p => pc'[q] = pc[q] /\ since'[q] = since[q] /\ req'[q] = req[q]
      BY <2>2, FinishFacts
    <3> QED
      BY <2>1, <3>1
  <2>3. CASE Goto(p, "raised")
    <3>1. /\ req' = req /\ pc'[p] = "raised" /\ since'[p] = now
          /\ \A q \in Procs : q # p => pc'[q] = pc[q] /\ since'[q] = since[q]
      BY <2>3, GotoFacts DEF Points
    <3> QED
      BY <2>1, <3>1
  <2> QED
    BY <2>1, <2>2, <2>3
<1>9. ASSUME NEW p \in Procs, Unhandled(p) PROVE AttemptsDiffer'
  BY <1>9 DEF Unhandled, Finish
<1>10. ASSUME NEW p \in Procs, Crash(p) PROVE AttemptsDiffer'
  BY <1>10 DEF Crash, Finish, KeysOf, UserKey, Fault
<1>11. ASSUME Sweep PROVE AttemptsDiffer'
  BY <1>11 DEF Sweep, Swept
<1>12. ASSUME Tick PROVE AttemptsDiffer'
  BY <1>12 DEF Tick
<1>13. CASE UNCHANGED vars
  BY <1>13 DEF vars
<1> QED
  BY <1>1, <1>2, <1>3, <1>4, <1>5, <1>6, <1>7, <1>8, <1>9, <1>10, <1>11, <1>12, <1>13 DEF Next, Attempt

\* A process that neither checks nor records leaves the others judged.
LEMMA OthersJudged ==
  ASSUME IInv, NEW p \in Procs, pc'[p] \notin {"checkIp", "checkUser", "recordIp", "recordUser"},
         \A q \in Procs : q # p => pc'[q] = pc[q] /\ since'[q] = since[q] /\ req'[q] = req[q],
         guesses' = guesses
  PROVE  GuessedWhenJudged'
<1> SUFFICES ASSUME NEW q \in Procs
             PROVE  /\ Checking(q)' => \A g \in guesses' : g.id # req'[q].id
                    /\ Recording(q)' =>
                          /\ \E g \in guesses' : g.id = req'[q].id /\ g.keys = KeysOf(q)'
                          /\ \A g \in guesses' : g.id = req'[q].id => g.ts <= since'[q] /\ g.keys = KeysOf(q)'
  BY DEF GuessedWhenJudged
<1>1. CASE q = p
  BY <1>1 DEF Checking, Recording
<1>2. CASE q # p
  <2>1. pc'[q] = pc[q] /\ since'[q] = since[q] /\ req'[q] = req[q]
    BY <1>2
  <2>2. KeysOf(q)' = KeysOf(q) /\ Checking(q)' = Checking(q) /\ Recording(q)' = Recording(q)
    BY <2>1 DEF KeysOf, UserKey, Checking, Recording
  <2> QED
    BY <2>1, <2>2 DEF IInv, GuessedWhenJudged
<1> QED
  BY <1>1, <1>2

LEMMA StepGuessed == IInv /\ [Next]_vars => GuessedWhenJudged'
<1> SUFFICES ASSUME IInv, [Next]_vars PROVE GuessedWhenJudged'
  OBVIOUS
<1> USE GateAssumption DEF IInv, TypeOK, Request, Event, Guess, Keys, NoRequest, history, Recording, Checking, UserKey, KeysOf, GateAssumption, AttemptsDiffer, GuessedWhenJudged
<1>1. ASSUME NEW p \in Procs, Submit(p) PROVE GuessedWhenJudged'
  BY <1>1 DEF Submit
<1>2. ASSUME NEW p \in Procs, Malformed(p) PROVE GuessedWhenJudged'
  <2>1. guesses' = guesses /\ (Finish(p) \/ \E point \in {"raised", "issue"} : Goto(p, point))
    BY <1>2 DEF Malformed
  <2>2. /\ pc'[p] \in {"idle", "raised", "issue"}
        /\ \A q \in Procs : q # p => pc'[q] = pc[q] /\ since'[q] = since[q] /\ req'[q] = req[q]
    BY <2>1, FinishFacts, GotoFacts DEF Points
  <2> QED
    BY <2>1, <2>2, OthersJudged
<1>3. ASSUME NEW p \in Procs, CheckIp(p) PROVE GuessedWhenJudged'
  <2>1. /\ events' \subseteq events /\ faults' \in Nat /\ Checking(p)
        /\ UNCHANGED <<now, attempts, unrecorded, cleared>>
    BY <1>3, CheckFacts
  <2>2. ASSUME NEW point \in {"raised", "reset", "checkUser"}, Goto(p, point), guesses' = guesses,
               point = "checkUser" => UserKey(p) # Blank
        PROVE  GuessedWhenJudged'
    <3>1. /\ req' = req /\ pc'[p] = point /\ since'[p] = now
          /\ \A q \in Procs : q # p => pc'[q] = pc[q] /\ since'[q] = since[q]
      BY <2>2, GotoFacts DEF Points
    <3> QED
      BY <2>1, <3>1, <2>2
  <2>3. ASSUME Goto(p, "recordIp"), guesses' = guesses \cup {NewGuess(p)} PROVE GuessedWhenJudged'
    <3>1. /\ req' = req /\ pc'[p] = "recordIp" /\ since'[p] = now
          /\ \A q \in Procs : q # p => pc'[q] = pc[q] /\ since'[q] = since[q]
      BY <2>3, GotoFacts DEF Points
    <3>2. \A g \in guesses' : g \in guesses \/ g = NewGuess(p)
      BY <2>3
    <3>3. /\ NewGuess(p).id = req[p].id /\ NewGuess(p).keys = KeysOf(p) /\ NewGuess(p).ts = now
          /\ NewGuess(p) \in guesses' /\ KeysOf(p)' = KeysOf(p)
      BY <2>3, <3>1 DEF NewGuess
    <3>4. \A g \in guesses : g.id # req[p].id
      BY <2>1
    <3>5. \A g \in guesses' : g.id = req'[p].id => g.ts <= since'[p] /\ g.keys = KeysOf(p)'
      BY <3>1, <3>2, <3>3, <3>4
    <3>6. ASSUME NEW q \in Procs, q # p, Checking(q)' \/ Recording(q)'
          PROVE  req[q].id # req[p].id /\ req'[q] = req[q] /\ since'[q] = since[q] /\ pc'[q] = pc[q]
      BY <2>1, <3>1, <3>6
    <3>7. ASSUME NEW q \in Procs, q # p, Checking(q)', NEW g \in guesses' PROVE g.id # req'[q].id
      BY <3>2, <3>3, <3>6, <3>7
    <3>8. ASSUME NEW q \in Procs, q # p, Recording(q)'
          PROVE  /\ \E g \in guesses' : g.id = req'[q].id /\ g.keys = KeysOf(q)'
                 /\ \A g \in guesses' : g.id = req'[q].id => g.ts <= since'[q] /\ g.keys = KeysOf(q)'
      <4>1. Recording(q) /\ KeysOf(q)' = KeysOf(q)
        BY <3>6, <3>8
      <4> QED
        BY <4>1, <2>3, <3>2, <3>3, <3>6, <3>8
    <3>9. ~Checking(p)'
      BY <3>1
    <3>10. ASSUME NEW q \in Procs
           PROVE  /\ Checking(q)' => \A g \in guesses' : g.id # req'[q].id
                  /\ Recording(q)' =>
                        /\ \E g \in guesses' : g.id = req'[q].id /\ g.keys = KeysOf(q)'
                        /\ \A g \in guesses' : g.id = req'[q].id => g.ts <= since'[q] /\ g.keys = KeysOf(q)'
      <4>1. CASE q = p
        <5>1. \E g \in guesses' : g.id = req'[p].id /\ g.keys = KeysOf(p)'
          BY <3>1, <3>3
        <5> QED
          BY <4>1, <5>1, <3>5, <3>9
      <4>2. CASE q # p
        BY <4>2, <3>7, <3>8
      <4> QED
        BY <4>1, <4>2
    <3> QED
      BY <3>10 DEF GuessedWhenJudged
  <2> QED
    BY <1>3, <2>2, <2>3, CheckFacts
<1>4. ASSUME NEW p \in Procs, CheckUser(p) PROVE GuessedWhenJudged'
  <2>1. /\ events' \subseteq events /\ faults' \in Nat /\ Checking(p)
        /\ UNCHANGED <<now, attempts, unrecorded, cleared>>
    BY <1>4, CheckFacts
  <2>2. ASSUME NEW point \in {"raised", "reset", "checkUser"}, Goto(p, point), guesses' = guesses,
               point = "checkUser" => UserKey(p) # Blank
        PROVE  GuessedWhenJudged'
    <3>1. /\ req' = req /\ pc'[p] = point /\ since'[p] = now
          /\ \A q \in Procs : q # p => pc'[q] = pc[q] /\ since'[q] = since[q]
      BY <2>2, GotoFacts DEF Points
    <3> QED
      BY <2>1, <3>1, <2>2
  <2>3. ASSUME Goto(p, "recordIp"), guesses' = guesses \cup {NewGuess(p)} PROVE GuessedWhenJudged'
    <3>1. /\ req' = req /\ pc'[p] = "recordIp" /\ since'[p] = now
          /\ \A q \in Procs : q # p => pc'[q] = pc[q] /\ since'[q] = since[q]
      BY <2>3, GotoFacts DEF Points
    <3>2. \A g \in guesses' : g \in guesses \/ g = NewGuess(p)
      BY <2>3
    <3>3. /\ NewGuess(p).id = req[p].id /\ NewGuess(p).keys = KeysOf(p) /\ NewGuess(p).ts = now
          /\ NewGuess(p) \in guesses' /\ KeysOf(p)' = KeysOf(p)
      BY <2>3, <3>1 DEF NewGuess
    <3>4. \A g \in guesses : g.id # req[p].id
      BY <2>1
    <3>5. \A g \in guesses' : g.id = req'[p].id => g.ts <= since'[p] /\ g.keys = KeysOf(p)'
      BY <3>1, <3>2, <3>3, <3>4
    <3>6. ASSUME NEW q \in Procs, q # p, Checking(q)' \/ Recording(q)'
          PROVE  req[q].id # req[p].id /\ req'[q] = req[q] /\ since'[q] = since[q] /\ pc'[q] = pc[q]
      BY <2>1, <3>1, <3>6
    <3>7. ASSUME NEW q \in Procs, q # p, Checking(q)', NEW g \in guesses' PROVE g.id # req'[q].id
      BY <3>2, <3>3, <3>6, <3>7
    <3>8. ASSUME NEW q \in Procs, q # p, Recording(q)'
          PROVE  /\ \E g \in guesses' : g.id = req'[q].id /\ g.keys = KeysOf(q)'
                 /\ \A g \in guesses' : g.id = req'[q].id => g.ts <= since'[q] /\ g.keys = KeysOf(q)'
      <4>1. Recording(q) /\ KeysOf(q)' = KeysOf(q)
        BY <3>6, <3>8
      <4> QED
        BY <4>1, <2>3, <3>2, <3>3, <3>6, <3>8
    <3>9. ~Checking(p)'
      BY <3>1
    <3>10. ASSUME NEW q \in Procs
           PROVE  /\ Checking(q)' => \A g \in guesses' : g.id # req'[q].id
                  /\ Recording(q)' =>
                        /\ \E g \in guesses' : g.id = req'[q].id /\ g.keys = KeysOf(q)'
                        /\ \A g \in guesses' : g.id = req'[q].id => g.ts <= since'[q] /\ g.keys = KeysOf(q)'
      <4>1. CASE q = p
        <5>1. \E g \in guesses' : g.id = req'[p].id /\ g.keys = KeysOf(p)'
          BY <3>1, <3>3
        <5> QED
          BY <4>1, <5>1, <3>5, <3>9
      <4>2. CASE q # p
        BY <4>2, <3>7, <3>8
      <4> QED
        BY <4>1, <4>2
    <3> QED
      BY <3>10 DEF GuessedWhenJudged
  <2> QED
    BY <1>4, <2>2, <2>3, CheckFacts
<1>5. ASSUME NEW p \in Procs, Refused(p) PROVE GuessedWhenJudged'
  <2>1. guesses' = guesses /\ (Finish(p) \/ \E point \in {"raised", "issue"} : Goto(p, point))
    BY <1>5, RefuseFacts
  <2>2. /\ pc'[p] \in {"idle", "raised", "issue"}
        /\ \A q \in Procs : q # p => pc'[q] = pc[q] /\ since'[q] = since[q] /\ req'[q] = req[q]
    BY <2>1, FinishFacts, GotoFacts DEF Points
  <2> QED
    BY <2>1, <2>2, OthersJudged
<1>6. ASSUME NEW p \in Procs, Record(p) PROVE GuessedWhenJudged'
  <2>1. /\ Recording(p) /\ RecordKey(p) \in Keys /\ faults' \in Nat
        /\ UNCHANGED <<now, attempts, guesses, cleared>>
    BY <1>6, RecordFacts
  <2>2. \/ /\ \E t \in Nat : /\ since[p] <= t
                           /\ events' = events \cup {[id |-> req[p].id, key |-> RecordKey(p), ts |-> t]}
           /\ unrecorded' = unrecorded
        \/ events' = events /\ unrecorded' = unrecorded \cup {<<req[p].id, RecordKey(p)>>}
    BY <1>6, RecordFacts
  <2>3. CASE pc[p] = "recordIp" /\ Goto(p, "recordUser")
    <3>1. /\ req' = req /\ pc'[p] = "recordUser" /\ since'[p] = now
          /\ \A q \in Procs : q # p => pc'[q] = pc[q] /\ since'[q] = since[q]
      BY <2>3, GotoFacts DEF Points
    <3>2. since[p] \in Nat /\ now \in Nat /\ since[p] <= now
      BY DEF ClocksAreRead
    <3>3. \A g \in guesses : g.ts \in Nat
      OBVIOUS
    <3>4. KeysOf(p)' = KeysOf(p) /\ \A q \in Procs : KeysOf(q)' = KeysOf(q)
      BY <3>1
    <3> QED
      BY <2>1, <3>1, <2>3, <3>2, <3>3, <3>4
  <2>4. CASE Finish(p)
    <3>1. /\ pc'[p] = "idle"
          /\ \A q \in Procs : q # p => pc'[q] = pc[q] /\ since'[q] = since[q] /\ req'[q] = req[q]
      BY <2>4, FinishFacts
    <3> QED
      BY <2>1, <3>1, OthersJudged
  <2> QED
    BY <1>6, <2>3, <2>4, RecordFacts
<1>7. ASSUME NEW p \in Procs, Reset(p) PROVE GuessedWhenJudged'
  <2>1. guesses' = guesses /\ (Finish(p) \/ \E point \in {"raised", "issue"} : Goto(p, point))
    BY <1>7 DEF Reset
  <2>2. /\ pc'[p] \in {"idle", "raised", "issue"}
        /\ \A q \in Procs : q # p => pc'[q] = pc[q] /\ since'[q] = since[q] /\ req'[q] = req[q]
    BY <2>1, FinishFacts, GotoFacts DEF Points
  <2> QED
    BY <2>1, <2>2, OthersJudged
<1>8. ASSUME NEW p \in Procs, Issue(p) PROVE GuessedWhenJudged'
  <2>1. guesses' = guesses /\ (Finish(p) \/ \E point \in {"raised", "issue"} : Goto(p, point))
    BY <1>8 DEF Issue
  <2>2. /\ pc'[p] \in {"idle", "raised", "issue"}
        /\ \A q \in Procs : q # p => pc'[q] = pc[q] /\ since'[q] = since[q] /\ req'[q] = req[q]
    BY <2>1, FinishFacts, GotoFacts DEF Points
  <2> QED
    BY <2>1, <2>2, OthersJudged
<1>9. ASSUME NEW p \in Procs, Unhandled(p) PROVE GuessedWhenJudged'
  <2>1. guesses' = guesses /\ (Finish(p) \/ \E point \in {"raised", "issue"} : Goto(p, point))
    BY <1>9 DEF Unhandled
  <2>2. /\ pc'[p] \in {"idle", "raised", "issue"}
        /\ \A q \in Procs : q # p => pc'[q] = pc[q] /\ since'[q] = since[q] /\ req'[q] = req[q]
    BY <2>1, FinishFacts, GotoFacts DEF Points
  <2> QED
    BY <2>1, <2>2, OthersJudged
<1>10. ASSUME NEW p \in Procs, Crash(p) PROVE GuessedWhenJudged'
  <2>1. guesses' = guesses /\ (Finish(p) \/ \E point \in {"raised", "issue"} : Goto(p, point))
    BY <1>10 DEF Crash
  <2>2. /\ pc'[p] \in {"idle", "raised", "issue"}
        /\ \A q \in Procs : q # p => pc'[q] = pc[q] /\ since'[q] = since[q] /\ req'[q] = req[q]
    BY <2>1, FinishFacts, GotoFacts DEF Points
  <2> QED
    BY <2>1, <2>2, OthersJudged
<1>11. ASSUME Sweep PROVE GuessedWhenJudged'
  BY <1>11 DEF Sweep, Swept
<1>12. ASSUME Tick PROVE GuessedWhenJudged'
  BY <1>12 DEF Tick
<1>13. CASE UNCHANGED vars
  BY <1>13 DEF vars
<1> QED
  BY <1>1, <1>2, <1>3, <1>4, <1>5, <1>6, <1>7, <1>8, <1>9, <1>10, <1>11, <1>12, <1>13 DEF Next, Attempt

LEMMA StepRows == IInv /\ [Next]_vars => RowsFollowGuesses'
<1> SUFFICES ASSUME IInv, [Next]_vars PROVE RowsFollowGuesses'
  OBVIOUS
<1> USE GateAssumption DEF IInv, TypeOK, Request, Event, Guess, Keys, NoRequest, history, Recording, Checking, UserKey, KeysOf, GateAssumption, AttemptsDiffer, GuessedWhenJudged, OnlyGuessesAreCharged, RowsFollowGuesses
<1>1. ASSUME NEW p \in Procs, Submit(p) PROVE RowsFollowGuesses'
  BY <1>1 DEF Submit
<1>2. ASSUME NEW p \in Procs, Malformed(p) PROVE RowsFollowGuesses'
  BY <1>2 DEF Malformed, Finish, Goto
<1>3. ASSUME NEW p \in Procs, CheckIp(p) PROVE RowsFollowGuesses'
  <2>1. events' \subseteq events /\ (guesses' = guesses \/ guesses' = guesses \cup {NewGuess(p)}) /\ Checking(p)
    BY <1>3, CheckFacts
  <2>2. \A e \in events : e.id # req[p].id
    BY <2>1
  <2> QED
    BY <2>1, <2>2 DEF NewGuess
<1>4. ASSUME NEW p \in Procs, CheckUser(p) PROVE RowsFollowGuesses'
  <2>1. events' \subseteq events /\ (guesses' = guesses \/ guesses' = guesses \cup {NewGuess(p)}) /\ Checking(p)
    BY <1>4, CheckFacts
  <2>2. \A e \in events : e.id # req[p].id
    BY <2>1
  <2> QED
    BY <2>1, <2>2 DEF NewGuess
<1>5. ASSUME NEW p \in Procs, Refused(p) PROVE RowsFollowGuesses'
  BY <1>5 DEF Refused, Refuse, Finish, Pass, Pruned, EventsOf, Clocks, Fault
<1>6. ASSUME NEW p \in Procs, Record(p) PROVE RowsFollowGuesses'
  BY <1>6 DEF Record, Goto, Finish, UserKey, Clocks, Fault
<1>7. ASSUME NEW p \in Procs, Reset(p) PROVE RowsFollowGuesses'
  BY <1>7 DEF Reset, ResetRows, EventsOf, Goto, UserKey, Fault
<1>8. ASSUME NEW p \in Procs, Issue(p) PROVE RowsFollowGuesses'
  BY <1>8 DEF Issue, Goto, Finish, Fault
<1>9. ASSUME NEW p \in Procs, Unhandled(p) PROVE RowsFollowGuesses'
  BY <1>9 DEF Unhandled, Finish
<1>10. ASSUME NEW p \in Procs, Crash(p) PROVE RowsFollowGuesses'
  BY <1>10 DEF Crash, Finish, KeysOf, UserKey, Fault
<1>11. ASSUME Sweep PROVE RowsFollowGuesses'
  BY <1>11 DEF Sweep, Swept
<1>12. ASSUME Tick PROVE RowsFollowGuesses'
  BY <1>12 DEF Tick
<1>13. CASE UNCHANGED vars
  BY <1>13 DEF vars
<1> QED
  BY <1>1, <1>2, <1>3, <1>4, <1>5, <1>6, <1>7, <1>8, <1>9, <1>10, <1>11, <1>12, <1>13 DEF Next, Attempt

LEMMA StepCharged == IInv /\ [Next]_vars => OnlyGuessesAreCharged'
<1> SUFFICES ASSUME IInv, [Next]_vars PROVE OnlyGuessesAreCharged'
  OBVIOUS
<1> USE GateAssumption DEF IInv, TypeOK, Request, Event, Guess, Keys, NoRequest, history, Recording, Checking, UserKey, KeysOf, GateAssumption, GuessedWhenJudged, OnlyGuessesAreCharged
<1>1. ASSUME NEW p \in Procs, Submit(p) PROVE OnlyGuessesAreCharged'
  BY <1>1 DEF Submit
<1>2. ASSUME NEW p \in Procs, Malformed(p) PROVE OnlyGuessesAreCharged'
  BY <1>2 DEF Malformed, Finish, Goto
<1>3. ASSUME NEW p \in Procs, CheckIp(p) PROVE OnlyGuessesAreCharged'
  BY <1>3 DEF CheckIp, Judge, Goto, KeysOf, UserKey, Pass, Pruned, EventsOf, Clocks, Fault
<1>4. ASSUME NEW p \in Procs, CheckUser(p) PROVE OnlyGuessesAreCharged'
  BY <1>4 DEF CheckUser, Judge, Goto, KeysOf, UserKey, Pass, Pruned, EventsOf, Clocks, Fault
<1>5. ASSUME NEW p \in Procs, Refused(p) PROVE OnlyGuessesAreCharged'
  BY <1>5 DEF Refused, Refuse, Finish, Pass, Pruned, EventsOf, Clocks, Fault
<1>6. ASSUME NEW p \in Procs, Record(p) PROVE OnlyGuessesAreCharged'
  <2>1. Recording(p) /\ RecordKey(p) \in Keys /\ UNCHANGED guesses
    BY <1>6, RecordFacts
  <2>2. \A e \in events' : e \in events \/ (e.id = req[p].id /\ e.key = RecordKey(p))
    BY <1>6, RecordFacts
  <2>3. RecordKey(p) \in KeysOf(p)
    BY <2>1 DEF RecordKey
  <2> QED
    BY <2>1, <2>2, <2>3
<1>7. ASSUME NEW p \in Procs, Reset(p) PROVE OnlyGuessesAreCharged'
  BY <1>7 DEF Reset, ResetRows, EventsOf, Goto, UserKey, Fault
<1>8. ASSUME NEW p \in Procs, Issue(p) PROVE OnlyGuessesAreCharged'
  BY <1>8 DEF Issue, Goto, Finish, Fault
<1>9. ASSUME NEW p \in Procs, Unhandled(p) PROVE OnlyGuessesAreCharged'
  BY <1>9 DEF Unhandled, Finish
<1>10. ASSUME NEW p \in Procs, Crash(p) PROVE OnlyGuessesAreCharged'
  BY <1>10 DEF Crash, Finish, KeysOf, UserKey, Fault
<1>11. ASSUME Sweep PROVE OnlyGuessesAreCharged'
  BY <1>11 DEF Sweep, Swept
<1>12. ASSUME Tick PROVE OnlyGuessesAreCharged'
  BY <1>12 DEF Tick
<1>13. CASE UNCHANGED vars
  BY <1>13 DEF vars
<1> QED
  BY <1>1, <1>2, <1>3, <1>4, <1>5, <1>6, <1>7, <1>8, <1>9, <1>10, <1>11, <1>12, <1>13 DEF Next, Attempt

-----------------------------------------------------------------------------
\* FailuresStayCounted for one guess and key.
Counted(g, k) ==
    \/ \E e \in events : e.id = g.id /\ e.key = k
    \/ <<g.id, k>> \in unrecorded \cup cleared
    \/ g.ts < now - Period[k]
    \/ \E p \in Entering(k) : req[p].id = g.id

\* A guess stays counted in a step that takes its row only for cause, and its
\* process only for a row, or for the note that there is none.
LEMMA KeepsCounting ==
  ASSUME IInv, NEW g \in guesses, NEW k \in g.keys,
         unrecorded \subseteq unrecorded', cleared \subseteq cleared', now' \in Nat, now <= now',
         \A e \in events \ events' : Faded(e) \/ <<e.id, e.key>> \in cleared',
         \A p \in Entering(k) : req[p].id = g.id =>
             \/ p \in Entering(k)' /\ req'[p].id = g.id
             \/ \E e \in events' : e.id = g.id /\ e.key = k
             \/ <<g.id, k>> \in unrecorded'
  PROVE  Counted(g, k)'
<1>1. Counted(g, k)
  BY DEF IInv, FailuresStayCounted, Counted
<1>2. k \in Keys /\ g.ts \in Nat /\ now \in Nat
  BY DEF IInv, TypeOK, Guess
<1>3. Period[k] \in Nat
  BY <1>2, GateAssumption DEF GateAssumption
<1>4. CASE \E e \in events : e.id = g.id /\ e.key = k
  <2>1. PICK e \in events : e.id = g.id /\ e.key = k
    BY <1>4
  <2>2. e.ts \in Nat /\ g.ts <= e.ts
    BY <2>1 DEF IInv, TypeOK, Event, RowsFollowGuesses
  <2>3. CASE Faded(e)
    <3>1. g.ts < now' - Period[k]
      BY <1>2, <1>3, <2>1, <2>2, <2>3 DEF Faded
    <3> QED
      BY <3>1 DEF Counted
  <2> QED
    BY <2>1, <2>3 DEF Counted
<1>5. CASE <<g.id, k>> \in unrecorded \cup cleared
  BY <1>5 DEF Counted
<1>6. CASE g.ts < now - Period[k]
  <2>1. g.ts < now' - Period[k]
    BY <1>2, <1>3, <1>6
  <2> QED
    BY <2>1 DEF Counted
<1>7. CASE \E p \in Entering(k) : req[p].id = g.id
  BY <1>7 DEF Counted
<1> QED
  BY <1>1, <1>4, <1>5, <1>6, <1>7 DEF Counted

\* A process that is not recording has nothing to record, and the others stay.
LEMMA OthersStay ==
  ASSUME IInv, NEW p \in Procs, ~Recording(p), NEW g \in guesses, NEW k,
         \A q \in Procs : q # p => pc'[q] = pc[q] /\ req'[q] = req[q],
         NEW q \in Entering(k), req[q].id = g.id
  PROVE  q \in Entering(k)' /\ req'[q].id = g.id
<1>1. q # p
  BY DEF IInv, GuessedWhenJudged, Entering, Recording, Checking
<1> QED
  BY <1>1 DEF Entering, UserKey

\* So a step of a process that is not recording keeps a guess counted.
LEMMA OthersCount ==
  ASSUME IInv, NEW p \in Procs, ~Recording(p), NEW g \in guesses, NEW k \in g.keys,
         \A q \in Procs : q # p => pc'[q] = pc[q] /\ req'[q] = req[q],
         unrecorded \subseteq unrecorded', cleared \subseteq cleared', now' = now,
         \A e \in events \ events' : Faded(e) \/ <<e.id, e.key>> \in cleared'
  PROVE  Counted(g, k)'
<1>1. now' \in Nat /\ now <= now'
  BY DEF IInv, TypeOK
<1>2. \A q \in Entering(k) : req[q].id = g.id =>
          \/ q \in Entering(k)' /\ req'[q].id = g.id
          \/ \E e \in events' : e.id = g.id /\ e.key = k
          \/ <<g.id, k>> \in unrecorded'
  <2>1. ASSUME NEW q \in Entering(k), req[q].id = g.id PROVE q \in Entering(k)' /\ req'[q].id = g.id
    BY <2>1, OthersStay
  <2> QED
    BY <2>1
<1> QED
  BY <1>1, <1>2, KeepsCounting

LEMMA StepCounted == IInv /\ [Next]_vars => FailuresStayCounted'
<1> SUFFICES ASSUME IInv, [Next]_vars, NEW g \in guesses', NEW k \in g.keys PROVE Counted(g, k)'
  BY DEF FailuresStayCounted, Counted
<1> USE GateAssumption DEF history
<1>0. now \in Nat /\ \A e \in events : e.ts \in Nat /\ e.key \in Keys
  BY DEF IInv, TypeOK, Event
<1>1. ASSUME NEW p \in Procs, Submit(p) PROVE Counted(g, k)'
  <2>1. ~Recording(p) /\ \A q \in Procs : q # p => pc'[q] = pc[q] /\ req'[q] = req[q]
    BY <1>1 DEF Submit, Recording, IInv, TypeOK
  <2> QED
    BY <1>0, <1>1, <2>1, OthersCount DEF Submit
<1>2. ASSUME NEW p \in Procs, Malformed(p) PROVE Counted(g, k)'
  <2>1. ~Recording(p) /\ \A q \in Procs : q # p => pc'[q] = pc[q] /\ req'[q] = req[q]
    BY <1>2 DEF Malformed, Finish, Goto, Recording, IInv, TypeOK
  <2> QED
    BY <1>0, <1>2, <2>1, OthersCount DEF Malformed
<1>3. ASSUME NEW p \in Procs, CheckIp(p) \/ CheckUser(p) PROVE Counted(g, k)'
  <2>1. /\ events' \subseteq events /\ (\A e \in events \ events' : Faded(e)) /\ Checking(p)
        /\ UNCHANGED <<now, unrecorded, cleared>>
    BY <1>3, CheckFacts
  <2>2. \E point \in Points : Goto(p, point)
    BY <1>3, CheckFacts DEF Points
  <2>3. ~Recording(p) /\ req' = req /\ \A q \in Procs : q # p => pc'[q] = pc[q]
    BY <2>1, <2>2, GotoFacts DEF Checking, Recording, IInv
  <2>4. CASE g \in guesses
    BY <1>0, <2>1, <2>3, <2>4, OthersCount
  <2>5. CASE g \notin guesses
    <3>1. Goto(p, "recordIp") /\ g = NewGuess(p)
      BY <1>3, <2>5, CheckFacts
    <3>2. pc'[p] = "recordIp" /\ (k = req[p].ip \/ k = UserKey(p)) /\ req'[p].id = g.id
      BY <3>1, <2>3, GotoFacts DEF NewGuess, KeysOf, Points, IInv
    <3>3. p \in Entering(k)'
      BY <3>2, <2>3 DEF Entering, UserKey
    <3> QED
      BY <3>2, <3>3 DEF Counted
  <2> QED
    BY <2>4, <2>5
<1>4. ASSUME NEW p \in Procs, Refused(p) PROVE Counted(g, k)'
  <2>1. /\ events' \subseteq events /\ (\A e \in events \ events' : Faded(e)) /\ ~Recording(p)
        /\ UNCHANGED <<now, guesses, unrecorded, cleared>>
    BY <1>4, RefuseFacts DEF Checking, Recording
  <2>2. \A q \in Procs : q # p => pc'[q] = pc[q] /\ req'[q] = req[q]
    BY <1>4, RefuseFacts, FinishFacts DEF IInv
  <2> QED
    BY <1>0, <2>1, <2>2, OthersCount
<1>5. ASSUME NEW p \in Procs, Record(p) PROVE Counted(g, k)'
  <2>1. Recording(p) /\ UNCHANGED <<now, guesses, cleared>> /\ events \subseteq events'
    BY <1>5, RecordFacts
  <2>2. unrecorded \subseteq unrecorded'
    BY <1>5, RecordFacts
  <2>3. \/ \E e \in events' : e.id = req[p].id /\ e.key = RecordKey(p)
        \/ <<req[p].id, RecordKey(p)>> \in unrecorded'
    <3>1. CASE \E t \in Nat : events' = events \cup {[id |-> req[p].id, key |-> RecordKey(p), ts |-> t]}
      <4>1. PICK t \in Nat : events' = events \cup {[id |-> req[p].id, key |-> RecordKey(p), ts |-> t]}
        BY <3>1
      <4>2. [id |-> req[p].id, key |-> RecordKey(p), ts |-> t] \in events'
        BY <4>1
      <4> QED
        BY <4>2
    <3>2. CASE unrecorded' = unrecorded \cup {<<req[p].id, RecordKey(p)>>}
      BY <3>2
    <3> QED
      BY <1>5, <3>1, <3>2, RecordFacts
  <2>4. \A q \in Procs : q # p => pc'[q] = pc[q] /\ req'[q] = req[q]
    BY <1>5, RecordFacts, FinishFacts, GotoFacts DEF IInv, Points
  <2>5. ASSUME NEW q \in Entering(k), req[q].id = g.id
        PROVE  \/ q \in Entering(k)' /\ req'[q].id = g.id
               \/ \E e \in events' : e.id = g.id /\ e.key = k
               \/ <<g.id, k>> \in unrecorded'
    <3>1. CASE q # p
      BY <2>4, <2>5, <3>1 DEF Entering, UserKey
    <3>2. CASE q = p /\ k = RecordKey(p)
      BY <2>3, <2>5, <3>2
    <3>3. CASE q = p /\ k # RecordKey(p)
      <4>1. pc[p] = "recordIp" /\ UserKey(p) = k
        BY <2>1, <2>5, <3>3 DEF Entering, RecordKey, Recording
      <4>2. k # Blank
        BY <2>1, GateAssumption DEF GateAssumption, IInv, TypeOK, Guess
      <4>3. Goto(p, "recordUser")
        BY <1>5, <4>1, <4>2, RecordFacts
      <4>4. pc'[p] = "recordUser" /\ req' = req
        BY <4>3, GotoFacts DEF IInv, Points
      <4> QED
        BY <2>5, <3>3, <4>1, <4>4 DEF Entering, UserKey
    <3> QED
      BY <3>1, <3>2, <3>3
  <2> QED
    BY <1>0, <2>1, <2>2, <2>5, KeepsCounting
<1>6. ASSUME NEW p \in Procs, Reset(p) PROVE Counted(g, k)'
  <2>1. ~Recording(p) /\ UNCHANGED <<now, guesses, unrecorded>> /\ cleared \subseteq cleared'
    BY <1>6 DEF Reset, Recording
  <2>2. \A e \in events : e \in events' \/ <<e.id, e.key>> \in cleared'
    BY <1>6 DEF Reset, ResetRows, EventsOf
  <2>3. \A q \in Procs : q # p => pc'[q] = pc[q] /\ req'[q] = req[q]
    BY <1>6, GotoFacts DEF Reset, IInv, Points
  <2> QED
    BY <1>0, <2>1, <2>2, <2>3, OthersCount
<1>7. ASSUME NEW p \in Procs, Issue(p) \/ Unhandled(p) PROVE Counted(g, k)'
  <2>1. ~Recording(p) /\ UNCHANGED <<now, events, guesses, unrecorded, cleared>>
    BY <1>7 DEF Issue, Unhandled, Recording
  <2>2. Finish(p) \/ Goto(p, "raised")
    BY <1>7 DEF Issue, Unhandled
  <2>3. \A q \in Procs : q # p => pc'[q] = pc[q] /\ req'[q] = req[q]
    BY <2>2, FinishFacts, GotoFacts DEF IInv, Points
  <2> QED
    BY <1>0, <2>1, <2>3, OthersCount
<1>8. ASSUME NEW p \in Procs, Crash(p) PROVE Counted(g, k)'
  <2>1. UNCHANGED <<now, events, guesses, cleared>> /\ unrecorded \subseteq unrecorded'
    BY <1>8 DEF Crash
  <2>2. \A q \in Procs : q # p => pc'[q] = pc[q] /\ req'[q] = req[q]
    BY <1>8, FinishFacts DEF Crash, IInv
  <2>3. ASSUME NEW q \in Entering(k), req[q].id = g.id
        PROVE  (q \in Entering(k)' /\ req'[q].id = g.id) \/ <<g.id, k>> \in unrecorded'
    <3>1. CASE q # p
      BY <2>2, <2>3, <3>1 DEF Entering, UserKey
    <3>2. CASE q = p
      <4>1. Recording(p) /\ k # Blank
        BY <2>1, <2>3, <3>2, GateAssumption
           DEF GateAssumption, IInv, TypeOK, Guess, GuessedWhenJudged, Entering, Recording, Checking
      <4>2. CASE pc[p] = "recordIp"
        <5>1. k \in KeysOf(p)
          BY <2>3, <3>2, <4>1, <4>2 DEF Entering, KeysOf
        <5> QED
          BY <1>8, <2>3, <3>2, <4>2, <5>1 DEF Crash
      <4>3. CASE pc[p] = "recordUser"
        <5>1. k = UserKey(p)
          BY <2>3, <3>2, <4>3 DEF Entering
        <5> QED
          BY <1>8, <2>3, <3>2, <4>3, <5>1 DEF Crash
      <4> QED
        BY <4>1, <4>2, <4>3 DEF Recording
    <3> QED
      BY <3>1, <3>2
  <2> QED
    BY <1>0, <2>1, <2>3, KeepsCounting
<1>9. CASE Sweep
  <2>1. /\ UNCHANGED <<now, pc, req, guesses, unrecorded, cleared>>
        /\ \E t \in 0..now : events' = {e \in events : e.ts >= t - MaxPeriodSeen}
    BY <1>9 DEF Sweep, Swept
  <2>2. \A e \in events : Period[e.key] \in Nat /\ Period[e.key] <= MaxPeriodSeen /\ MaxPeriodSeen \in Nat
    BY <1>0, GateAssumption DEF GateAssumption
  <2>3. \A e \in events \ events' : Faded(e)
    BY <1>0, <2>1, <2>2 DEF Faded
  <2>4. \A q \in Entering(k) : q \in Entering(k)' /\ req'[q] = req[q]
    BY <2>1 DEF Entering, UserKey
  <2>5. /\ g \in guesses /\ now' \in Nat /\ now <= now'
        /\ unrecorded \subseteq unrecorded' /\ cleared \subseteq cleared'
    BY <1>0, <2>1
  <2> QED
    BY <2>3, <2>4, <2>5, KeepsCounting
<1>10. CASE Tick \/ UNCHANGED vars
  <2>1. UNCHANGED <<events, pc, req, guesses, unrecorded, cleared>> /\ now' \in Nat /\ now <= now'
    BY <1>0, <1>10 DEF Tick, vars
  <2>2. \A q \in Entering(k) : q \in Entering(k)' /\ req'[q] = req[q]
    BY <2>1 DEF Entering, UserKey
  <2> QED
    BY <1>0, <2>1, <2>2, KeepsCounting
<1> QED
  BY <1>1, <1>2, <1>3, <1>4, <1>5, <1>6, <1>7, <1>8, <1>9, <1>10 DEF Next, Attempt

-----------------------------------------------------------------------------
LEMMA InitHolds == Init => IInv
<1> SUFFICES ASSUME Init PROVE IInv
  OBVIOUS
<1> USE GateAssumption DEF Init
<1>1. NoRequest \in Request /\ NoRequest.id = 0
  BY GateAssumption DEF GateAssumption, NoRequest, Request, Secrets
<1>2. TypeOK
  BY <1>1 DEF TypeOK, Points
<1>3. ClocksAreRead /\ KeysAreKnown /\ GuessedWhenJudged
  BY DEF ClocksAreRead, KeysAreKnown, GuessedWhenJudged, Checking, Recording
<1>4. AttemptsDiffer
  BY <1>1 DEF AttemptsDiffer, Checking, Recording
<1>5. RowsFollowGuesses /\ OnlyGuessesAreCharged /\ FailuresStayCounted
  BY DEF RowsFollowGuesses, OnlyGuessesAreCharged, FailuresStayCounted
<1> QED
  BY <1>2, <1>3, <1>4, <1>5 DEF IInv

LEMMA Inductive == Spec => []IInv
<1>1. IInv /\ [Next]_vars => IInv'
  BY StepTypeOK, StepClocks, StepKeys, StepAttempts, StepGuessed, StepRows, StepCharged, StepCounted
     DEF IInv
<1> QED
  BY <1>1, InitHolds, PTL DEF Spec

\* Every reachable state has the types TypeOK gives.
THEOREM TypeCorrect == Spec => []TypeOK
<1>1. IInv => TypeOK
  BY DEF IInv
<1> QED
  BY <1>1, Inductive, PTL

\* No attempt that is refused, or right, or raises, leaves a row in rate_events.
THEOREM OnlyFailuresCost == Spec => []OnlyGuessesAreCharged
<1>1. IInv => OnlyGuessesAreCharged
  BY DEF IInv
<1> QED
  BY <1>1, Inductive, PTL

\* A wrong password counts against its address and its account for as long as the
\* window lasts, however the two processes, the sweeps and the logins interleave.
THEOREM FailuresCount == Spec => []FailuresStayCounted
<1>1. IInv => FailuresStayCounted
  BY DEF IInv
<1> QED
  BY <1>1, Inductive, PTL

-----------------------------------------------------------------------------
(***************************************************************************)
(* GuessesWithinBudget looks at the history.  The invariant behind it      *)
(* charges a key what the next check sees, the inserts that failed, and    *)
(* the attempts between their check and their row; a check that lets an    *)
(* attempt pass starts the sum afresh, from fewer rows than the limit.     *)
(***************************************************************************)
UnrecordedOf(k) == {u \in unrecorded : u[2] = k}

GuessesDiffer == \A g, h \in guesses : g.id = h.id => g = h

FaultsPay == \A k \in Keys : Cardinality(UnrecordedOf(k)) <= faults

Charge(k) ==
    Cardinality(EventsOf(events, k)) + Cardinality(UnrecordedOf(k)) + Cardinality(Entering(k))

Budget(k) == Limit[k] + Cardinality(Procs) - 1 + faults

ChargesWithinBudget == \A k \in Keys : Charge(k) <= Budget(k)

BudgetInv ==
    /\ IsFiniteSet(events) /\ IsFiniteSet(unrecorded)
    /\ GuessesDiffer
    /\ FaultsPay
    /\ ChargesWithinBudget

\* Part of a finite set, and a finite set with one more element.
LEMMA Part ==
  ASSUME NEW S, NEW T, IsFiniteSet(S), T \subseteq S
  PROVE  /\ IsFiniteSet(T) /\ Cardinality(T) \in Nat /\ Cardinality(S) \in Nat
         /\ Cardinality(T) <= Cardinality(S)
  BY FS_Subset, FS_CardinalityType

LEMMA OneMore ==
  ASSUME NEW S, NEW T, NEW x, IsFiniteSet(S), T \subseteq S \cup {x}
  PROVE  /\ IsFiniteSet(T) /\ Cardinality(T) \in Nat /\ Cardinality(S) \in Nat
         /\ Cardinality(T) <= Cardinality(S) + 1
<1>1. /\ IsFiniteSet(S \cup {x}) /\ Cardinality(S) \in Nat
      /\ Cardinality(S \cup {x}) = IF x \in S THEN Cardinality(S) ELSE Cardinality(S) + 1
  BY FS_AddElement, FS_CardinalityType
<1>2. /\ IsFiniteSet(T) /\ Cardinality(T) \in Nat
      /\ Cardinality(T) <= Cardinality(S \cup {x})
  BY <1>1, Part
<1> QED
  BY <1>1, <1>2

\* The cardinality of a union is at most the sum of the cardinalities.
LEMMA UnionCardinality ==
  ASSUME NEW S, NEW T, IsFiniteSet(S), IsFiniteSet(T)
  PROVE  IsFiniteSet(S \cup T) /\ Cardinality(S \cup T) <= Cardinality(S) + Cardinality(T)
<1>1. /\ IsFiniteSet(S \cup T) /\ IsFiniteSet(S \cap T)
      /\ Cardinality(S \cup T) = Cardinality(S) + Cardinality(T) - Cardinality(S \cap T)
  BY FS_Union, FS_Intersection
<1>2. Cardinality(S) \in Nat /\ Cardinality(T) \in Nat /\ Cardinality(S \cap T) \in Nat
  BY <1>1, FS_CardinalityType
<1> QED
  BY <1>1, <1>2

\* Everything the invariant counts is finite.
LEMMA Finiteness ==
  ASSUME IInv, BudgetInv, NEW k \in Keys
  PROVE  /\ IsFiniteSet(EventsOf(events, k)) /\ Cardinality(EventsOf(events, k)) \in Nat
         /\ IsFiniteSet(UnrecordedOf(k)) /\ Cardinality(UnrecordedOf(k)) \in Nat
         /\ IsFiniteSet(Entering(k)) /\ Cardinality(Entering(k)) \in Nat
         /\ Cardinality(Procs) \in Nat /\ Limit[k] \in Nat /\ faults \in Nat
<1>1. EventsOf(events, k) \subseteq events /\ UnrecordedOf(k) \subseteq unrecorded
  BY DEF EventsOf, UnrecordedOf
<1>2. Entering(k) \subseteq Procs /\ IsFiniteSet(Procs) /\ Limit[k] \in Nat
  BY GateAssumption DEF GateAssumption, Entering
<1> QED
  BY <1>1, <1>2, Part DEF BudgetInv, IInv, TypeOK

\* What BudgetInv says of one key after a step.
Kept(k) == Cardinality(UnrecordedOf(k)) <= faults /\ Charge(k) <= Budget(k)

\* Steps that charge k nothing.
LEMMA NothingCharged ==
  ASSUME IInv, BudgetInv, NEW k \in Keys,
         EventsOf(events, k)' \subseteq EventsOf(events, k), unrecorded' = unrecorded,
         Entering(k)' \subseteq Entering(k), faults' \in Nat, faults' >= faults
  PROVE  Kept(k)'
<1>1. UnrecordedOf(k)' = UnrecordedOf(k)
  BY DEF UnrecordedOf
<1>2. /\ Cardinality(EventsOf(events, k)') <= Cardinality(EventsOf(events, k))
      /\ Cardinality(EventsOf(events, k)') \in Nat
      /\ Cardinality(Entering(k)') <= Cardinality(Entering(k)) /\ Cardinality(Entering(k)') \in Nat
  BY Finiteness, Part
<1>3. /\ Cardinality(UnrecordedOf(k)) <= faults
      /\ Cardinality(EventsOf(events, k)) + Cardinality(UnrecordedOf(k)) + Cardinality(Entering(k))
            <= Limit[k] + Cardinality(Procs) - 1 + faults
  BY DEF BudgetInv, FaultsPay, ChargesWithinBudget, Charge, Budget
<1>4. /\ Charge(k)' = Cardinality(EventsOf(events, k)') + Cardinality(UnrecordedOf(k)) + Cardinality(Entering(k)')
      /\ Budget(k)' = Limit[k] + Cardinality(Procs) - 1 + faults'
  BY <1>1 DEF Charge, Budget
<1> QED
  BY <1>1, <1>2, <1>3, <1>4, Finiteness DEF Kept

\* A row takes the place of an attempt that was about to write one.
LEMMA RowForAttempt ==
  ASSUME IInv, BudgetInv, NEW k \in Keys, NEW x, NEW p \in Entering(k),
         EventsOf(events, k)' \subseteq EventsOf(events, k) \cup {x}, unrecorded' = unrecorded,
         Entering(k)' \subseteq Entering(k) \ {p}, faults' \in Nat, faults' >= faults
  PROVE  Kept(k)'
<1>1. UnrecordedOf(k)' = UnrecordedOf(k)
  BY DEF UnrecordedOf
<1>2. /\ Cardinality(EventsOf(events, k)') <= Cardinality(EventsOf(events, k)) + 1
      /\ Cardinality(EventsOf(events, k)') \in Nat
  BY Finiteness, OneMore
<1>3. /\ IsFiniteSet(Entering(k) \ {p})
      /\ Cardinality(Entering(k) \ {p}) = Cardinality(Entering(k)) - 1
  BY Finiteness, FS_RemoveElement
<1>4. Cardinality(Entering(k)') <= Cardinality(Entering(k)) - 1 /\ Cardinality(Entering(k)') \in Nat
  BY <1>3, Part
<1>5. /\ Cardinality(UnrecordedOf(k)) <= faults
      /\ Cardinality(EventsOf(events, k)) + Cardinality(UnrecordedOf(k)) + Cardinality(Entering(k))
            <= Limit[k] + Cardinality(Procs) - 1 + faults
  BY DEF BudgetInv, FaultsPay, ChargesWithinBudget, Charge, Budget
<1>6. /\ Charge(k)' = Cardinality(EventsOf(events, k)') + Cardinality(UnrecordedOf(k)) + Cardinality(Entering(k)')
      /\ Budget(k)' = Limit[k] + Cardinality(Procs) - 1 + faults'
  BY <1>1 DEF Charge, Budget
<1> QED
  BY <1>1, <1>2, <1>4, <1>5, <1>6, Finiteness DEF Kept

\* A fault pays for one insert that failed, or for one attempt let through.
LEMMA FaultPays ==
  ASSUME IInv, BudgetInv, NEW k \in Keys, NEW x,
         events' = events, faults' = faults + 1,
         \/ UnrecordedOf(k)' \subseteq UnrecordedOf(k) \cup {x} /\ Entering(k)' \subseteq Entering(k)
         \/ unrecorded' = unrecorded /\ Entering(k)' \subseteq Entering(k) \cup {x}
  PROVE  Kept(k)'
<1>1. EventsOf(events, k)' = EventsOf(events, k)
  BY DEF EventsOf
<1>2. /\ Cardinality(UnrecordedOf(k)') \in Nat /\ Cardinality(Entering(k)') \in Nat
      /\ Cardinality(UnrecordedOf(k)') <= Cardinality(UnrecordedOf(k)) + 1
      /\ Cardinality(UnrecordedOf(k)') + Cardinality(Entering(k)')
            <= Cardinality(UnrecordedOf(k)) + Cardinality(Entering(k)) + 1
  <2>1. CASE UnrecordedOf(k)' \subseteq UnrecordedOf(k) \cup {x} /\ Entering(k)' \subseteq Entering(k)
    <3>1. /\ Cardinality(UnrecordedOf(k)') <= Cardinality(UnrecordedOf(k)) + 1
          /\ Cardinality(UnrecordedOf(k)') \in Nat
      BY <2>1, Finiteness, OneMore
    <3>2. Cardinality(Entering(k)') <= Cardinality(Entering(k)) /\ Cardinality(Entering(k)') \in Nat
      BY <2>1, Finiteness, Part
    <3> QED
      BY <3>1, <3>2, Finiteness
  <2>2. CASE unrecorded' = unrecorded /\ Entering(k)' \subseteq Entering(k) \cup {x}
    <3>1. UnrecordedOf(k)' = UnrecordedOf(k)
      BY <2>2 DEF UnrecordedOf
    <3>2. Cardinality(Entering(k)') <= Cardinality(Entering(k)) + 1 /\ Cardinality(Entering(k)') \in Nat
      BY <2>2, Finiteness, OneMore
    <3> QED
      BY <3>1, <3>2, Finiteness
  <2> QED
    BY <2>1, <2>2
<1>3. /\ Cardinality(UnrecordedOf(k)) <= faults
      /\ Cardinality(EventsOf(events, k)) + Cardinality(UnrecordedOf(k)) + Cardinality(Entering(k))
            <= Limit[k] + Cardinality(Procs) - 1 + faults
  BY DEF BudgetInv, FaultsPay, ChargesWithinBudget, Charge, Budget
<1>4. /\ Charge(k)' = Cardinality(EventsOf(events, k)) + Cardinality(UnrecordedOf(k)') + Cardinality(Entering(k)')
      /\ Budget(k)' = Limit[k] + Cardinality(Procs) - 1 + faults'
  BY <1>1 DEF Charge, Budget
<1> QED
  BY <1>2, <1>3, <1>4, Finiteness DEF Kept

\* A check that saw fewer rows than the limit.
LEMMA CheckSaw ==
  ASSUME IInv, BudgetInv, NEW k \in Keys, NEW t,
         Cardinality(EventsOf(Pruned(k, t), k)) < Limit[k], events' = Pruned(k, t),
         unrecorded' = unrecorded, faults' = faults
  PROVE  Kept(k)'
<1>1. UnrecordedOf(k)' = UnrecordedOf(k)
  BY DEF UnrecordedOf
<1>2. EventsOf(events, k)' = EventsOf(Pruned(k, t), k) /\ EventsOf(Pruned(k, t), k) \subseteq events
  BY DEF EventsOf, Pruned
<1>3. Cardinality(EventsOf(events, k)') < Limit[k] /\ Cardinality(EventsOf(events, k)') \in Nat
  BY <1>2, Part DEF BudgetInv
<1>4. Cardinality(Entering(k)') <= Cardinality(Procs) /\ Cardinality(Entering(k)') \in Nat
  <2>1. Entering(k)' \subseteq Procs /\ IsFiniteSet(Procs)
    BY GateAssumption DEF GateAssumption, Entering
  <2> QED
    BY <2>1, Part
<1>5. Cardinality(UnrecordedOf(k)) <= faults
  BY DEF BudgetInv, FaultsPay
<1>6. /\ Charge(k)' = Cardinality(EventsOf(events, k)') + Cardinality(UnrecordedOf(k)) + Cardinality(Entering(k)')
      /\ Budget(k)' = Limit[k] + Cardinality(Procs) - 1 + faults
  BY <1>1 DEF Charge, Budget
<1> QED
  BY <1>1, <1>3, <1>4, <1>5, <1>6, Finiteness DEF Kept

-----------------------------------------------------------------------------
\* The other processes stay where they are on their way to a row.
LEMMA OnlyItsOwn ==
  ASSUME NEW p \in Procs, NEW k,
         \A q \in Procs : q # p => pc'[q] = pc[q] /\ req'[q] = req[q]
  PROVE  /\ Entering(k)' \subseteq Entering(k) \cup {p}
         /\ p \notin Entering(k)' => Entering(k)' \subseteq Entering(k) \ {p}
  BY DEF Entering, UserKey

LEMMA IdleIsNotEntering ==
  ASSUME NEW p \in Procs, NEW k, pc'[p] \notin {"checkUser", "recordIp", "recordUser"}
  PROVE  p \notin Entering(k)'
  BY DEF Entering

\* A check of k's limiter lets p through; the rest of the table only shrinks.
LEMMA PassKeeps ==
  ASSUME IInv, BudgetInv, NEW p \in Procs, NEW j \in Keys, Pass(p, j), NEW k \in Keys,
         unrecorded' = unrecorded, \A q \in Procs : q # p => pc'[q] = pc[q] /\ req'[q] = req[q],
         k # j => (p \in Entering(k)' => p \in Entering(k))
  PROVE  Kept(k)'
<1>1. Entering(k)' \subseteq Entering(k) \cup {p}
  BY OnlyItsOwn
<1>2. CASE k = j
  <2>1. CASE \E t \in Clocks(p) : Cardinality(EventsOf(Pruned(k, t), k)) < Limit[k]
                                   /\ events' = Pruned(k, t) /\ UNCHANGED faults
    BY <2>1, CheckSaw
  <2>2. CASE Fault /\ UNCHANGED events
    BY <1>1, <2>2, FaultPays DEF Fault
  <2> QED
    BY <1>2, <2>1, <2>2 DEF Pass
<1>3. CASE k # j
  <2>1. Entering(k)' \subseteq Entering(k)
    BY <1>1, <1>3
  <2>2. events' \subseteq events /\ faults' \in Nat
    BY PassFacts
  <2>3. EventsOf(events, k)' \subseteq EventsOf(events, k)
    BY <2>2 DEF EventsOf
  <2>4. faults' >= faults
    BY DEF Pass, Fault, IInv, TypeOK
  <2> QED
    BY <2>1, <2>2, <2>3, <2>4, NothingCharged
<1> QED
  BY <1>2, <1>3

\* Attempts that are refused, or answered, or not checked at all charge nothing.
LEMMA EndKeeps ==
  ASSUME IInv, BudgetInv, NEW p \in Procs, NEW k \in Keys,
         \A q \in Procs : q # p => pc'[q] = pc[q] /\ req'[q] = req[q],
         pc'[p] \notin {"checkUser", "recordIp", "recordUser"},
         events' \subseteq events, unrecorded' = unrecorded, faults' \in {faults, faults + 1}
  PROVE  Kept(k)'
<1>1. Entering(k)' \subseteq Entering(k) \ {p}
  BY OnlyItsOwn, IdleIsNotEntering
<1>2. EventsOf(events, k)' \subseteq EventsOf(events, k)
  BY DEF EventsOf
<1>3. faults' \in Nat /\ faults' >= faults
  BY DEF IInv, TypeOK
<1> QED
  BY <1>1, <1>2, <1>3, NothingCharged

\* A check charges its own limiter's key, and no other.
LEMMA CheckKeeps ==
  ASSUME IInv, BudgetInv, NEW p \in Procs, CheckIp(p) \/ CheckUser(p), NEW k \in Keys
  PROVE  Kept(k)'
<1>1. unrecorded' = unrecorded
  BY CheckFacts
<1>2. \E point \in {"raised", "reset", "checkUser", "recordIp"} :
          Goto(p, point) /\ (point = "checkUser" => UserKey(p) # Blank)
  BY CheckFacts
<1>3. /\ pc'[p] \in {"raised", "reset", "checkUser", "recordIp"} /\ req' = req
      /\ \A q \in Procs : q # p => pc'[q] = pc[q] /\ req'[q] = req[q]
  BY <1>2, GotoFacts DEF IInv, Points
<1>4. req[p].ip \in Keys /\ Blank \notin Keys
  BY CheckFacts, GateAssumption DEF GateAssumption, IInv, KeysAreKnown, Keys
<1>5. CASE CheckIp(p)
  <2>1. Pass(p, req[p].ip) /\ pc[p] = "checkIp"
    BY <1>5 DEF CheckIp
  <2>2. UserKey(p) # Blank => pc'[p] # "recordIp"
    <3>1. UserKey(p) # Blank => Goto(p, "checkUser")
      BY <1>5 DEF CheckIp
    <3> QED
      BY <3>1, GotoFacts DEF IInv, Points
  <2>3. ASSUME k # req[p].ip PROVE p \notin Entering(k)'
    BY <1>3, <1>4, <2>2, <2>3 DEF Entering, UserKey
  <2> QED
    BY <1>1, <1>3, <1>4, <2>1, <2>3, PassKeeps
<1>6. CASE CheckUser(p)
  <2>1. Pass(p, UserKey(p)) /\ pc[p] = "checkUser" /\ Judge(p)
    BY <1>6 DEF CheckUser
  <2>2. UserKey(p) \in Keys
    BY <2>1, GateAssumption DEF GateAssumption, IInv, TypeOK, Request, KeysAreKnown, Keys, UserKey
  <2>3. ASSUME k # UserKey(p), p \in Entering(k)' PROVE p \in Entering(k)
    BY <1>3, <2>1, <2>3 DEF Entering, UserKey
  <2> QED
    BY <1>1, <1>3, <2>1, <2>2, <2>3, PassKeeps
<1> QED
  BY <1>5, <1>6

\* An attempt that writes its row, or fails to, leaves the keys it has still to
\* be charged under: an address is never an account.
LEMMA RecordKeeps ==
  ASSUME IInv, BudgetInv, NEW p \in Procs, Record(p), NEW k \in Keys
  PROVE  Kept(k)'
<1>1. Recording(p) /\ RecordKey(p) \in Keys
  BY RecordFacts
<1>2. \A q \in Procs : q # p => pc'[q] = pc[q] /\ req'[q] = req[q]
  BY RecordFacts, FinishFacts, GotoFacts DEF IInv, Points
<1>3. pc'[p] = "idle" \/ (pc'[p] = "recordUser" /\ pc[p] = "recordIp" /\ req' = req)
  BY RecordFacts, FinishFacts, GotoFacts DEF IInv, Points
<1>4. req[p].ip \in Addresses /\ UserKey(p) \in Accounts \cup {Blank}
  BY <1>1, GateAssumption DEF GateAssumption, IInv, TypeOK, Request, KeysAreKnown, UserKey
<1>5. req[p].ip # UserKey(p)
  BY <1>4, GateAssumption DEF GateAssumption, Keys
<1>6. RecordKey(p) = k => p \in Entering(k) /\ p \notin Entering(k)'
  BY <1>1, <1>3, <1>5 DEF Entering, RecordKey, Recording, UserKey
<1>7. p \in Entering(k)' => p \in Entering(k)
  BY <1>3 DEF Entering, UserKey
<1>8. Entering(k)' \subseteq Entering(k) /\ (RecordKey(p) = k => Entering(k)' \subseteq Entering(k) \ {p})
  BY <1>2, <1>6, <1>7, OnlyItsOwn
<1>9. \/ (\E t \in Clocks(p) : events' = events \cup {[id |-> req[p].id, key |-> RecordKey(p), ts |-> t]})
         /\ UNCHANGED <<faults, unrecorded>>
      \/ /\ events' = events /\ faults' = faults + 1
         /\ unrecorded' = unrecorded \cup {<<req[p].id, RecordKey(p)>>}
  BY DEF Record, RecordKey, Fault
<1>10. CASE (\E t \in Clocks(p) : events' = events \cup {[id |-> req[p].id, key |-> RecordKey(p), ts |-> t]})
            /\ UNCHANGED <<faults, unrecorded>>
  <2>1. faults' \in Nat /\ faults' >= faults
    BY <1>10 DEF IInv, TypeOK
  <2>2. PICK t : events' = events \cup {[id |-> req[p].id, key |-> RecordKey(p), ts |-> t]}
    BY <1>10
  <2> DEFINE x == [id |-> req[p].id, key |-> RecordKey(p), ts |-> t]
  <2>3. EventsOf(events, k)' \subseteq EventsOf(events, k) \cup {x}
    BY <2>2 DEF EventsOf
  <2>4. CASE RecordKey(p) = k
    BY <1>6, <1>8, <1>10, <2>1, <2>3, <2>4, RowForAttempt
  <2>5. CASE RecordKey(p) # k
    <3>1. EventsOf(events, k)' \subseteq EventsOf(events, k)
      BY <2>2, <2>5 DEF EventsOf
    <3> QED
      BY <1>8, <1>10, <2>1, <3>1, NothingCharged
  <2> QED
    BY <2>4, <2>5
<1>11. CASE /\ events' = events /\ faults' = faults + 1
            /\ unrecorded' = unrecorded \cup {<<req[p].id, RecordKey(p)>>}
  <2>1. UnrecordedOf(k)' \subseteq UnrecordedOf(k) \cup {<<req[p].id, RecordKey(p)>>}
    BY <1>11 DEF UnrecordedOf
  <2> QED
    BY <1>8, <1>11, <2>1, FaultPays
<1> QED
  BY <1>9, <1>10, <1>11

\* A crash may lose two rows, but of two keys.
LEMMA CrashKeeps ==
  ASSUME IInv, BudgetInv, NEW p \in Procs, Crash(p), NEW k \in Keys
  PROVE  Kept(k)'
<1>1. events' = events /\ faults' = faults + 1
  BY DEF Crash, Fault
<1>2. Entering(k)' \subseteq Entering(k)
  <2>1. pc'[p] = "idle" /\ \A q \in Procs : q # p => pc'[q] = pc[q] /\ req'[q] = req[q]
    BY FinishFacts DEF Crash, IInv
  <2> QED
    BY <2>1, OnlyItsOwn, IdleIsNotEntering
<1>3. UnrecordedOf(k)' \subseteq UnrecordedOf(k) \cup {<<req[p].id, k>>}
  <2>1. \A u \in unrecorded' : u \in unrecorded \/ \E j : u = <<req[p].id, j>>
    BY DEF Crash
  <2> QED
    BY <2>1 DEF UnrecordedOf
<1> QED
  BY <1>1, <1>2, <1>3, FaultPays

LEMMA StepKept == IInv /\ BudgetInv /\ [Next]_vars => FaultsPay' /\ ChargesWithinBudget'
<1> SUFFICES ASSUME IInv, BudgetInv, [Next]_vars, NEW k \in Keys PROVE Kept(k)'
  BY DEF FaultsPay, ChargesWithinBudget, Kept
<1>1. ASSUME NEW p \in Procs, Submit(p) PROVE Kept(k)'
  <2>1. /\ pc'[p] = "checkIp" /\ \A q \in Procs : q # p => pc'[q] = pc[q] /\ req'[q] = req[q]
        /\ UNCHANGED <<events, unrecorded, faults>>
    BY <1>1 DEF Submit, history, IInv, TypeOK
  <2> QED
    BY <2>1, EndKeeps
<1>2. ASSUME NEW p \in Procs, Malformed(p) \/ Issue(p) \/ Unhandled(p) PROVE Kept(k)'
  <2>1. /\ Finish(p) \/ Goto(p, "raised")
        /\ UNCHANGED <<events, unrecorded>> /\ faults' \in {faults, faults + 1}
    BY <1>2 DEF Malformed, Issue, Unhandled, Fault, history
  <2>2. /\ pc'[p] \in {"idle", "raised"}
        /\ \A q \in Procs : q # p => pc'[q] = pc[q] /\ req'[q] = req[q]
    BY <2>1, FinishFacts, GotoFacts DEF IInv, Points
  <2> QED
    BY <2>1, <2>2, EndKeeps
<1>3. ASSUME NEW p \in Procs, Refused(p) PROVE Kept(k)'
  <2>1. events' \subseteq events /\ Finish(p) /\ UNCHANGED <<unrecorded, faults>>
    BY <1>3, RefuseFacts
  <2>2. pc'[p] = "idle" /\ \A q \in Procs : q # p => pc'[q] = pc[q] /\ req'[q] = req[q]
    BY <2>1, FinishFacts DEF IInv
  <2> QED
    BY <2>1, <2>2, EndKeeps
<1>4. ASSUME NEW p \in Procs, Reset(p) PROVE Kept(k)'
  <2>1. /\ events' \subseteq events /\ Goto(p, "issue") /\ UNCHANGED unrecorded
        /\ faults' \in {faults, faults + 1}
    BY <1>4 DEF Reset, ResetRows, Fault
  <2>2. pc'[p] = "issue" /\ \A q \in Procs : q # p => pc'[q] = pc[q] /\ req'[q] = req[q]
    BY <2>1, GotoFacts DEF IInv, Points
  <2> QED
    BY <2>1, <2>2, EndKeeps
<1>5. CASE Sweep \/ Tick \/ UNCHANGED vars
  <2>1. events' \subseteq events /\ UNCHANGED <<pc, req, unrecorded, faults>>
    BY <1>5 DEF Sweep, Swept, Tick, vars, history
  <2>2. Entering(k)' = Entering(k) /\ EventsOf(events, k)' \subseteq EventsOf(events, k)
    BY <2>1 DEF Entering, UserKey, EventsOf
  <2>3. faults' \in Nat /\ faults' >= faults
    BY <2>1 DEF IInv, TypeOK
  <2> QED
    BY <2>1, <2>2, <2>3, NothingCharged
<1> QED
  BY <1>1, <1>2, <1>3, <1>4, <1>5, CheckKeeps, RecordKeeps, CrashKeeps DEF Next, Attempt

LEMMA StepFinite ==
  IInv /\ BudgetInv /\ [Next]_vars => IsFiniteSet(events)' /\ IsFiniteSet(unrecorded)' /\ GuessesDiffer'
<1> SUFFICES ASSUME IInv, BudgetInv, [Next]_vars
             PROVE  IsFiniteSet(events') /\ IsFiniteSet(unrecorded') /\ GuessesDiffer'
  OBVIOUS
<1>1. IsFiniteSet(events) /\ IsFiniteSet(unrecorded) /\ GuessesDiffer
  BY DEF BudgetInv
<1>2. ASSUME NEW p \in Procs, Record(p)
      PROVE  IsFiniteSet(events') /\ IsFiniteSet(unrecorded') /\ GuessesDiffer'
  <2>1. guesses' = guesses /\ \E x, y : events' \subseteq events \cup {x} /\ unrecorded' \subseteq unrecorded \cup {y}
    BY <1>2, RecordFacts
  <2> QED
    BY <1>1, <2>1, OneMore DEF GuessesDiffer
<1>3. ASSUME NEW p \in Procs, CheckIp(p) \/ CheckUser(p)
      PROVE  IsFiniteSet(events') /\ IsFiniteSet(unrecorded') /\ GuessesDiffer'
  <2>1. events' \subseteq events /\ unrecorded' = unrecorded /\ Checking(p)
    BY <1>3, CheckFacts
  <2>2. \A g \in guesses' : g \in guesses \/ g = NewGuess(p)
    BY <1>3, CheckFacts
  <2>3. \A g \in guesses : g.id # NewGuess(p).id
    BY <2>1 DEF IInv, GuessedWhenJudged, NewGuess
  <2> QED
    BY <1>1, <2>1, <2>2, <2>3, Part DEF GuessesDiffer
<1>4. ASSUME NEW p \in Procs, Crash(p)
      PROVE  IsFiniteSet(events') /\ IsFiniteSet(unrecorded') /\ GuessesDiffer'
  <2>1. events' = events /\ guesses' = guesses
    BY <1>4 DEF Crash
  <2>2. unrecorded' \subseteq (unrecorded \cup {<<req[p].id, req[p].ip>>}) \cup {<<req[p].id, UserKey(p)>>}
    BY <1>4 DEF Crash, KeysOf
  <2>3. IsFiniteSet(unrecorded \cup {<<req[p].id, req[p].ip>>})
    BY <1>1, OneMore
  <2>4. IsFiniteSet(unrecorded')
    BY <2>2, <2>3, OneMore
  <2> QED
    BY <1>1, <2>1, <2>4 DEF GuessesDiffer
<1>5. ASSUME events' \subseteq events, UNCHANGED <<unrecorded, guesses>>
      PROVE  IsFiniteSet(events') /\ IsFiniteSet(unrecorded') /\ GuessesDiffer'
  BY <1>1, <1>5, Part DEF GuessesDiffer
<1>6. ASSUME NEW p \in Procs, Refused(p) PROVE events' \subseteq events /\ UNCHANGED <<unrecorded, guesses>>
  BY <1>6, RefuseFacts
<1>7. ASSUME NEW p \in Procs, Submit(p) \/ Malformed(p) \/ Reset(p) \/ Issue(p) \/ Unhandled(p)
      PROVE  events' \subseteq events /\ UNCHANGED <<unrecorded, guesses>>
  BY <1>7 DEF Submit, Malformed, Reset, ResetRows, Issue, Unhandled, history
<1>8. CASE Sweep \/ Tick \/ UNCHANGED vars
  BY <1>5, <1>8 DEF Sweep, Swept, Tick, vars, history
<1> QED
  BY <1>2, <1>3, <1>4, <1>5, <1>6, <1>7, <1>8 DEF Next, Attempt

LEMMA InitBudget == Init => BudgetInv
<1> SUFFICES ASSUME Init PROVE BudgetInv
  OBVIOUS
<1>1. IsFiniteSet({}) /\ Cardinality({}) = 0
  BY FS_EmptySet
<1>2. IsFiniteSet(events) /\ IsFiniteSet(unrecorded) /\ GuessesDiffer
  BY <1>1 DEF Init, GuessesDiffer
<1>3. ASSUME NEW k \in Keys PROVE Cardinality(UnrecordedOf(k)) <= faults /\ Charge(k) <= Budget(k)
  <2>1. EventsOf(events, k) = {} /\ UnrecordedOf(k) = {} /\ Entering(k) = {} /\ faults = 0
    BY DEF Init, EventsOf, UnrecordedOf, Entering
  <2>2. Cardinality(Procs) \in Nat \ {0} /\ Limit[k] \in Nat \ {0}
    BY GateAssumption, FS_EmptySet, FS_CardinalityType DEF GateAssumption
  <2>3. Charge(k) = 0 /\ Budget(k) = Limit[k] + Cardinality(Procs) - 1
    BY <1>1, <2>1, <2>2 DEF Charge, Budget
  <2> QED
    BY <1>1, <2>1, <2>2, <2>3
<1> QED
  BY <1>2, <1>3 DEF BudgetInv, FaultsPay, ChargesWithinBudget

LEMMA BudgetInductive == Spec => []BudgetInv
<1>1. IInv /\ BudgetInv /\ [Next]_vars => BudgetInv'
  BY StepKept, StepFinite DEF BudgetInv
<1> QED
  BY <1>1, InitBudget, Inductive, PTL DEF Spec

-----------------------------------------------------------------------------
\* The guesses of a window, each by its number, are rows, failed inserts and
\* attempts on their way to a row.
LEMMA WindowBound == IInv /\ BudgetInv => GuessesWithinBudget
<1> SUFFICES ASSUME IInv, BudgetInv, NEW k \in Keys
             PROVE  Cardinality(Window(k)) <= Limit[k] + Cardinality(Procs) - 1 + faults
  BY DEF GuessesWithinBudget
<1> DEFINE E == EventsOf(events, k)
           U == UnrecordedOf(k)
           N == Entering(k)
           IdsE == {e.id : e \in E}
           IdsU == {u[1] : u \in U}
           IdsN == {req[p].id : p \in N}
<1>1. /\ IsFiniteSet(E) /\ IsFiniteSet(U) /\ IsFiniteSet(N)
      /\ Cardinality(E) \in Nat /\ Cardinality(U) \in Nat /\ Cardinality(N) \in Nat
  BY Finiteness
<1>2. IsFiniteSet(IdsE) /\ Cardinality(IdsE) <= Cardinality(E)
  <2>1. [e \in E |-> e.id] \in Surjection(E, IdsE)
    BY DEF Surjection
  <2> QED
    BY <1>1, <2>1, FS_Surjection
<1>3. IsFiniteSet(IdsU) /\ Cardinality(IdsU) <= Cardinality(U)
  <2>1. [u \in U |-> u[1]] \in Surjection(U, IdsU)
    BY DEF Surjection
  <2> QED
    BY <1>1, <2>1, FS_Surjection
<1>4. IsFiniteSet(IdsN) /\ Cardinality(IdsN) <= Cardinality(N)
  <2>1. [p \in N |-> req[p].id] \in Surjection(N, IdsN)
    BY DEF Surjection
  <2> QED
    BY <1>1, <2>1, FS_Surjection
<1>5. ASSUME NEW g \in Window(k) PROVE g.id \in (IdsE \cup IdsU) \cup IdsN
  <2>1. /\ g \in guesses /\ k \in g.keys /\ g.ts >= now - Period[k] /\ <<g.id, k>> \notin cleared
        /\ g.ts \in Nat /\ now \in Nat /\ Period[k] \in Nat
    BY GateAssumption DEF GateAssumption, Window, IInv, TypeOK, Guess
  <2>2. \/ \E e \in events : e.id = g.id /\ e.key = k
        \/ <<g.id, k>> \in unrecorded
        \/ \E p \in Entering(k) : req[p].id = g.id
    BY <2>1 DEF IInv, FailuresStayCounted
  <2>3. CASE \E e \in events : e.id = g.id /\ e.key = k
    BY <2>3 DEF EventsOf
  <2>4. CASE <<g.id, k>> \in unrecorded
    <3>1. <<g.id, k>> \in U /\ <<g.id, k>>[1] = g.id
      BY <2>4 DEF UnrecordedOf
    <3> QED
      BY <3>1
  <2>5. CASE \E p \in Entering(k) : req[p].id = g.id
    BY <2>5
  <2> QED
    BY <2>2, <2>3, <2>4, <2>5
<1>6. [g \in Window(k) |-> g.id] \in Injection(Window(k), (IdsE \cup IdsU) \cup IdsN)
  <2>1. \A g, h \in Window(k) : g.id = h.id => g = h
    BY DEF Window, BudgetInv, GuessesDiffer
  <2> HIDE DEF E, U, N, IdsE, IdsU, IdsN
  <2> QED
    BY <1>5, <2>1 DEF Injection, IsInjective
<1>7. /\ IsFiniteSet(IdsE \cup IdsU)
      /\ Cardinality(IdsE \cup IdsU) <= Cardinality(E) + Cardinality(U)
  <2>1. /\ IsFiniteSet(IdsE \cup IdsU)
        /\ Cardinality(IdsE \cup IdsU) <= Cardinality(IdsE) + Cardinality(IdsU)
    BY <1>2, <1>3, UnionCardinality
  <2>2. /\ Cardinality(IdsE) \in Nat /\ Cardinality(IdsU) \in Nat
        /\ Cardinality(IdsE \cup IdsU) \in Nat
    BY <1>2, <1>3, <2>1, FS_CardinalityType
  <2> HIDE DEF E, U, N, IdsE, IdsU, IdsN
  <2> QED
    BY <1>1, <1>2, <1>3, <2>1, <2>2
<1>8. /\ IsFiniteSet((IdsE \cup IdsU) \cup IdsN)
      /\ Cardinality((IdsE \cup IdsU) \cup IdsN) <= Cardinality(E) + Cardinality(U) + Cardinality(N)
  <2>1. /\ IsFiniteSet((IdsE \cup IdsU) \cup IdsN)
        /\ Cardinality((IdsE \cup IdsU) \cup IdsN) <= Cardinality(IdsE \cup IdsU) + Cardinality(IdsN)
    BY <1>4, <1>7, UnionCardinality
  <2>2. /\ Cardinality(IdsE \cup IdsU) \in Nat /\ Cardinality(IdsN) \in Nat
        /\ Cardinality((IdsE \cup IdsU) \cup IdsN) \in Nat
    BY <1>4, <1>7, <2>1, FS_CardinalityType
  <2> QED
    BY <1>1, <1>4, <1>7, <2>1, <2>2
<1>9. /\ Cardinality(Window(k)) <= Cardinality((IdsE \cup IdsU) \cup IdsN)
      /\ IsFiniteSet(Window(k))
  BY <1>6, <1>8, FS_Injection
<1>10. Cardinality(E) + Cardinality(U) + Cardinality(N) <= Limit[k] + Cardinality(Procs) - 1 + faults
  BY DEF BudgetInv, ChargesWithinBudget, Charge, Budget
<1>11. /\ Cardinality(Window(k)) \in Nat /\ Cardinality((IdsE \cup IdsU) \cup IdsN) \in Nat
       /\ Cardinality(Procs) \in Nat /\ Limit[k] \in Nat /\ faults \in Nat
  BY <1>8, <1>9, Finiteness, FS_CardinalityType
<1> HIDE DEF E, U, N, IdsE, IdsU, IdsN
<1> QED
  BY <1>1, <1>8, <1>9, <1>10, <1>11

\* No more wrong passwords are compared against an address, or against an account,
\* in a period than its limit, one for every other process, and one for every
\* error and every crash: whatever the processes, limits, periods and names.
THEOREM BruteForceIsBounded == Spec => []GuessesWithinBudget
BY WindowBound, Inductive, BudgetInductive, PTL

=============================================================================
