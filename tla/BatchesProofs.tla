---------------------------- MODULE BatchesProofs ----------------------------
(***************************************************************************)
(* Proofs about the two users of the thread pool: Batches, for any number  *)
(* of devices, requests and workers and any numbers of deleted rows and of *)
(* faults, and ScanProbe, for any network, limit, pool, deadline and load, *)
(* and any numbers of moved leases and of lost probes.                     *)
(***************************************************************************)
EXTENDS Batches, ScanProbe, FiniteSetTheorems, TLAPS

\* TypeOK without the pool's limit.
Types ==
    /\ rows \subseteq Devices /\ deleted = Devices \ rows
    /\ sim \in [Devices -> Requests \cup {Factory}]
    /\ held \in [Devices -> Requests \cup {Factory}]
    /\ outdated \subseteq Devices
    /\ kind \in [Requests -> Kinds]
    /\ ids \in [Requests -> SUBSET Devices]
    /\ stage \in [Requests -> {"idle", "mapping", "commit", "answered", "error"}]
    /\ task \in [Requests -> [Devices -> Running \cup Ended \cup {"none", "queued"}]]
    /\ noted \in [Requests -> SUBSET Devices]
    /\ accepted \subseteq Requests \X Devices
    /\ audited \subseteq Requests \X Devices
    /\ overlapped \subseteq Requests /\ faults \in Nat

PoolIsBounded == Cardinality(Occupied) <= Workers

\* A request's tasks, and what devices carried out for it, are of its own rows.
TasksAreOwn ==
    \A r \in Requests :
        /\ stage[r] = "idle" => ids[r] = {}
        /\ \A d \in Devices :
              /\ task[r][d] # "none" => d \in ids[r]
              /\ <<r, d>> \in accepted => d \in ids[r]

\* A SIM task makes one call, and is "ok" when the device has accepted it.
SimTasks ==
    \A r \in Requests, d \in Devices :
        kind[r] = "sim" =>
            /\ task[r][d] \in {"none", "queued", "call", "ok", "failed", "cancelled"}
            /\ task[r][d] = "ok" => <<r, d>> \in accepted

\* Only a deleted row makes a task raise, and only its own batch cancels one.
TroubleHasCause ==
    \A r \in Requests, d \in Devices :
        /\ task[r][d] = "raised" => d \in deleted
        /\ task[r][d] = "cancelled" => stage[r] = "error"

\* What a SIM batch is about to commit was accepted.
CommitsWereAccepted ==
    \A r \in Requests :
        stage[r] = "commit" =>
            kind[r] = "sim" /\ noted[r] \subseteq ids[r] /\ \A d \in noted[r] : <<r, d>> \in accepted

AnswersAreAudited ==
    \A r \in Requests :
        (kind[r] = "upgrade" /\ stage[r] = "answered") => \A d \in ids[r] : <<r, d>> \in audited

IInv ==
    /\ Types
    /\ PoolIsBounded
    /\ TasksAreOwn
    /\ SimTasks
    /\ TroubleHasCause
    /\ CommitsWereAccepted
    /\ AnswersAreAudited
    /\ StoredWasAccepted
    /\ FailuresHaveCause

-----------------------------------------------------------------------------
TaskStates == Running \cup Ended \cup {"none", "queued"}

\* What Become leaves of every task.
LEMMA BecomeTask ==
  ASSUME Types, NEW r \in Requests, NEW d \in Devices, NEW s \in TaskStates, Become(r, d, s)
  PROVE  /\ task' \in [Requests -> [Devices -> TaskStates]]
         /\ \A q \in Requests, e \in Devices :
               task'[q][e] = IF q = r /\ e = d THEN s ELSE task[q][e]
  BY DEF Types, TaskStates, Become

LEMMA StepTypes == Types /\ [Next]_vars => Types'
<1> SUFFICES ASSUME Types, [Next]_vars PROVE Types'
  OBVIOUS
<1> USE DEF Types, Running, Ended, device, table, request
<1>1. ASSUME NEW r \in Requests, Submit(r) PROVE Types'
  <2>1. PICK D \in SUBSET Devices :
            /\ ids' = [ids EXCEPT ![r] = D \cap rows]
            /\ task' = [task EXCEPT ![r] =
                          [d \in Devices |-> IF d \in D \cap rows THEN "queued" ELSE "none"]]
    BY <1>1 DEF Submit
  <2>2. task' \in [Requests -> [Devices -> Running \cup Ended \cup {"none", "queued"}]]
    BY <2>1
  <2>3. ids' \in [Requests -> SUBSET Devices]
    BY <2>1
  <2>4. noted' \in [Requests -> SUBSET Devices]
    BY <1>1 DEF Submit
  <2>5. overlapped' \subseteq Requests
    BY <1>1 DEF Submit
  <2>6. stage' \in [Requests -> {"idle", "mapping", "commit", "answered", "error"}]
    BY <1>1 DEF Submit
  <2> QED
    BY <1>1, <2>2, <2>3, <2>4, <2>5, <2>6 DEF Submit
<1>2. ASSUME NEW r \in Requests, Answer(r) PROVE Types'
  BY <1>2 DEF Answer, Advance, Collected
<1>3. ASSUME NEW r \in Requests, Raise(r) PROVE Types'
  BY <1>3 DEF Raise, Advance, Cancel
<1>4. ASSUME NEW r \in Requests, Reload(r) PROVE Types'
  BY <1>4 DEF Reload, Advance, Collected, OkRows
<1>5. ASSUME NEW r \in Requests, Commit(r) PROVE Types'
  <2>1. sim' \in [Devices -> Requests \cup {Factory}]
    BY <1>5 DEF Commit
  <2>2. stage' \in [Requests -> {"idle", "mapping", "commit", "answered", "error"}]
    BY <1>5 DEF Commit, Advance
  <2> QED
    BY <1>5, <2>1, <2>2 DEF Commit
<1>6. ASSUME NEW r \in Requests, NEW d \in Devices, Start(r, d) PROVE Types'
  BY <1>6 DEF Start, Become
<1>7. ASSUME NEW r \in Requests, NEW d \in Devices, Auth(r, d) PROVE Types'
  <2>1. task[r][d] = "auth" /\ \E s \in {"call", "failed"} : Become(r, d, s)
    BY <1>7 DEF Auth
  <2>2. PICK s \in {"call", "failed"} : Become(r, d, s)
    BY <2>1
  <2>3. /\ task' \in [Requests -> [Devices -> TaskStates]]
        /\ \A q \in Requests, e \in Devices :
              task'[q][e] = IF q = r /\ e = d THEN s ELSE task[q][e]
    BY <2>2, BecomeTask DEF TaskStates, Running, Ended
  <2>4. faults' \in Nat /\ UNCHANGED <<held, outdated, accepted, rows, sim, deleted, kind, ids, stage,
                                      audited, overlapped, noted>>
    BY <1>7 DEF Auth, Fault
  <2> QED
    BY <2>3, <2>4 DEF TaskStates
<1>8. ASSUME NEW r \in Requests, NEW d \in Devices, Load(r, d) PROVE Types'
  BY <1>8 DEF Load, Become
<1>9. ASSUME NEW r \in Requests, NEW d \in Devices, Ask(r, d) PROVE Types'
  <2>1. task[r][d] = "ask" /\ \E s \in {"upgrading", "saved", "failed"} : Become(r, d, s)
    BY <1>9 DEF Ask
  <2>2. PICK s \in {"upgrading", "saved", "failed"} : Become(r, d, s)
    BY <2>1
  <2>3. /\ task' \in [Requests -> [Devices -> TaskStates]]
        /\ \A q \in Requests, e \in Devices :
              task'[q][e] = IF q = r /\ e = d THEN s ELSE task[q][e]
    BY <2>2, BecomeTask DEF TaskStates, Running, Ended
  <2>4. faults' \in Nat /\ UNCHANGED <<held, outdated, accepted, rows, sim, deleted, kind, ids, stage,
                                      audited, overlapped>>
    BY <1>9 DEF Ask, Fault
  <2>5. noted' \in [Requests -> SUBSET Devices]
    BY <1>9 DEF Ask
  <2> QED
    BY <2>3, <2>4, <2>5 DEF TaskStates
<1>10. ASSUME NEW r \in Requests, NEW d \in Devices, Report(r, d) PROVE Types'
  BY <1>10 DEF Report, Become
<1>11. ASSUME NEW r \in Requests, NEW d \in Devices, Call(r, d, "call", "ok", "failed") PROVE Types'
  <2>1. task[r][d] = "call" /\ \E s \in {"ok", "failed"} : Become(r, d, s)
    BY <1>11 DEF Call
  <2>2. PICK s \in {"ok", "failed"} : Become(r, d, s)
    BY <2>1
  <2>3. /\ task' \in [Requests -> [Devices -> TaskStates]]
        /\ \A q \in Requests, e \in Devices :
              task'[q][e] = IF q = r /\ e = d THEN s ELSE task[q][e]
    BY <2>2, BecomeTask DEF TaskStates, Running, Ended
  <2>4. faults' \in Nat /\ UNCHANGED <<rows, sim, deleted, kind, ids, stage, audited, overlapped, noted>>
    BY <1>11 DEF Call, Fault
  <2>5. CarryOut(r, d) \/ UNCHANGED <<held, outdated, accepted>>
    BY <1>11 DEF Call
  <2>6. held' \in [Devices -> Requests \cup {Factory}] /\ outdated' \subseteq Devices
    BY <2>5 DEF CarryOut
  <2>7. accepted' \subseteq Requests \X Devices
    BY <2>5 DEF CarryOut
  <2> QED
    BY <2>3, <2>4, <2>5, <2>6, <2>7 DEF TaskStates
<1>12. ASSUME NEW r \in Requests, NEW d \in Devices, Call(r, d, "upgrading", "sent", "unsent") PROVE Types'
  <2>1. task[r][d] = "upgrading" /\ \E s \in {"sent", "unsent"} : Become(r, d, s)
    BY <1>12 DEF Call
  <2>2. PICK s \in {"sent", "unsent"} : Become(r, d, s)
    BY <2>1
  <2>3. /\ task' \in [Requests -> [Devices -> TaskStates]]
        /\ \A q \in Requests, e \in Devices :
              task'[q][e] = IF q = r /\ e = d THEN s ELSE task[q][e]
    BY <2>2, BecomeTask DEF TaskStates, Running, Ended
  <2>4. faults' \in Nat /\ UNCHANGED <<rows, sim, deleted, kind, ids, stage, audited, overlapped, noted>>
    BY <1>12 DEF Call, Fault
  <2>5. CarryOut(r, d) \/ UNCHANGED <<held, outdated, accepted>>
    BY <1>12 DEF Call
  <2>6. held' \in [Devices -> Requests \cup {Factory}] /\ outdated' \subseteq Devices
    BY <2>5 DEF CarryOut
  <2>7. accepted' \subseteq Requests \X Devices
    BY <2>5 DEF CarryOut
  <2> QED
    BY <2>3, <2>4, <2>5, <2>6, <2>7 DEF TaskStates
<1>13. ASSUME NEW d \in Devices, Delete(d) PROVE Types'
  BY <1>13 DEF Delete
<1>14. CASE UNCHANGED vars
  BY <1>14 DEF vars
<1> QED
  BY <1>1, <1>2, <1>3, <1>4, <1>5, <1>6, <1>7, <1>8, <1>9, <1>10, <1>11, <1>12, <1>13, <1>14 DEF Next, Collect, Run

LEMMA OccupiedFinite == IsFiniteSet(Occupied) /\ IsFiniteSet(Occupied')
<1>1. IsFiniteSet(Requests \X Devices)
  BY BatchAssumption, FS_Product DEF BatchAssumption
<1>2. Occupied \subseteq Requests \X Devices /\ Occupied' \subseteq Requests \X Devices
  BY DEF Occupied
<1> QED
  BY <1>1, <1>2, FS_Subset

\* A step that starts no task keeps the pool within its limit.
LEMMA Shrinks ==
  ASSUME PoolIsBounded, Occupied' \subseteq Occupied
  PROVE  PoolIsBounded'
<1>1. Cardinality(Occupied') <= Cardinality(Occupied)
  BY OccupiedFinite, FS_Subset
<1> QED
  BY <1>1, OccupiedFinite, FS_CardinalityType, BatchAssumption DEF PoolIsBounded, BatchAssumption

LEMMA StepPool == Types /\ PoolIsBounded /\ [Next]_vars => PoolIsBounded'
<1> SUFFICES ASSUME Types, PoolIsBounded, [Next]_vars PROVE PoolIsBounded'
  OBVIOUS
<1> USE DEF device, table, request
<1>1. ASSUME NEW r \in Requests, Submit(r) PROVE PoolIsBounded'
  <2>1. Occupied' \subseteq Occupied
    BY <1>1 DEF Occupied, Running, Ended, Types, Submit
  <2> QED
    BY <2>1, Shrinks
<1>2. ASSUME NEW r \in Requests, Answer(r) PROVE PoolIsBounded'
  <2>1. Occupied' \subseteq Occupied
    BY <1>2 DEF Occupied, Running, Ended, Types, Answer, Advance, Collected
  <2> QED
    BY <2>1, Shrinks
<1>3. ASSUME NEW r \in Requests, Raise(r) PROVE PoolIsBounded'
  <2>1. Occupied' \subseteq Occupied
    BY <1>3 DEF Occupied, Running, Ended, Types, Raise, Advance, Cancel
  <2> QED
    BY <2>1, Shrinks
<1>4. ASSUME NEW r \in Requests, Reload(r) PROVE PoolIsBounded'
  <2>1. Occupied' \subseteq Occupied
    BY <1>4 DEF Occupied, Running, Ended, Types, Reload, Advance, Collected, OkRows
  <2> QED
    BY <2>1, Shrinks
<1>5. ASSUME NEW r \in Requests, Commit(r) PROVE PoolIsBounded'
  <2>1. Occupied' \subseteq Occupied
    BY <1>5 DEF Occupied, Running, Ended, Types, Commit, Advance
  <2> QED
    BY <2>1, Shrinks
<1>6. ASSUME NEW r \in Requests, NEW d \in Devices, Start(r, d) PROVE PoolIsBounded'
  <2>1. Occupied' \subseteq Occupied \cup {<<r, d>>} /\ Cardinality(Occupied) < Workers
    BY <1>6 DEF Occupied, Running, Ended, Types, Start, Become
  <2>2. IsFiniteSet(Occupied \cup {<<r, d>>}) /\ Cardinality(Occupied \cup {<<r, d>>}) <= Workers
    <3>1. /\ IsFiniteSet(Occupied \cup {<<r, d>>})
          /\ \/ Cardinality(Occupied \cup {<<r, d>>}) = Cardinality(Occupied)
             \/ Cardinality(Occupied \cup {<<r, d>>}) = Cardinality(Occupied) + 1
      BY OccupiedFinite, FS_AddElement
    <3>2. Cardinality(Occupied) \in Nat /\ Workers \in Nat
      BY OccupiedFinite, FS_CardinalityType, BatchAssumption DEF BatchAssumption
    <3> QED
      BY <2>1, <3>1, <3>2
  <2>3. Cardinality(Occupied') <= Cardinality(Occupied \cup {<<r, d>>}) /\ Cardinality(Occupied') \in Nat
    BY <2>1, <2>2, FS_Subset, FS_CardinalityType
  <2> QED
    BY <2>2, <2>3, FS_CardinalityType, BatchAssumption DEF PoolIsBounded, BatchAssumption
<1>7. ASSUME NEW r \in Requests, NEW d \in Devices, Auth(r, d) PROVE PoolIsBounded'
  <2>1. task[r][d] = "auth" /\ \E s \in {"call", "failed"} : Become(r, d, s)
    BY <1>7 DEF Auth
  <2>2. PICK s \in {"call", "failed"} : Become(r, d, s)
    BY <2>1
  <2>3. /\ task' \in [Requests -> [Devices -> TaskStates]]
        /\ \A q \in Requests, e \in Devices :
              task'[q][e] = IF q = r /\ e = d THEN s ELSE task[q][e]
    BY <2>2, BecomeTask DEF TaskStates, Running, Ended
  <2>4. Occupied' \subseteq Occupied
    BY <2>1, <2>3 DEF Occupied, Running
  <2> QED
    BY <2>4, Shrinks
<1>8. ASSUME NEW r \in Requests, NEW d \in Devices, Load(r, d) PROVE PoolIsBounded'
  <2>1. Occupied' \subseteq Occupied
    BY <1>8 DEF Occupied, Running, Ended, Types, Load, Become
  <2> QED
    BY <2>1, Shrinks
<1>9. ASSUME NEW r \in Requests, NEW d \in Devices, Ask(r, d) PROVE PoolIsBounded'
  <2>1. task[r][d] = "ask" /\ \E s \in {"upgrading", "saved", "failed"} : Become(r, d, s)
    BY <1>9 DEF Ask
  <2>2. PICK s \in {"upgrading", "saved", "failed"} : Become(r, d, s)
    BY <2>1
  <2>3. /\ task' \in [Requests -> [Devices -> TaskStates]]
        /\ \A q \in Requests, e \in Devices :
              task'[q][e] = IF q = r /\ e = d THEN s ELSE task[q][e]
    BY <2>2, BecomeTask DEF TaskStates, Running, Ended
  <2>4. Occupied' \subseteq Occupied
    BY <2>1, <2>3 DEF Occupied, Running
  <2> QED
    BY <2>4, Shrinks
<1>10. ASSUME NEW r \in Requests, NEW d \in Devices, Report(r, d) PROVE PoolIsBounded'
  <2>1. Occupied' \subseteq Occupied
    BY <1>10 DEF Occupied, Running, Ended, Types, Report, Become
  <2> QED
    BY <2>1, Shrinks
<1>11. ASSUME NEW r \in Requests, NEW d \in Devices, Call(r, d, "call", "ok", "failed") PROVE PoolIsBounded'
  <2>1. task[r][d] = "call" /\ \E s \in {"ok", "failed"} : Become(r, d, s)
    BY <1>11 DEF Call
  <2>2. PICK s \in {"ok", "failed"} : Become(r, d, s)
    BY <2>1
  <2>3. /\ task' \in [Requests -> [Devices -> TaskStates]]
        /\ \A q \in Requests, e \in Devices :
              task'[q][e] = IF q = r /\ e = d THEN s ELSE task[q][e]
    BY <2>2, BecomeTask DEF TaskStates, Running, Ended
  <2>4. Occupied' \subseteq Occupied
    BY <2>1, <2>3 DEF Occupied, Running
  <2> QED
    BY <2>4, Shrinks
<1>12. ASSUME NEW r \in Requests, NEW d \in Devices, Call(r, d, "upgrading", "sent", "unsent") PROVE PoolIsBounded'
  <2>1. task[r][d] = "upgrading" /\ \E s \in {"sent", "unsent"} : Become(r, d, s)
    BY <1>12 DEF Call
  <2>2. PICK s \in {"sent", "unsent"} : Become(r, d, s)
    BY <2>1
  <2>3. /\ task' \in [Requests -> [Devices -> TaskStates]]
        /\ \A q \in Requests, e \in Devices :
              task'[q][e] = IF q = r /\ e = d THEN s ELSE task[q][e]
    BY <2>2, BecomeTask DEF TaskStates, Running, Ended
  <2>4. Occupied' \subseteq Occupied
    BY <2>1, <2>3 DEF Occupied, Running
  <2> QED
    BY <2>4, Shrinks
<1>13. ASSUME NEW d \in Devices, Delete(d) PROVE PoolIsBounded'
  <2>1. Occupied' \subseteq Occupied
    BY <1>13 DEF Occupied, Delete
  <2> QED
    BY <2>1, Shrinks
<1>14. CASE UNCHANGED vars
  <2>1. Occupied' \subseteq Occupied
    BY <1>14 DEF Occupied, vars
  <2> QED
    BY <2>1, Shrinks
<1> QED
  BY <1>1, <1>2, <1>3, <1>4, <1>5, <1>6, <1>7, <1>8, <1>9, <1>10, <1>11, <1>12, <1>13, <1>14 DEF Next, Collect, Run

LEMMA StepOwn == IInv /\ [Next]_vars => TasksAreOwn'
<1> SUFFICES ASSUME IInv, [Next]_vars PROVE TasksAreOwn'
  OBVIOUS
<1> USE DEF IInv, Types, TasksAreOwn, device, table, request
<1>1. ASSUME NEW r \in Requests, Submit(r) PROVE TasksAreOwn'
  BY <1>1 DEF Submit
<1>2. ASSUME NEW r \in Requests, Answer(r) PROVE TasksAreOwn'
  BY <1>2 DEF Answer, Advance, Collected
<1>3. ASSUME NEW r \in Requests, Raise(r) PROVE TasksAreOwn'
  BY <1>3 DEF Raise, Advance, Cancel
<1>4. ASSUME NEW r \in Requests, Reload(r) PROVE TasksAreOwn'
  BY <1>4 DEF Reload, Advance, Collected, OkRows
<1>5. ASSUME NEW r \in Requests, Commit(r) PROVE TasksAreOwn'
  BY <1>5 DEF Commit, Advance
<1>6. ASSUME NEW r \in Requests, NEW d \in Devices, Start(r, d) PROVE TasksAreOwn'
  BY <1>6 DEF Start, Become
<1>7. ASSUME NEW r \in Requests, NEW d \in Devices, Auth(r, d) PROVE TasksAreOwn'
  BY <1>7 DEF Auth, Become, Fault
<1>8. ASSUME NEW r \in Requests, NEW d \in Devices, Load(r, d) PROVE TasksAreOwn'
  BY <1>8 DEF Load, Become
<1>9. ASSUME NEW r \in Requests, NEW d \in Devices, Ask(r, d) PROVE TasksAreOwn'
  BY <1>9 DEF Ask, Become, Fault
<1>10. ASSUME NEW r \in Requests, NEW d \in Devices, Report(r, d) PROVE TasksAreOwn'
  BY <1>10 DEF Report, Become
<1>11. ASSUME NEW r \in Requests, NEW d \in Devices, Call(r, d, "call", "ok", "failed") PROVE TasksAreOwn'
  BY <1>11 DEF Call, Become, Fault, CarryOut
<1>12. ASSUME NEW r \in Requests, NEW d \in Devices, Call(r, d, "upgrading", "sent", "unsent") PROVE TasksAreOwn'
  BY <1>12 DEF Call, Become, Fault, CarryOut
<1>13. ASSUME NEW d \in Devices, Delete(d) PROVE TasksAreOwn'
  BY <1>13 DEF Delete
<1>14. CASE UNCHANGED vars
  BY <1>14 DEF vars
<1> QED
  BY <1>1, <1>2, <1>3, <1>4, <1>5, <1>6, <1>7, <1>8, <1>9, <1>10, <1>11, <1>12, <1>13, <1>14 DEF Next, Collect, Run

LEMMA StepSim == IInv /\ [Next]_vars => SimTasks'
<1> SUFFICES ASSUME IInv, [Next]_vars PROVE SimTasks'
  OBVIOUS
<1> USE DEF IInv, Types, SimTasks, TasksAreOwn, device, table, request
<1>1. ASSUME NEW r \in Requests, Submit(r) PROVE SimTasks'
  BY <1>1 DEF Submit
<1>2. ASSUME NEW r \in Requests, Answer(r) PROVE SimTasks'
  BY <1>2 DEF Answer, Advance, Collected
<1>3. ASSUME NEW r \in Requests, Raise(r) PROVE SimTasks'
  BY <1>3 DEF Raise, Advance, Cancel
<1>4. ASSUME NEW r \in Requests, Reload(r) PROVE SimTasks'
  BY <1>4 DEF Reload, Advance, Collected, OkRows
<1>5. ASSUME NEW r \in Requests, Commit(r) PROVE SimTasks'
  BY <1>5 DEF Commit, Advance
<1>6. ASSUME NEW r \in Requests, NEW d \in Devices, Start(r, d) PROVE SimTasks'
  BY <1>6 DEF Start, Become
<1>7. ASSUME NEW r \in Requests, NEW d \in Devices, Auth(r, d) PROVE SimTasks'
  BY <1>7 DEF Auth, Become, Fault
<1>8. ASSUME NEW r \in Requests, NEW d \in Devices, Load(r, d) PROVE SimTasks'
  BY <1>8 DEF Load, Become
<1>9. ASSUME NEW r \in Requests, NEW d \in Devices, Ask(r, d) PROVE SimTasks'
  BY <1>9 DEF Ask, Become, Fault
<1>10. ASSUME NEW r \in Requests, NEW d \in Devices, Report(r, d) PROVE SimTasks'
  BY <1>10 DEF Report, Become
<1>11. ASSUME NEW r \in Requests, NEW d \in Devices, Call(r, d, "call", "ok", "failed") PROVE SimTasks'
  BY <1>11 DEF Call, Become, Fault, CarryOut
<1>12. ASSUME NEW r \in Requests, NEW d \in Devices, Call(r, d, "upgrading", "sent", "unsent") PROVE SimTasks'
  BY <1>12 DEF Call, Become, Fault, CarryOut
<1>13. ASSUME NEW d \in Devices, Delete(d) PROVE SimTasks'
  BY <1>13 DEF Delete
<1>14. CASE UNCHANGED vars
  BY <1>14 DEF vars
<1> QED
  BY <1>1, <1>2, <1>3, <1>4, <1>5, <1>6, <1>7, <1>8, <1>9, <1>10, <1>11, <1>12, <1>13, <1>14 DEF Next, Collect, Run

LEMMA StepTrouble == IInv /\ [Next]_vars => TroubleHasCause'
<1> SUFFICES ASSUME IInv, [Next]_vars PROVE TroubleHasCause'
  OBVIOUS
<1> USE DEF IInv, Types, TroubleHasCause, TasksAreOwn, device, table, request
<1>1. ASSUME NEW r \in Requests, Submit(r) PROVE TroubleHasCause'
  BY <1>1 DEF Submit
<1>2. ASSUME NEW r \in Requests, Answer(r) PROVE TroubleHasCause'
  BY <1>2 DEF Answer, Advance, Collected
<1>3. ASSUME NEW r \in Requests, Raise(r) PROVE TroubleHasCause'
  BY <1>3 DEF Raise, Advance, Cancel
<1>4. ASSUME NEW r \in Requests, Reload(r) PROVE TroubleHasCause'
  BY <1>4 DEF Reload, Advance, Collected, OkRows
<1>5. ASSUME NEW r \in Requests, Commit(r) PROVE TroubleHasCause'
  BY <1>5 DEF Commit, Advance
<1>6. ASSUME NEW r \in Requests, NEW d \in Devices, Start(r, d) PROVE TroubleHasCause'
  BY <1>6 DEF Start, Become
<1>7. ASSUME NEW r \in Requests, NEW d \in Devices, Auth(r, d) PROVE TroubleHasCause'
  <2>1. task[r][d] = "auth" /\ \E s \in {"call", "failed"} : Become(r, d, s)
    BY <1>7 DEF Auth
  <2>2. PICK s \in {"call", "failed"} : Become(r, d, s)
    BY <2>1
  <2>3. /\ task' \in [Requests -> [Devices -> TaskStates]]
        /\ \A q \in Requests, e \in Devices :
              task'[q][e] = IF q = r /\ e = d THEN s ELSE task[q][e]
    BY <2>2, BecomeTask DEF TaskStates, Running, Ended
  <2>4. UNCHANGED <<stage, deleted>>
    BY <1>7 DEF Auth
  <2> QED
    BY <2>3, <2>4
<1>8. ASSUME NEW r \in Requests, NEW d \in Devices, Load(r, d) PROVE TroubleHasCause'
  BY <1>8 DEF Load, Become
<1>9. ASSUME NEW r \in Requests, NEW d \in Devices, Ask(r, d) PROVE TroubleHasCause'
  BY <1>9 DEF Ask, Become, Fault
<1>10. ASSUME NEW r \in Requests, NEW d \in Devices, Report(r, d) PROVE TroubleHasCause'
  BY <1>10 DEF Report, Become
<1>11. ASSUME NEW r \in Requests, NEW d \in Devices, Call(r, d, "call", "ok", "failed") PROVE TroubleHasCause'
  <2>1. task[r][d] = "call" /\ \E s \in {"ok", "failed"} : Become(r, d, s)
    BY <1>11 DEF Call
  <2>2. PICK s \in {"ok", "failed"} : Become(r, d, s)
    BY <2>1
  <2>3. /\ task' \in [Requests -> [Devices -> TaskStates]]
        /\ \A q \in Requests, e \in Devices :
              task'[q][e] = IF q = r /\ e = d THEN s ELSE task[q][e]
    BY <2>2, BecomeTask DEF TaskStates, Running, Ended
  <2>4. UNCHANGED <<stage, deleted>>
    BY <1>11 DEF Call
  <2> QED
    BY <2>3, <2>4
<1>12. ASSUME NEW r \in Requests, NEW d \in Devices, Call(r, d, "upgrading", "sent", "unsent") PROVE TroubleHasCause'
  <2>1. task[r][d] = "upgrading" /\ \E s \in {"sent", "unsent"} : Become(r, d, s)
    BY <1>12 DEF Call
  <2>2. PICK s \in {"sent", "unsent"} : Become(r, d, s)
    BY <2>1
  <2>3. /\ task' \in [Requests -> [Devices -> TaskStates]]
        /\ \A q \in Requests, e \in Devices :
              task'[q][e] = IF q = r /\ e = d THEN s ELSE task[q][e]
    BY <2>2, BecomeTask DEF TaskStates, Running, Ended
  <2>4. UNCHANGED <<stage, deleted>>
    BY <1>12 DEF Call
  <2> QED
    BY <2>3, <2>4
<1>13. ASSUME NEW d \in Devices, Delete(d) PROVE TroubleHasCause'
  BY <1>13 DEF Delete
<1>14. CASE UNCHANGED vars
  BY <1>14 DEF vars
<1> QED
  BY <1>1, <1>2, <1>3, <1>4, <1>5, <1>6, <1>7, <1>8, <1>9, <1>10, <1>11, <1>12, <1>13, <1>14 DEF Next, Collect, Run

LEMMA StepCommits == IInv /\ [Next]_vars => CommitsWereAccepted'
<1> SUFFICES ASSUME IInv, [Next]_vars PROVE CommitsWereAccepted'
  OBVIOUS
<1> USE DEF IInv, Types, CommitsWereAccepted, SimTasks, device, table, request
<1>1. ASSUME NEW r \in Requests, Submit(r) PROVE CommitsWereAccepted'
  BY <1>1 DEF Submit
<1>2. ASSUME NEW r \in Requests, Answer(r) PROVE CommitsWereAccepted'
  BY <1>2 DEF Answer, Advance, Collected
<1>3. ASSUME NEW r \in Requests, Raise(r) PROVE CommitsWereAccepted'
  BY <1>3 DEF Raise, Advance, Cancel
<1>4. ASSUME NEW r \in Requests, Reload(r) PROVE CommitsWereAccepted'
  BY <1>4 DEF Reload, Advance, Collected, OkRows
<1>5. ASSUME NEW r \in Requests, Commit(r) PROVE CommitsWereAccepted'
  BY <1>5 DEF Commit, Advance
<1>6. ASSUME NEW r \in Requests, NEW d \in Devices, Start(r, d) PROVE CommitsWereAccepted'
  BY <1>6 DEF Start, Become
<1>7. ASSUME NEW r \in Requests, NEW d \in Devices, Auth(r, d) PROVE CommitsWereAccepted'
  BY <1>7 DEF Auth, Become, Fault
<1>8. ASSUME NEW r \in Requests, NEW d \in Devices, Load(r, d) PROVE CommitsWereAccepted'
  BY <1>8 DEF Load, Become
<1>9. ASSUME NEW r \in Requests, NEW d \in Devices, Ask(r, d) PROVE CommitsWereAccepted'
  BY <1>9 DEF Ask, Become, Fault
<1>10. ASSUME NEW r \in Requests, NEW d \in Devices, Report(r, d) PROVE CommitsWereAccepted'
  BY <1>10 DEF Report, Become
<1>11. ASSUME NEW r \in Requests, NEW d \in Devices, Call(r, d, "call", "ok", "failed") PROVE CommitsWereAccepted'
  BY <1>11 DEF Call, Become, Fault, CarryOut
<1>12. ASSUME NEW r \in Requests, NEW d \in Devices, Call(r, d, "upgrading", "sent", "unsent") PROVE CommitsWereAccepted'
  BY <1>12 DEF Call, Become, Fault, CarryOut
<1>13. ASSUME NEW d \in Devices, Delete(d) PROVE CommitsWereAccepted'
  BY <1>13 DEF Delete
<1>14. CASE UNCHANGED vars
  BY <1>14 DEF vars
<1> QED
  BY <1>1, <1>2, <1>3, <1>4, <1>5, <1>6, <1>7, <1>8, <1>9, <1>10, <1>11, <1>12, <1>13, <1>14 DEF Next, Collect, Run

LEMMA StepAnswers == IInv /\ [Next]_vars => AnswersAreAudited'
<1> SUFFICES ASSUME IInv, [Next]_vars PROVE AnswersAreAudited'
  OBVIOUS
<1> USE DEF IInv, Types, AnswersAreAudited, device, table, request
<1>1. ASSUME NEW r \in Requests, Submit(r) PROVE AnswersAreAudited'
  BY <1>1 DEF Submit
<1>2. ASSUME NEW r \in Requests, Answer(r) PROVE AnswersAreAudited'
  BY <1>2 DEF Answer, Advance, Collected
<1>3. ASSUME NEW r \in Requests, Raise(r) PROVE AnswersAreAudited'
  BY <1>3 DEF Raise, Advance, Cancel
<1>4. ASSUME NEW r \in Requests, Reload(r) PROVE AnswersAreAudited'
  BY <1>4 DEF Reload, Advance, Collected, OkRows
<1>5. ASSUME NEW r \in Requests, Commit(r) PROVE AnswersAreAudited'
  <2>1. kind[r] = "sim" /\ UNCHANGED <<kind, ids, audited>>
    BY <1>5 DEF Commit, CommitsWereAccepted
  <2>2. \A q \in Requests : q # r => stage'[q] = stage[q]
    BY <1>5 DEF Commit, Advance
  <2> QED
    BY <2>1, <2>2
<1>6. ASSUME NEW r \in Requests, NEW d \in Devices, Start(r, d) PROVE AnswersAreAudited'
  BY <1>6 DEF Start, Become
<1>7. ASSUME NEW r \in Requests, NEW d \in Devices, Auth(r, d) PROVE AnswersAreAudited'
  BY <1>7 DEF Auth, Become, Fault
<1>8. ASSUME NEW r \in Requests, NEW d \in Devices, Load(r, d) PROVE AnswersAreAudited'
  BY <1>8 DEF Load, Become
<1>9. ASSUME NEW r \in Requests, NEW d \in Devices, Ask(r, d) PROVE AnswersAreAudited'
  BY <1>9 DEF Ask, Become, Fault
<1>10. ASSUME NEW r \in Requests, NEW d \in Devices, Report(r, d) PROVE AnswersAreAudited'
  BY <1>10 DEF Report, Become
<1>11. ASSUME NEW r \in Requests, NEW d \in Devices, Call(r, d, "call", "ok", "failed") PROVE AnswersAreAudited'
  BY <1>11 DEF Call, Become, Fault, CarryOut
<1>12. ASSUME NEW r \in Requests, NEW d \in Devices, Call(r, d, "upgrading", "sent", "unsent") PROVE AnswersAreAudited'
  BY <1>12 DEF Call, Become, Fault, CarryOut
<1>13. ASSUME NEW d \in Devices, Delete(d) PROVE AnswersAreAudited'
  BY <1>13 DEF Delete
<1>14. CASE UNCHANGED vars
  BY <1>14 DEF vars
<1> QED
  BY <1>1, <1>2, <1>3, <1>4, <1>5, <1>6, <1>7, <1>8, <1>9, <1>10, <1>11, <1>12, <1>13, <1>14 DEF Next, Collect, Run

LEMMA StepStored == IInv /\ [Next]_vars => StoredWasAccepted'
<1> SUFFICES ASSUME IInv, [Next]_vars PROVE StoredWasAccepted'
  OBVIOUS
<1> USE DEF IInv, Types, StoredWasAccepted, CommitsWereAccepted, device, table, request
<1>1. ASSUME NEW r \in Requests, Submit(r) PROVE StoredWasAccepted'
  BY <1>1 DEF Submit
<1>2. ASSUME NEW r \in Requests, Answer(r) PROVE StoredWasAccepted'
  BY <1>2 DEF Answer, Advance, Collected
<1>3. ASSUME NEW r \in Requests, Raise(r) PROVE StoredWasAccepted'
  BY <1>3 DEF Raise, Advance, Cancel
<1>4. ASSUME NEW r \in Requests, Reload(r) PROVE StoredWasAccepted'
  BY <1>4 DEF Reload, Advance, Collected, OkRows
<1>5. ASSUME NEW r \in Requests, Commit(r) PROVE StoredWasAccepted'
  BY <1>5 DEF Commit, Advance
<1>6. ASSUME NEW r \in Requests, NEW d \in Devices, Start(r, d) PROVE StoredWasAccepted'
  BY <1>6 DEF Start, Become
<1>7. ASSUME NEW r \in Requests, NEW d \in Devices, Auth(r, d) PROVE StoredWasAccepted'
  BY <1>7 DEF Auth, Become, Fault
<1>8. ASSUME NEW r \in Requests, NEW d \in Devices, Load(r, d) PROVE StoredWasAccepted'
  BY <1>8 DEF Load, Become
<1>9. ASSUME NEW r \in Requests, NEW d \in Devices, Ask(r, d) PROVE StoredWasAccepted'
  BY <1>9 DEF Ask, Become, Fault
<1>10. ASSUME NEW r \in Requests, NEW d \in Devices, Report(r, d) PROVE StoredWasAccepted'
  BY <1>10 DEF Report, Become
<1>11. ASSUME NEW r \in Requests, NEW d \in Devices, Call(r, d, "call", "ok", "failed") PROVE StoredWasAccepted'
  BY <1>11 DEF Call, Become, Fault, CarryOut
<1>12. ASSUME NEW r \in Requests, NEW d \in Devices, Call(r, d, "upgrading", "sent", "unsent") PROVE StoredWasAccepted'
  BY <1>12 DEF Call, Become, Fault, CarryOut
<1>13. ASSUME NEW d \in Devices, Delete(d) PROVE StoredWasAccepted'
  BY <1>13 DEF Delete
<1>14. CASE UNCHANGED vars
  BY <1>14 DEF vars
<1> QED
  BY <1>1, <1>2, <1>3, <1>4, <1>5, <1>6, <1>7, <1>8, <1>9, <1>10, <1>11, <1>12, <1>13, <1>14 DEF Next, Collect, Run

LEMMA StepCause == IInv /\ [Next]_vars => FailuresHaveCause'
<1> SUFFICES ASSUME IInv, [Next]_vars PROVE FailuresHaveCause'
  OBVIOUS
<1> USE DEF IInv, Types, FailuresHaveCause, TroubleHasCause, TasksAreOwn, CommitsWereAccepted, device, table, request
<1>1. ASSUME NEW r \in Requests, Submit(r) PROVE FailuresHaveCause'
  BY <1>1 DEF Submit
<1>2. ASSUME NEW r \in Requests, Answer(r) PROVE FailuresHaveCause'
  BY <1>2 DEF Answer, Advance, Collected
<1>3. ASSUME NEW r \in Requests, Raise(r) PROVE FailuresHaveCause'
  BY <1>3 DEF Raise, Advance, Cancel
<1>4. ASSUME NEW r \in Requests, Reload(r) PROVE FailuresHaveCause'
  BY <1>4 DEF Reload, Advance, Collected, OkRows
<1>5. ASSUME NEW r \in Requests, Commit(r) PROVE FailuresHaveCause'
  BY <1>5 DEF Commit, Advance
<1>6. ASSUME NEW r \in Requests, NEW d \in Devices, Start(r, d) PROVE FailuresHaveCause'
  BY <1>6 DEF Start, Become
<1>7. ASSUME NEW r \in Requests, NEW d \in Devices, Auth(r, d) PROVE FailuresHaveCause'
  BY <1>7 DEF Auth, Become, Fault
<1>8. ASSUME NEW r \in Requests, NEW d \in Devices, Load(r, d) PROVE FailuresHaveCause'
  BY <1>8 DEF Load, Become
<1>9. ASSUME NEW r \in Requests, NEW d \in Devices, Ask(r, d) PROVE FailuresHaveCause'
  BY <1>9 DEF Ask, Become, Fault
<1>10. ASSUME NEW r \in Requests, NEW d \in Devices, Report(r, d) PROVE FailuresHaveCause'
  BY <1>10 DEF Report, Become
<1>11. ASSUME NEW r \in Requests, NEW d \in Devices, Call(r, d, "call", "ok", "failed") PROVE FailuresHaveCause'
  BY <1>11 DEF Call, Become, Fault, CarryOut
<1>12. ASSUME NEW r \in Requests, NEW d \in Devices, Call(r, d, "upgrading", "sent", "unsent") PROVE FailuresHaveCause'
  BY <1>12 DEF Call, Become, Fault, CarryOut
<1>13. ASSUME NEW d \in Devices, Delete(d) PROVE FailuresHaveCause'
  BY <1>13 DEF Delete
<1>14. CASE UNCHANGED vars
  BY <1>14 DEF vars
<1> QED
  BY <1>1, <1>2, <1>3, <1>4, <1>5, <1>6, <1>7, <1>8, <1>9, <1>10, <1>11, <1>12, <1>13, <1>14 DEF Next, Collect, Run

-----------------------------------------------------------------------------
LEMMA InitHolds == Init => IInv
<1> SUFFICES ASSUME Init PROVE IInv
  OBVIOUS
<1> USE DEF Init
<1>1. Types
  BY DEF Types, Running, Ended
<1>2. Occupied = {}
  BY DEF Occupied, Running
<1>3. PoolIsBounded
  BY <1>2, FS_EmptySet, BatchAssumption DEF PoolIsBounded, BatchAssumption
<1>4. TasksAreOwn /\ SimTasks /\ TroubleHasCause
  BY DEF TasksAreOwn, SimTasks, TroubleHasCause
<1>5. CommitsWereAccepted /\ AnswersAreAudited /\ StoredWasAccepted /\ FailuresHaveCause
  BY DEF CommitsWereAccepted, AnswersAreAudited, StoredWasAccepted, FailuresHaveCause
<1> QED
  BY <1>1, <1>3, <1>4, <1>5 DEF IInv

LEMMA Inductive == Spec => []IInv
<1>1. IInv /\ [Next]_vars => IInv'
  BY StepTypes, StepPool, StepOwn, StepSim, StepTrouble, StepCommits, StepAnswers, StepStored, StepCause
     DEF IInv
<1> QED
  BY <1>1, InitHolds, PTL DEF Spec

\* Every reachable state has the types TypeOK gives, and the pool never runs more
\* tasks than it has workers.
THEOREM TypeCorrect == Spec => []TypeOK
<1>1. IInv => TypeOK
  BY DEF IInv, Types, PoolIsBounded, TypeOK
<1> QED
  BY <1>1, Inductive, PTL

\* The numbers api_batch_sim stores were accepted by the device they are stored for.
THEOREM StoresWhatWasAccepted == Spec => []StoredWasAccepted
<1>1. IInv => StoredWasAccepted
  BY DEF IInv
<1> QED
  BY <1>1, Inductive, PTL

\* A batch answered 500 had a row of its own deleted under it: no other batch in
\* the shared pool can do that to it.
THEOREM BatchesFailForCause == Spec => []FailuresHaveCause
<1>1. IInv => FailuresHaveCause
  BY DEF IInv
<1> QED
  BY <1>1, Inductive, PTL

\* While no row is deleted, every upgrade a device carried out is in the audit log
\* of its batch.
THEOREM UpgradesReported == Spec => []UpgradesAreReported
<1>1. IInv => UpgradesAreReported
  <2> SUFFICES ASSUME IInv, deleted = {}, NEW r \in Requests, NEW d \in Devices,
                      kind[r] = "upgrade", ~Busy(r), <<r, d>> \in accepted
               PROVE  <<r, d>> \in audited
    BY DEF UpgradesAreReported
  <2>1. d \in ids[r] /\ stage[r] # "idle"
    BY DEF IInv, TasksAreOwn
  <2>2. stage[r] # "error"
    BY DEF IInv, FailuresHaveCause
  <2>3. stage[r] = "answered"
    BY <2>1, <2>2 DEF IInv, Types, Busy
  <2> QED
    BY <2>1, <2>3 DEF IInv, AnswersAreAudited
<1> QED
  BY <1>1, Inductive, PTL

-----------------------------------------------------------------------------
\* What LoneBatchesAgree assumes of the whole run: it can only cease to hold.
Calm ==
    /\ overlapped = {} /\ faults = 0
    /\ \A r \in Requests : kind[r] = "sim" => stage[r] # "error"

BusySim(r) == kind[r] = "sim" /\ Busy(r)

\* A second SIM batch puts both into overlapped.
OneSimBatch ==
    overlapped = {} => \A q, r \in Requests : BusySim(q) /\ BusySim(r) => q = r

\* No task of a SIM batch is left once its thread has all results.
CollectedIsOver ==
    \A r \in Requests, d \in Devices :
        kind[r] = "sim" /\ stage[r] \in {"idle", "commit", "answered"} =>
            task[r][d] \in {"none", "ok", "failed"}

\* What is about to be committed is what the devices accepted, for rows still there.
NotedAccepted ==
    \A r \in Requests : stage[r] = "commit" =>
        /\ \A d \in noted[r] : task[r][d] = "ok"
        /\ \A d \in rows : task[r][d] = "ok" => d \in noted[r]

\* A device that accepted the numbers of the batch under way holds them.
OkIsHeld ==
    Calm => \A r \in Requests, d \in Devices :
                BusySim(r) /\ task[r][d] = "ok" => held[d] = r

\* Row and device differ only until the batch under way commits.
DebtIsOpen ==
    Calm => \A d \in rows :
                sim[d] = held[d] \/ \E r \in Requests : BusySim(r) /\ task[r][d] = "ok"

AgreeInv == OneSimBatch /\ CollectedIsOver /\ NotedAccepted /\ OkIsHeld /\ DebtIsOpen

-----------------------------------------------------------------------------
\* A thread that has its results has left none of its tasks to the pool.
LEMMA CollectedTasks ==
  ASSUME IInv, NEW r \in Requests, Collected(r), NEW d \in Devices
  PROVE  task[r][d] \in {"none", "ok", "failed"}
<1>1. CASE d \in ids[r]
  BY <1>1 DEF Collected
<1>2. CASE d \notin ids[r]
  BY <1>2 DEF IInv, TasksAreOwn
<1> QED
  BY <1>1, <1>2

\* The steps of WiFi, forward and OTA tasks.
OtherKindStep(r) ==
    /\ kind[r] # "sim"
    /\ UNCHANGED <<rows, sim, held, kind, stage, overlapped>>
    /\ faults' = 0 => faults = 0
    /\ \A q \in Requests \ {r} :
          noted'[q] = noted[q] /\ \A e \in Devices : task'[q][e] = task[q][e]

LEMMA NotOfSim ==
  ASSUME IInv, NEW r \in Requests, NEW d \in Devices,
         task[r][d] \in {"auth", "load", "ask", "upgrading", "saved", "sent", "unsent"}
  PROVE  kind[r] # "sim"
  BY DEF IInv, SimTasks

LEMMA OtherKindActions ==
  ASSUME IInv, NEW r \in Requests, NEW d \in Devices,
         Auth(r, d) \/ Load(r, d) \/ Ask(r, d) \/ Report(r, d) \/ Call(r, d, "upgrading", "sent", "unsent")
  PROVE  OtherKindStep(r)
<1> USE DEF device, table, request
<1>1. kind[r] # "sim"
  <2>1. task[r][d] \in {"auth", "load", "ask", "upgrading", "saved", "sent", "unsent"}
    BY DEF Auth, Load, Ask, Report, Call
  <2> QED
    BY <2>1, NotOfSim
<1>2. \E s : Become(r, d, s)
  BY DEF Auth, Load, Ask, Report, Call
<1>3. \A q \in Requests \ {r}, e \in Devices : task'[q][e] = task[q][e]
  BY <1>2 DEF Become, IInv, Types
<1>4. \A q \in Requests \ {r} : noted'[q] = noted[q]
  BY DEF Auth, Load, Ask, Report, Call, IInv, Types
<1>5. UNCHANGED <<rows, sim, kind, stage, overlapped>>
  BY DEF Auth, Load, Ask, Report, Call
<1>6. held' = held
  BY <1>1 DEF Auth, Load, Ask, Report, Call, CarryOut
<1>7. faults' = 0 => faults = 0
  BY DEF Auth, Load, Ask, Report, Call, Fault, IInv, Types
<1> QED
  BY <1>1, <1>3, <1>4, <1>5, <1>6, <1>7 DEF OtherKindStep

LEMMA OtherKindsKeep ==
  ASSUME IInv, AgreeInv, NEW r \in Requests, OtherKindStep(r)
  PROVE  AgreeInv'
<1> USE DEF OtherKindStep
<1>1. \A q \in Requests : BusySim(q)' <=> BusySim(q)
  BY DEF BusySim, Busy
<1>2. \A q \in Requests, d \in Devices : BusySim(q) => task'[q][d] = task[q][d]
  BY DEF BusySim
<1>3. Calm' => Calm
  BY DEF Calm
<1>4. OneSimBatch'
  BY <1>1 DEF AgreeInv, OneSimBatch
<1>5. CollectedIsOver'
  BY DEF AgreeInv, CollectedIsOver
<1>6. NotedAccepted'
  <2>1. \A q \in Requests : stage[q] = "commit" => q # r
    BY DEF IInv, CommitsWereAccepted
  <2>2. rows \subseteq Devices /\ \A q \in Requests : noted[q] \subseteq Devices
    BY DEF IInv, Types
  <2> QED
    BY <2>1, <2>2 DEF AgreeInv, NotedAccepted
<1>7. OkIsHeld'
  BY <1>1, <1>2, <1>3 DEF AgreeInv, OkIsHeld
<1>8. DebtIsOpen'
  <2>1. rows \subseteq Devices
    BY DEF IInv, Types
  <2> QED
    BY <1>1, <1>2, <1>3, <2>1 DEF AgreeInv, DebtIsOpen
<1> QED
  BY <1>4, <1>5, <1>6, <1>7, <1>8 DEF AgreeInv

\* All other steps.
SimStep ==
    \/ \E r \in Requests : Submit(r) \/ Collect(r)
    \/ \E r \in Requests, d \in Devices : Start(r, d) \/ Call(r, d, "call", "ok", "failed")
    \/ \E d \in Devices : Delete(d)
    \/ UNCHANGED vars

LEMMA StepOneSim == IInv /\ OneSimBatch /\ SimStep => OneSimBatch'
<1> SUFFICES ASSUME IInv, OneSimBatch, SimStep PROVE OneSimBatch'
  OBVIOUS
<1> USE DEF IInv, Types, device, table, request, OneSimBatch, BusySim, Busy
<1>1. ASSUME NEW r \in Requests, Submit(r) PROVE OneSimBatch'
  BY <1>1 DEF Submit
<1>2. ASSUME NEW r \in Requests, Answer(r) PROVE OneSimBatch'
  BY <1>2 DEF Answer, Advance, Collected
<1>3. ASSUME NEW r \in Requests, Raise(r) PROVE OneSimBatch'
  BY <1>3 DEF Raise, Advance, Cancel
<1>4. ASSUME NEW r \in Requests, Reload(r) PROVE OneSimBatch'
  BY <1>4 DEF Reload, Advance, Collected, OkRows
<1>5. ASSUME NEW r \in Requests, Commit(r) PROVE OneSimBatch'
  BY <1>5 DEF Commit, Advance
<1>6. ASSUME NEW r \in Requests, NEW d \in Devices, Start(r, d) PROVE OneSimBatch'
  BY <1>6 DEF Start, Become
<1>7. ASSUME NEW r \in Requests, NEW d \in Devices, Call(r, d, "call", "ok", "failed") PROVE OneSimBatch'
  BY <1>7 DEF Call, Become, Fault, CarryOut
<1>8. ASSUME NEW d \in Devices, Delete(d) PROVE OneSimBatch'
  BY <1>8 DEF Delete
<1>9. CASE UNCHANGED vars
  BY <1>9 DEF vars
<1> QED
  BY <1>1, <1>2, <1>3, <1>4, <1>5, <1>6, <1>7, <1>8, <1>9 DEF SimStep, Collect

LEMMA StepOver == IInv /\ CollectedIsOver /\ SimStep => CollectedIsOver'
<1> SUFFICES ASSUME IInv, CollectedIsOver, SimStep PROVE CollectedIsOver'
  OBVIOUS
<1> USE DEF IInv, Types, device, table, request, TasksAreOwn, SimTasks, CollectedIsOver
<1>1. ASSUME NEW r \in Requests, Submit(r) PROVE CollectedIsOver'
  BY <1>1 DEF Submit
<1>2. ASSUME NEW r \in Requests, Answer(r) PROVE CollectedIsOver'
  <2>1. UNCHANGED <<task, kind>> /\ \A q \in Requests : q # r => stage'[q] = stage[q]
    BY <1>2 DEF Answer, Advance
  <2>2. \A d \in Devices : task[r][d] \in {"none", "ok", "failed"}
    BY <1>2, CollectedTasks DEF Answer
  <2> QED
    BY <2>1, <2>2
<1>3. ASSUME NEW r \in Requests, Raise(r) PROVE CollectedIsOver'
  BY <1>3 DEF Raise, Advance, Cancel
<1>4. ASSUME NEW r \in Requests, Reload(r) PROVE CollectedIsOver'
  <2>1. UNCHANGED <<task, kind>> /\ \A q \in Requests : q # r => stage'[q] = stage[q]
    BY <1>4 DEF Reload, Advance
  <2>2. \A d \in Devices : task[r][d] \in {"none", "ok", "failed"}
    BY <1>4, CollectedTasks DEF Reload
  <2> QED
    BY <2>1, <2>2
<1>5. ASSUME NEW r \in Requests, Commit(r) PROVE CollectedIsOver'
  BY <1>5 DEF Commit, Advance
<1>6. ASSUME NEW r \in Requests, NEW d \in Devices, Start(r, d) PROVE CollectedIsOver'
  BY <1>6 DEF Start, Become
<1>7. ASSUME NEW r \in Requests, NEW d \in Devices, Call(r, d, "call", "ok", "failed") PROVE CollectedIsOver'
  BY <1>7 DEF Call, Become, Fault, CarryOut
<1>8. ASSUME NEW d \in Devices, Delete(d) PROVE CollectedIsOver'
  BY <1>8 DEF Delete
<1>9. CASE UNCHANGED vars
  BY <1>9 DEF vars
<1> QED
  BY <1>1, <1>2, <1>3, <1>4, <1>5, <1>6, <1>7, <1>8, <1>9 DEF SimStep, Collect

LEMMA StepNoted == IInv /\ CollectedIsOver /\ NotedAccepted /\ SimStep => NotedAccepted'
<1> SUFFICES ASSUME IInv, CollectedIsOver, NotedAccepted, SimStep PROVE NotedAccepted'
  OBVIOUS
<1> USE DEF IInv, Types, device, table, request, TasksAreOwn, SimTasks, CommitsWereAccepted, CollectedIsOver, NotedAccepted
<1>1. ASSUME NEW r \in Requests, Submit(r) PROVE NotedAccepted'
  BY <1>1 DEF Submit
<1>2. ASSUME NEW r \in Requests, Answer(r) PROVE NotedAccepted'
  BY <1>2 DEF Answer, Advance, Collected
<1>3. ASSUME NEW r \in Requests, Raise(r) PROVE NotedAccepted'
  BY <1>3 DEF Raise, Advance, Cancel
<1>4. ASSUME NEW r \in Requests, Reload(r) PROVE NotedAccepted'
  <2>1. UNCHANGED <<task, rows>> /\ \A q \in Requests : q # r => stage'[q] = stage[q] /\ noted'[q] = noted[q]
    BY <1>4 DEF Reload, Advance
  <2>2. noted'[r] = {d \in ids[r] : task[r][d] = "ok"} \cap rows
    BY <1>4 DEF Reload, OkRows
  <2>3. \A d \in rows : task[r][d] = "ok" => d \in ids[r]
    OBVIOUS
  <2> QED
    BY <2>1, <2>2, <2>3
<1>5. ASSUME NEW r \in Requests, Commit(r) PROVE NotedAccepted'
  BY <1>5 DEF Commit, Advance
<1>6. ASSUME NEW r \in Requests, NEW d \in Devices, Start(r, d) PROVE NotedAccepted'
  BY <1>6 DEF Start, Become
<1>7. ASSUME NEW r \in Requests, NEW d \in Devices, Call(r, d, "call", "ok", "failed") PROVE NotedAccepted'
  <2>1. task[r][d] = "call" /\ \E s \in {"ok", "failed"} : Become(r, d, s)
    BY <1>7 DEF Call
  <2>2. PICK s \in {"ok", "failed"} : Become(r, d, s)
    BY <2>1
  <2>3. \A q \in Requests, e \in Devices :
            task'[q][e] = IF q = r /\ e = d THEN s ELSE task[q][e]
    BY <2>2, BecomeTask DEF TaskStates, Running, Ended
  <2>4. stage[r] # "commit"
    BY <2>1
  <2>5. UNCHANGED <<stage, kind, rows, noted>>
    BY <1>7 DEF Call
  <2> QED
    BY <2>3, <2>4, <2>5
<1>8. ASSUME NEW d \in Devices, Delete(d) PROVE NotedAccepted'
  BY <1>8 DEF Delete
<1>9. CASE UNCHANGED vars
  BY <1>9 DEF vars
<1> QED
  BY <1>1, <1>2, <1>3, <1>4, <1>5, <1>6, <1>7, <1>8, <1>9 DEF SimStep, Collect

LEMMA StepOk == IInv /\ AgreeInv /\ SimStep => OkIsHeld'
<1> SUFFICES ASSUME IInv, AgreeInv, SimStep PROVE OkIsHeld'
  OBVIOUS
<1> USE DEF IInv, Types, device, table, request, TasksAreOwn, SimTasks, AgreeInv, OneSimBatch, CollectedIsOver, NotedAccepted, OkIsHeld, Calm, BusySim, Busy
<1>1. ASSUME NEW r \in Requests, Submit(r) PROVE OkIsHeld'
  BY <1>1 DEF Submit
<1>2. ASSUME NEW r \in Requests, Answer(r) PROVE OkIsHeld'
  BY <1>2 DEF Answer, Advance, Collected
<1>3. ASSUME NEW r \in Requests, Raise(r) PROVE OkIsHeld'
  BY <1>3 DEF Raise, Advance, Cancel
<1>4. ASSUME NEW r \in Requests, Reload(r) PROVE OkIsHeld'
  BY <1>4 DEF Reload, Advance, Collected, OkRows
<1>5. ASSUME NEW r \in Requests, Commit(r) PROVE OkIsHeld'
  BY <1>5 DEF Commit, Advance
<1>6. ASSUME NEW r \in Requests, NEW d \in Devices, Start(r, d) PROVE OkIsHeld'
  BY <1>6 DEF Start, Become
<1>7. ASSUME NEW r \in Requests, NEW d \in Devices, Call(r, d, "call", "ok", "failed") PROVE OkIsHeld'
  BY <1>7 DEF Call, Become, Fault, CarryOut
<1>8. ASSUME NEW d \in Devices, Delete(d) PROVE OkIsHeld'
  BY <1>8 DEF Delete
<1>9. CASE UNCHANGED vars
  BY <1>9 DEF vars
<1> QED
  BY <1>1, <1>2, <1>3, <1>4, <1>5, <1>6, <1>7, <1>8, <1>9 DEF SimStep, Collect

LEMMA StepDebt == IInv /\ AgreeInv /\ SimStep => DebtIsOpen'
<1> SUFFICES ASSUME IInv, AgreeInv, SimStep PROVE DebtIsOpen'
  OBVIOUS
<1> USE DEF IInv, Types, device, table, request, TasksAreOwn, SimTasks, AgreeInv, OneSimBatch, CollectedIsOver, NotedAccepted, OkIsHeld, DebtIsOpen, Calm, BusySim, Busy
<1>1. ASSUME NEW r \in Requests, Submit(r) PROVE DebtIsOpen'
  BY <1>1 DEF Submit
<1>2. ASSUME NEW r \in Requests, Answer(r) PROVE DebtIsOpen'
  <2>1. UNCHANGED <<device, table, kind, overlapped, task>> /\ stage' = [stage EXCEPT ![r] = "answered"]
    BY <1>2 DEF Answer, Advance
  <2>2. kind[r] = "sim" => \A d \in Devices : task[r][d] # "ok"
    BY <1>2 DEF Answer
  <2>3. Calm' => Calm
    BY <1>2, <2>1 DEF Answer, Collected
  <2>4. \A q \in Requests, d \in Devices :
            BusySim(q) /\ task[q][d] = "ok" => BusySim(q)' /\ task'[q][d] = "ok"
    BY <2>1, <2>2
  <2> HIDE DEF Calm, BusySim
  <2> QED
    BY <2>1, <2>3, <2>4
<1>3. ASSUME NEW r \in Requests, Raise(r) PROVE DebtIsOpen'
  BY <1>3 DEF Raise, Advance, Cancel
<1>4. ASSUME NEW r \in Requests, Reload(r) PROVE DebtIsOpen'
  BY <1>4 DEF Reload, Advance, Collected, OkRows
<1>5. ASSUME NEW r \in Requests, Commit(r) PROVE DebtIsOpen'
  <2> SUFFICES ASSUME Calm', NEW d \in rows'
               PROVE  sim'[d] = held'[d] \/ \E q \in Requests : BusySim(q)' /\ task'[q][d] = "ok"
    OBVIOUS
  <2>1. kind[r] = "sim" /\ stage[r] = "commit"
    BY <1>5 DEF Commit, CommitsWereAccepted
  <2>2. noted[r] \subseteq rows
    BY <1>5, <2>1 DEF Commit, Advance
  <2>3. /\ sim' = [e \in Devices |-> IF e \in noted[r] THEN r ELSE sim[e]]
        /\ stage' = [stage EXCEPT ![r] = "answered"]
        /\ UNCHANGED <<device, rows, kind, overlapped, task>>
    BY <1>5, <2>2 DEF Commit, Advance
  <2>4. Calm /\ BusySim(r)
    BY <2>1, <2>3
  <2>5. CASE d \in noted[r]
    <3>1. task[r][d] = "ok"
      BY <2>1, <2>5
    <3> QED
      BY <2>3, <2>4, <2>5, <3>1
  <2>6. CASE d \notin noted[r]
    <3>1. task[r][d] # "ok"
      BY <2>1, <2>3, <2>6
    <3>2. \A q \in Requests : BusySim(q) => q = r
      BY <2>4
    <3>3. sim[d] = held[d]
      BY <2>3, <2>4, <3>1, <3>2
    <3> QED
      BY <2>3, <2>6, <3>3
  <2> QED
    BY <2>5, <2>6
<1>6. ASSUME NEW r \in Requests, NEW d \in Devices, Start(r, d) PROVE DebtIsOpen'
  BY <1>6 DEF Start, Become
<1>7. ASSUME NEW r \in Requests, NEW d \in Devices, Call(r, d, "call", "ok", "failed") PROVE DebtIsOpen'
  BY <1>7 DEF Call, Become, Fault, CarryOut
<1>8. ASSUME NEW d \in Devices, Delete(d) PROVE DebtIsOpen'
  BY <1>8 DEF Delete
<1>9. CASE UNCHANGED vars
  BY <1>9 DEF vars
<1> QED
  BY <1>1, <1>2, <1>3, <1>4, <1>5, <1>6, <1>7, <1>8, <1>9 DEF SimStep, Collect

LEMMA AgreeInductive == Spec => [](IInv /\ AgreeInv)
<1>1. Init => AgreeInv
  <2> SUFFICES ASSUME Init PROVE AgreeInv
    OBVIOUS
  <2> QED
    BY DEF Init, AgreeInv, OneSimBatch, CollectedIsOver, NotedAccepted, OkIsHeld, DebtIsOpen, BusySim, Busy
<1>2. IInv /\ AgreeInv /\ [Next]_vars => AgreeInv'
  <2> SUFFICES ASSUME IInv, AgreeInv, [Next]_vars PROVE AgreeInv'
    OBVIOUS
  <2>1. CASE SimStep
    BY <2>1, StepOneSim, StepOver, StepNoted, StepOk, StepDebt DEF AgreeInv
  <2>2. ASSUME NEW r \in Requests, OtherKindStep(r) PROVE AgreeInv'
    BY <2>2, OtherKindsKeep
  <2> QED
    BY <2>1, <2>2, OtherKindActions DEF Next, Run, SimStep
<1> QED
  BY <1>1, <1>2, Inductive, PTL DEF Spec

\* api_batch_sim stores after the devices have answered.  As long as no two SIM
\* batches run at once, no call fails and none of them is answered 500, every row
\* has the numbers its device holds whenever no SIM batch is under way, however
\* many batches came before and whatever rows were deleted.
THEOREM LoneBatchesKeepTruth == Spec => []LoneBatchesAgree
<1>1. AgreeInv => LoneBatchesAgree
  BY DEF AgreeInv, DebtIsOpen, Calm, BusySim, LoneBatchesAgree
<1> QED
  BY <1>1, AgreeInductive, PTL

-----------------------------------------------------------------------------
(***************************************************************************)
(* ScanProbe.                                                              *)
(***************************************************************************)

Unmoved == Hosts \ moved

\* Each address belongs to one device.
OneEach == \A d, e \in Hosts : where[d] = where[e] /\ where[d] # 0 => d = e

\* What a phase has still to do is what the one before it left.
TodoOfPhase ==
    /\ phase \in {"warm", "arp"} => found = {}
    /\ phase = "tcp" => todo \subseteq iplist
    /\ phase = "verify" => \A a \in todo : \E f \in found : f.ip = a
    /\ phase = "done" => todo = {}

\* A device that was pinged, and stayed, is in the kernel's table from then on,
\* and in the scan's copy once that is read.
PingedAreMet ==
    \A d \in Unmoved : where[d] \in pinged =>
        /\ neighbour[where[d]] = d
        /\ phase \notin {"warm", "arp"} => arptable[where[d]] = d

\* A verified device had the address when it was asked, and got the MAC the copy
\* has for it.
VerifiedAtAddress ==
    \A f \in found : f.dev # None =>
        f.mac = arptable[f.ip] /\ (f.dev \in Unmoved => where[f.dev] = f.ip)

\* The list has the whole network if it is small, or else every known address if
\* those are few.
ListIsEnough ==
    phase \notin {"warm", "arp"} =>
        \A a \in Addrs :
            Size <= Limit \/ (a \in Known /\ Cardinality(Known) <= Limit) => a \in iplist

\* A board on the list that stayed is never dropped from one phase to the next.
Followed(d) ==
    /\ phase = "tcp" => where[d] \in todo \/ Open80(where[d]) \in found
    /\ phase = "verify" => where[d] \in todo \/ \E f \in found : f.ip = where[d] /\ f.dev = d
    /\ phase = "done" => \E f \in found : f.ip = where[d] /\ f.dev = d

BoardsAreFollowed == losses = 0 => \A d \in Boards \ moved : where[d] \in iplist => Followed(d)

ProbeInv ==
    /\ ProbeTypeOK
    /\ IsFiniteSet(pinging)
    /\ OneEach
    /\ TodoOfPhase
    /\ PingedAreMet
    /\ VerifiedAtAddress
    /\ ListIsEnough
    /\ BoardsAreFollowed

LEMMA AddressesFinite ==
    /\ Size \in Nat /\ Limit \in Nat
    /\ IsFiniteSet(Addrs) /\ Cardinality(Addrs) = Size
    /\ \A S : S \subseteq Addrs => IsFiniteSet(S) /\ S \subseteq Int
<1>1. Size \in Nat /\ Limit \in Nat
  BY ScanProbeConstants
<1>2. IsFiniteSet(Addrs) /\ Cardinality(Addrs) = Size
  BY <1>1, FS_Interval DEF Addrs
<1>3. ASSUME NEW S, S \subseteq Addrs PROVE IsFiniteSet(S) /\ S \subseteq Int
  <2>1. IsFiniteSet(S)
    BY <1>2, <1>3, FS_Subset
  <2>2. S \subseteq Int
    BY <1>3 DEF Addrs
  <2> QED BY <2>1, <2>2
<1> QED BY <1>1, <1>2, <1>3

\* A larger address has more addresses of a set before it.
LEMMA RanksDiffer ==
    ASSUME NEW S, S \subseteq Addrs, NEW a \in S, NEW b \in S, a < b
    PROVE  Cardinality({x \in S : x < a}) < Cardinality({x \in S : x < b})
<1> DEFINE A == {x \in S : x < a}
           B == {x \in S : x < b}
<1>1. IsFiniteSet(S)
  BY AddressesFinite
<1>2. S \subseteq Int
  BY AddressesFinite
<1>3. A \in SUBSET B /\ a \in B /\ a \notin A
  <2>1. a \in Int /\ b \in Int
    BY <1>2
  <2>2. \A x \in S : x < a => x < b
    BY <1>2, <2>1
  <2>3. A \in SUBSET B
    BY <2>2
  <2>4. a \in B
    OBVIOUS
  <2>5. a \notin A
    BY <2>1
  <2> HIDE DEF A, B
  <2> QED BY <2>3, <2>4, <2>5
<1>4. IsFiniteSet(B)
  BY <1>1, FS_Subset
<1>5. IsFiniteSet(A) /\ Cardinality(A) <= Cardinality(B) /\ Cardinality(A) # Cardinality(B)
  <2> HIDE DEF A, B
  <2> QED BY <1>3, <1>4, FS_Subset
<1>6. Cardinality(A) \in Nat /\ Cardinality(B) \in Nat
  <2> HIDE DEF A, B
  <2> QED BY <1>4, <1>5, FS_CardinalityType
<1> QED BY <1>5, <1>6

\* Lowest(n, S) is a part of S of at most n addresses.
LEMMA LowestBounded ==
    ASSUME NEW S, S \subseteq Addrs, NEW n \in Nat
    PROVE  /\ Lowest(n, S) \subseteq S
           /\ IsFiniteSet(Lowest(n, S))
           /\ Cardinality(Lowest(n, S)) <= n
<1> DEFINE L == Lowest(n, S)
           rank == [a \in L |-> Cardinality({x \in S : x < a})]
           T == 0..n - 1
<1>1. L \subseteq S
  BY DEF Lowest
<1>2. IsFiniteSet(S)
  BY AddressesFinite
<1>3. IsFiniteSet(L)
  <2> HIDE DEF L
  <2> QED BY <1>1, <1>2, FS_Subset
<1>4. ASSUME NEW a \in L PROVE rank[a] \in T
  <2>1. IsFiniteSet({x \in S : x < a})
    BY <1>2, FS_Subset
  <2>2. Cardinality({x \in S : x < a}) \in Nat
    BY <2>1, FS_CardinalityType
  <2>3. Cardinality({x \in S : x < a}) < n
    BY DEF Lowest
  <2> QED BY <2>2, <2>3
<1>5. ASSUME NEW a \in L, NEW b \in L, rank[a] = rank[b] PROVE a = b
  <2>1. a \in S /\ b \in S /\ a \in Int /\ b \in Int
    BY <1>1, AddressesFinite
  <2>2. rank[a] \in Int /\ rank[b] \in Int
    <3> HIDE DEF rank
    <3> QED BY <1>4
  <2>3. a < b => rank[a] < rank[b]
    BY <2>1, RanksDiffer
  <2>4. b < a => rank[b] < rank[a]
    BY <2>1, RanksDiffer
  <2> HIDE DEF rank, L
  <2> QED BY <2>1, <2>2, <2>3, <2>4, <1>5
<1>6. rank \in Injection(L, T)
  <2>1. rank \in [L -> T]
    BY <1>4
  <2> HIDE DEF rank, L, T
  <2> QED BY <2>1, <1>5 DEF Injection, IsInjective
<1>7. IsFiniteSet(T) /\ Cardinality(T) = n
  BY FS_Interval
<1>8. Cardinality(L) <= Cardinality(T)
  <2> HIDE DEF rank, L, T
  <2> QED BY <1>6, <1>7, FS_Injection
<1> QED BY <1>1, <1>3, <1>7, <1>8

\* It is all of a set that is small enough.
LEMMA LowestOfFew ==
    ASSUME NEW S, S \subseteq Addrs, NEW n \in Nat, Cardinality(S) <= n
    PROVE  Lowest(n, S) = S
<1>1. IsFiniteSet(S)
  BY AddressesFinite
<1> SUFFICES ASSUME NEW a \in S PROVE Cardinality({x \in S : x < a}) < n
  BY DEF Lowest
<1> DEFINE A == {x \in S : x < a}
<1>2. A \in SUBSET S /\ A # S
  <2>1. a \in Int /\ ~(a < a)
    BY AddressesFinite
  <2> QED BY <2>1
<1>3. IsFiniteSet(A) /\ Cardinality(A) <= Cardinality(S) /\ Cardinality(A) # Cardinality(S)
  <2> HIDE DEF A
  <2> QED BY <1>1, <1>2, FS_Subset
<1>4. Cardinality(A) \in Nat /\ Cardinality(S) \in Nat
  <2> HIDE DEF A
  <2> QED BY <1>1, <1>3, FS_CardinalityType
<1> QED BY <1>3, <1>4

\* The list keeps to the limit; it is the whole network when that is small, and
\* has every known address when those are few.
LEMMA ListedKeepsLimit ==
    ASSUME NEW known, known \subseteq Addrs, NEW s \in Listed(known)
    PROVE  /\ s \subseteq Addrs
           /\ Cardinality(s) <= Limit
           /\ Size <= Limit => s = Addrs
           /\ Cardinality(known) <= Limit => known \subseteq s
<1>1. IsFiniteSet(Addrs) /\ Cardinality(Addrs) = Size /\ Size \in Nat /\ Limit \in Nat
  BY AddressesFinite
<1>2. /\ IsFiniteSet(known) /\ Cardinality(known) \in Nat /\ Cardinality(known) <= Size
      /\ Cardinality(known) = Size => known = Addrs
  BY <1>1, FS_Subset, FS_CardinalityType
<1>3. CASE Cardinality(known) >= Limit
  <2>1. s \in SUBSET known /\ Cardinality(s) = Limit
    BY <1>3 DEF Listed
  <2>2. Cardinality(known) = Limit => s = known
    BY <1>2, <2>1, FS_Subset
  <2> QED BY <1>1, <1>2, <1>3, <2>1, <2>2
<1>4. CASE ~(Cardinality(known) >= Limit)
  <2> DEFINE n == Limit - Cardinality(known)
             first == Lowest(Limit, Addrs)
             rest == first \ known
             more == Lowest(n, rest)
  <2>1. s = known \cup more
    BY <1>4 DEF Listed
  <2>2. n \in Nat /\ Cardinality(known) + n = Limit
    BY <1>1, <1>2, <1>4
  <2>3. first \subseteq Addrs /\ rest \subseteq Addrs
    BY <1>1, LowestBounded
  <2>4. more \subseteq rest /\ IsFiniteSet(more) /\ Cardinality(more) <= n
    <3> HIDE DEF n, rest
    <3> QED BY <2>2, <2>3, LowestBounded
  <2>5. Cardinality(s) <= Limit
    <3> HIDE DEF n, more, rest
    <3>1. Cardinality(s) = Cardinality(known) + Cardinality(more) - Cardinality(known \cap more)
      BY <1>2, <2>1, <2>4, FS_Union
    <3>2. Cardinality(more) \in Nat /\ Cardinality(known \cap more) \in Nat
      BY <1>2, <2>4, FS_Subset, FS_CardinalityType
    <3> QED BY <1>2, <2>2, <2>4, <3>1, <3>2
  <2>6. ASSUME Size <= Limit PROVE s = Addrs
    <3>1. first = Addrs
      BY <1>1, <2>6, LowestOfFew
    <3>2. rest = Addrs \ known
      BY <3>1
    <3>3. Cardinality(rest) <= n
      <4>1. Cardinality(Addrs) = Cardinality(known) + Cardinality(rest) - Cardinality(known \cap rest)
        <5>1. IsFiniteSet(rest)
          <6> HIDE DEF rest
          <6> QED BY <1>1, <2>3, FS_Subset
        <5>2. known \cup rest = Addrs
          BY <3>2
        <5> HIDE DEF rest
        <5> QED BY <1>2, <5>1, <5>2, FS_Union
      <4>2. Cardinality(known \cap rest) = 0
        <5>1. known \cap rest = {}
          OBVIOUS
        <5> HIDE DEF rest
        <5> QED BY <5>1, FS_EmptySet
      <4>3. Cardinality(rest) \in Nat
        <5> HIDE DEF rest
        <5> QED BY <1>1, <2>3, FS_Subset, FS_CardinalityType
      <4> HIDE DEF rest, n
      <4> QED BY <1>1, <1>2, <2>2, <2>6, <4>1, <4>2, <4>3
    <3>4. more = rest
      <4> HIDE DEF n, rest
      <4> QED BY <2>2, <2>3, <3>3, LowestOfFew
    <3> HIDE DEF more, rest
    <3> QED BY <1>2, <2>1, <3>2, <3>4
  <2>7. s \subseteq Addrs
    <3> HIDE DEF more, rest
    <3> QED BY <2>1, <2>3, <2>4
  <2> HIDE DEF more
  <2> QED BY <2>1, <2>5, <2>6, <2>7
<1> QED BY <1>3, <1>4

\* Met, for any address: a device that stays at its address and is in the table,
\* or answers from there, is in the table afterwards.
LEMMA MetKeeps ==
    ASSUME ProbeTypeOK, OneEach, NEW a \in Addrs
    PROVE  /\ Met(a) \in [Addrs -> Hosts \cup {None}]
           /\ \A d \in Hosts : where[d] = a => Met(a)[a] = d
           /\ \A d \in Hosts : where[d] \in Addrs /\ neighbour[where[d]] = d => Met(a)[where[d]] = d
<1>1. neighbour \in [Addrs -> Hosts \cup {None}]
  BY DEF ProbeTypeOK
<1>2. 0 \notin Addrs
  BY DEF Addrs
<1>3. CASE At(a) = {}
  <2>1. \A d \in Hosts : where[d] # a
    BY <1>3 DEF At
  <2> QED BY <1>1, <1>3, <2>1 DEF Met
<1>4. CASE At(a) # {}
  <2> DEFINE e == CHOOSE d \in Hosts : where[d] = a
  <2>1. e \in Hosts /\ where[e] = a
    BY <1>4 DEF At
  <2>2. Met(a) = [neighbour EXCEPT ![a] = e]
    BY <1>4 DEF Met
  <2> HIDE DEF e
  <2>3. \A d \in Hosts : where[d] = a => d = e
    BY <1>2, <2>1 DEF OneEach
  <2> QED BY <1>1, <2>1, <2>2, <2>3
<1> QED BY <1>3, <1>4

LEMMA PingTypes ==
    ASSUME ProbeInv, FreeWorker, NEW a \in Addrs, Ping(a)
    PROVE  /\ neighbour' \in [Addrs -> Hosts \cup {None}]
           /\ pinging' \subseteq Addrs \X Nat /\ IsFiniteSet(pinging')
           /\ Cardinality(pinging') <= PoolSize
           /\ pinged' \subseteq Addrs
<1>1. neighbour' \in [Addrs -> Hosts \cup {None}]
  BY MetKeeps DEF ProbeInv, Ping
<1>2. pinging' \in {pinging, pinging \cup {<<a, now>>}}
  BY DEF Ping
<1>3. IsFiniteSet(pinging) /\ pinging \subseteq Addrs \X Nat /\ now \in Nat /\ load \in Nat
  BY DEF ProbeInv, ProbeTypeOK
<1>4. Cardinality(pinging) \in Nat /\ PoolSize \in Nat
  BY <1>3, FS_CardinalityType, ScanProbeConstants
<1>5. Cardinality(pinging) + 1 <= PoolSize
  BY <1>3, <1>4 DEF FreeWorker
<1>6. CASE pinging' = pinging
  BY <1>1, <1>3, <1>4, <1>5, <1>6 DEF ProbeInv, ProbeTypeOK, Ping
<1>7. CASE pinging' = pinging \cup {<<a, now>>}
  <2>1. /\ IsFiniteSet(pinging')
        /\ Cardinality(pinging') \in {Cardinality(pinging), Cardinality(pinging) + 1}
    BY <1>3, <1>7, FS_AddElement
  <2>2. pinging' \subseteq Addrs \X Nat
    BY <1>3, <1>7
  <2>3. Cardinality(pinging') <= PoolSize
    BY <1>4, <1>5, <2>1
  <2> QED BY <1>1, <2>1, <2>2, <2>3 DEF ProbeInv, ProbeTypeOK, Ping
<1> QED BY <1>2, <1>6, <1>7

LEMMA StepProbeTypes ==
    ProbeInv /\ [ProbeNext]_probeVars => ProbeTypeOK' /\ IsFiniteSet(pinging')
<1> SUFFICES ASSUME ProbeInv, [ProbeNext]_probeVars
             PROVE  ProbeTypeOK' /\ IsFiniteSet(pinging')
  OBVIOUS
<1> USE DEF ProbeInv, ProbeTypeOK, network, results, Phases
<1>1. CASE StartPing
  <2>1. PICK a \in Lowest(1, todo) :
            /\ todo' = todo \ {a}
            /\ IF now >= Deadline THEN UNCHANGED <<pinged, neighbour, pinging>> ELSE Ping(a)
    BY <1>1 DEF StartPing
  <2>2. a \in Addrs
    BY DEF Lowest
  <2>3. CASE now >= Deadline
    BY <1>1, <2>1, <2>3 DEF StartPing
  <2>4. CASE ~(now >= Deadline)
    BY <1>1, <2>1, <2>2, <2>4, PingTypes DEF StartPing
  <2> QED BY <2>3, <2>4
<1>2. CASE EndPing
  <2>1. PICK p \in pinging : pinging' = pinging \ {p} /\ neighbour' = Met(p[1])
    BY <1>2 DEF EndPing
  <2>2. p[1] \in Addrs
    OBVIOUS
  <2>3. neighbour' \in [Addrs -> Hosts \cup {None}]
    BY <2>1, <2>2, MetKeeps
  <2>4. IsFiniteSet(pinging') /\ Cardinality(pinging') <= Cardinality(pinging)
    BY <2>1, FS_Subset
  <2>5. Cardinality(pinging) \in Nat /\ Cardinality(pinging') \in Nat /\ PoolSize \in Nat
    BY <2>4, FS_CardinalityType, ScanProbeConstants
  <2>6. Cardinality(pinging') <= PoolSize
    BY <2>4, <2>5
  <2> QED BY <1>2, <2>1, <2>3, <2>4, <2>6 DEF EndPing
<1>3. CASE WarmEnds
  BY <1>3 DEF WarmEnds
<1>4. CASE ReadTable
  <2>1. {a \in Addrs : neighbour[a] # None} \subseteq Addrs
    OBVIOUS
  <2>2. iplist' \subseteq Addrs /\ Cardinality(iplist') <= Limit
    BY <1>4, <2>1, ListedKeepsLimit DEF ReadTable
  <2>3. found' = {}
    BY <1>4 DEF ReadTable, TodoOfPhase
  <2> QED BY <1>4, <2>2, <2>3 DEF ReadTable
<1>5. ASSUME NEW a \in Addrs, Tcp(a) PROVE ProbeTypeOK' /\ IsFiniteSet(pinging')
  <2>1. neighbour' \in [Addrs -> Hosts \cup {None}]
    BY <1>5, MetKeeps DEF Tcp
  <2>2. a \in iplist
    BY <1>5 DEF Tcp, TodoOfPhase
  <2>3. found' \subseteq [ip : iplist, mac : Hosts \cup {None}, dev : Boards \cup {None}]
    BY <1>5, <2>2 DEF Tcp, Open80
  <2>4. losses' \in Nat
    BY <1>5 DEF Tcp, Lost
  <2> QED BY <1>5, <2>1, <2>3, <2>4 DEF Tcp
<1>6. ASSUME NEW a \in Addrs, Probe(a) PROVE ProbeTypeOK' /\ IsFiniteSet(pinging')
  <2>1. a \in iplist
    BY <1>6 DEF Probe, TodoOfPhase
  <2>2. found' \subseteq [ip : iplist, mac : Hosts \cup {None}, dev : Boards \cup {None}]
    <3>1. arptable[a] \in Hosts \cup {None}
      OBVIOUS
    <3> QED BY <1>6, <2>1, <3>1 DEF Probe, At
  <2>3. losses' \in Nat
    BY <1>6 DEF Probe, Lost
  <2> QED BY <1>6, <2>2, <2>3 DEF Probe
<1>7. CASE TcpEnds
  <2>1. todo' \subseteq Addrs
    BY <1>7 DEF TcpEnds
  <2> QED BY <1>7, <2>1 DEF TcpEnds
<1>8. CASE VerifyEnds
  BY <1>8 DEF VerifyEnds
<1>9. CASE Release
  <2>1. load' \in Nat
    BY <1>9 DEF Release
  <2> QED BY <1>9, <2>1 DEF Release
<1>10. CASE Tick
  <2>1. now' \in Nat
    BY <1>10 DEF Tick
  <2> QED BY <1>10, <2>1 DEF Tick
<1>11. ASSUME NEW d \in Hosts, Move(d) PROVE ProbeTypeOK' /\ IsFiniteSet(pinging')
  <2>1. PICK a \in Addrs \cup {0} : where' = [where EXCEPT ![d] = a]
    BY <1>11 DEF Move
  <2>2. where' \in [Hosts -> Addrs \cup {0}] /\ moves' \in Nat /\ moved' \subseteq Hosts
    BY <1>11, <2>1 DEF Move
  <2> QED BY <1>11, <2>2 DEF Move
<1>12. CASE UNCHANGED probeVars
  BY <1>12 DEF probeVars
<1> QED
  BY <1>1, <1>2, <1>3, <1>4, <1>5, <1>6, <1>7, <1>8, <1>9, <1>10, <1>11, <1>12
  DEF ProbeNext, Scanning

\* Only a move changes an address; it goes to one that is free, and marks the
\* device.
LEMMA StepOneEach == ProbeInv /\ [ProbeNext]_probeVars => OneEach'
<1> SUFFICES ASSUME ProbeInv, [ProbeNext]_probeVars PROVE OneEach'
  OBVIOUS
<1>1. ASSUME NEW d \in Hosts, Move(d) PROVE OneEach'
  <2>1. PICK a \in Addrs \cup {0} : (a = 0 \/ At(a) = {}) /\ where' = [where EXCEPT ![d] = a]
    BY <1>1 DEF Move
  <2>2. where \in [Hosts -> Addrs \cup {0}]
    BY DEF ProbeInv, ProbeTypeOK
  <2> QED BY <2>1, <2>2 DEF ProbeInv, OneEach, At
<1>2. CASE UNCHANGED where
  BY <1>2 DEF ProbeInv, OneEach
<1> QED
  BY <1>1, <1>2
  DEF ProbeNext, Scanning, StartPing, EndPing, WarmEnds, ReadTable, Tcp, Probe, TcpEnds,
      VerifyEnds, Release, Tick, probeVars, network

LEMMA Unmoving ==
    ASSUME ProbeInv, [ProbeNext]_probeVars
    PROVE  /\ moved \subseteq moved'
           /\ \A d \in Hosts \ moved' : where'[d] = where[d]
<1>1. ASSUME NEW d \in Hosts, Move(d)
      PROVE  moved \subseteq moved' /\ \A e \in Hosts \ moved' : where'[e] = where[e]
  BY <1>1 DEF Move, ProbeInv, ProbeTypeOK
<1> QED
  BY <1>1
  DEF ProbeNext, Scanning, StartPing, EndPing, WarmEnds, ReadTable, Tcp, Probe, TcpEnds,
      VerifyEnds, Release, Tick, probeVars, network

LEMMA StepTodoOfPhase == ProbeInv /\ [ProbeNext]_probeVars => TodoOfPhase'
<1> SUFFICES ASSUME ProbeInv, [ProbeNext]_probeVars PROVE TodoOfPhase'
  OBVIOUS
<1> USE DEF ProbeInv, TodoOfPhase, results, network
<1>1. CASE StartPing \/ EndPing \/ WarmEnds
  BY <1>1 DEF StartPing, EndPing, WarmEnds
<1>2. CASE ReadTable
  BY <1>2 DEF ReadTable
<1>3. ASSUME NEW a \in Addrs, Tcp(a) PROVE TodoOfPhase'
  BY <1>3 DEF Tcp
<1>4. ASSUME NEW a \in Addrs, Probe(a) PROVE TodoOfPhase'
  <2>1. ASSUME NEW b \in todo' PROVE \E f \in found' : f.ip = b
    <3>1. b \in todo /\ b # a
      BY <1>4, <2>1 DEF Probe
    <3>2. PICK f \in found : f.ip = b
      BY <1>4, <3>1 DEF Probe
    <3>3. f \in found \ {Open80(a)}
      BY <3>1, <3>2 DEF Open80
    <3> QED BY <1>4, <3>2, <3>3 DEF Probe
  <2> QED BY <1>4, <2>1 DEF Probe
<1>5. CASE TcpEnds
  BY <1>5 DEF TcpEnds
<1>6. CASE VerifyEnds
  BY <1>6 DEF VerifyEnds
<1>7. CASE Release \/ Tick \/ UNCHANGED probeVars
  BY <1>7 DEF Release, Tick, probeVars
<1>8. ASSUME NEW d \in Hosts, Move(d) PROVE TodoOfPhase'
  BY <1>8 DEF Move
<1> QED
  BY <1>1, <1>2, <1>3, <1>4, <1>5, <1>6, <1>7, <1>8 DEF ProbeNext, Scanning

\* A step of the scan that asks at an address keeps the devices of PingedAreMet in
\* the table.
LEMMA AskingKeepsMet ==
    ASSUME ProbeInv, NEW a \in Addrs, neighbour' = Met(a), UNCHANGED <<where, moved>>,
           pinged' = pinged \/ pinged' = pinged \cup {a}
    PROVE  \A d \in Unmoved : where[d] \in pinged' => neighbour'[where[d]] = d
<1> SUFFICES ASSUME NEW d \in Unmoved, where[d] \in pinged'
             PROVE  Met(a)[where[d]] = d
  OBVIOUS
<1>1. d \in Hosts /\ pinged \subseteq Addrs
  BY DEF ProbeInv, ProbeTypeOK, Unmoved
<1>2. CASE where[d] = a
  BY <1>1, <1>2, MetKeeps DEF ProbeInv
<1>3. CASE where[d] # a
  <2>1. where[d] \in pinged
    BY <1>3
  <2>2. neighbour[where[d]] = d
    BY <2>1 DEF ProbeInv, PingedAreMet
  <2> QED BY <1>1, <2>1, <2>2, MetKeeps DEF ProbeInv
<1> QED BY <1>2, <1>3

LEMMA StepMet == ProbeInv /\ [ProbeNext]_probeVars => PingedAreMet'
<1> SUFFICES ASSUME ProbeInv, [ProbeNext]_probeVars PROVE PingedAreMet'
  OBVIOUS
<1> USE DEF PingedAreMet, Unmoved, results, network
<1>1. CASE StartPing
  <2>1. PICK a \in Lowest(1, todo) :
            IF now >= Deadline THEN UNCHANGED <<pinged, neighbour, pinging>> ELSE Ping(a)
    BY <1>1 DEF StartPing
  <2>2. a \in Addrs
    BY DEF Lowest, ProbeInv, ProbeTypeOK
  <2>3. CASE now >= Deadline
    BY <1>1, <2>1, <2>3 DEF StartPing, ProbeInv
  <2>4. CASE ~(now >= Deadline)
    BY <1>1, <2>1, <2>2, <2>4, AskingKeepsMet DEF StartPing, Ping
  <2> QED BY <2>3, <2>4
<1>2. CASE EndPing
  <2>1. PICK p \in pinging : neighbour' = Met(p[1])
    BY <1>2 DEF EndPing
  <2>2. p[1] \in Addrs
    BY DEF ProbeInv, ProbeTypeOK
  <2> QED BY <1>2, <2>1, <2>2, AskingKeepsMet DEF EndPing, ProbeInv
<1>3. ASSUME NEW a \in Addrs, Tcp(a) PROVE PingedAreMet'
  <2>1. neighbour' = Met(a) \/ neighbour' = neighbour
    BY <1>3 DEF Tcp
  <2> QED BY <1>3, <2>1, AskingKeepsMet DEF Tcp, ProbeInv
<1>4. CASE WarmEnds \/ Release \/ Tick \/ UNCHANGED probeVars
  BY <1>4 DEF WarmEnds, Release, Tick, probeVars, ProbeInv
<1>5. CASE ReadTable
  BY <1>5 DEF ReadTable, ProbeInv
<1>6. ASSUME NEW a \in Addrs, Probe(a) PROVE PingedAreMet'
  BY <1>6 DEF Probe, ProbeInv
<1>7. CASE TcpEnds \/ VerifyEnds
  BY <1>7 DEF TcpEnds, VerifyEnds, ProbeInv
<1>8. ASSUME NEW d \in Hosts, Move(d) PROVE PingedAreMet'
  <2>1. /\ Unmoved' \subseteq Unmoved
        /\ \A e \in Unmoved' : where'[e] = where[e]
    BY Unmoving
  <2> QED BY <1>8, <2>1 DEF Move, ProbeInv
<1> QED
  BY <1>1, <1>2, <1>3, <1>4, <1>5, <1>6, <1>7, <1>8 DEF ProbeNext, Scanning

LEMMA StepVerified == ProbeInv /\ [ProbeNext]_probeVars => VerifiedAtAddress'
<1> SUFFICES ASSUME ProbeInv, [ProbeNext]_probeVars PROVE VerifiedAtAddress'
  OBVIOUS
<1> USE DEF VerifiedAtAddress, Unmoved, results, network
<1>1. CASE StartPing \/ EndPing \/ WarmEnds \/ Release \/ Tick \/ TcpEnds \/ VerifyEnds
           \/ UNCHANGED probeVars
  BY <1>1 DEF StartPing, EndPing, WarmEnds, Release, Tick, TcpEnds, VerifyEnds, probeVars, ProbeInv
<1>2. CASE ReadTable
  BY <1>2 DEF ReadTable, ProbeInv, TodoOfPhase
<1>3. ASSUME NEW a \in Addrs, Tcp(a) PROVE VerifiedAtAddress'
  <2>1. \A f \in found' : f \in found \/ f.dev = None
    BY <1>3 DEF Tcp, Open80
  <2> QED BY <1>3, <2>1 DEF Tcp, ProbeInv
<1>4. ASSUME NEW a \in Addrs, Probe(a) PROVE VerifiedAtAddress'
  <2>1. \A f \in found' : f \in found \/ (f.ip = a /\ f.mac = arptable[a] /\ where[f.dev] = a)
    BY <1>4 DEF Probe, At
  <2> QED BY <1>4, <2>1 DEF Probe, ProbeInv
<1>5. ASSUME NEW d \in Hosts, Move(d) PROVE VerifiedAtAddress'
  <2>1. /\ Unmoved' \subseteq Unmoved
        /\ \A e \in Unmoved' : where'[e] = where[e]
    BY Unmoving
  <2> QED BY <1>5, <2>1 DEF Move, ProbeInv
<1> QED
  BY <1>1, <1>2, <1>3, <1>4, <1>5 DEF ProbeNext, Scanning

LEMMA StepList == ProbeInv /\ [ProbeNext]_probeVars => ListIsEnough'
<1> SUFFICES ASSUME ProbeInv, [ProbeNext]_probeVars PROVE ListIsEnough'
  OBVIOUS
<1> USE DEF ListIsEnough, Known, results, network
<1>1. CASE StartPing \/ EndPing \/ WarmEnds \/ Release \/ Tick \/ TcpEnds \/ VerifyEnds
           \/ UNCHANGED probeVars
  BY <1>1 DEF StartPing, EndPing, WarmEnds, Release, Tick, TcpEnds, VerifyEnds, probeVars, ProbeInv
<1>2. CASE ReadTable
  <2> DEFINE known == {a \in Addrs : neighbour[a] # None}
  <2>1. iplist' \in Listed(known) /\ Known' = known
    BY <1>2 DEF ReadTable
  <2>2. known \subseteq Addrs
    OBVIOUS
  <2> HIDE DEF known, Known
  <2>3. /\ Size <= Limit => iplist' = Addrs
        /\ Cardinality(known) <= Limit => known \subseteq iplist'
    BY <2>1, <2>2, ListedKeepsLimit
  <2> QED BY <2>1, <2>3
<1>3. ASSUME NEW a \in Addrs, Tcp(a) \/ Probe(a) PROVE ListIsEnough'
  BY <1>3 DEF Tcp, Probe, ProbeInv
<1>4. ASSUME NEW d \in Hosts, Move(d) PROVE ListIsEnough'
  BY <1>4 DEF Move, ProbeInv
<1> QED
  BY <1>1, <1>2, <1>3, <1>4 DEF ProbeNext, Scanning

LEMMA LossesStay ==
    ASSUME ProbeInv, [ProbeNext]_probeVars, losses' = 0
    PROVE  losses = 0
<1>1. losses \in Nat
  BY DEF ProbeInv, ProbeTypeOK
<1>2. CASE Lost
  BY <1>1, <1>2 DEF Lost
<1>3. CASE losses' = losses
  BY <1>3
<1> QED
  BY <1>2, <1>3
  DEF ProbeNext, Scanning, StartPing, EndPing, WarmEnds, ReadTable, Tcp, Probe, TcpEnds,
      VerifyEnds, Release, Tick, Move, probeVars

LEMMA StepFollowed == ProbeInv /\ [ProbeNext]_probeVars => BoardsAreFollowed'
<1> SUFFICES ASSUME ProbeInv, [ProbeNext]_probeVars, losses' = 0,
                    NEW d \in Boards \ moved', where'[d] \in iplist'
             PROVE  Followed(d)'
  BY DEF BoardsAreFollowed, Followed, Open80
<1>1. d \in Hosts /\ d # None
  BY ScanProbeConstants
<1>2. losses = 0 /\ d \in Boards \ moved /\ where'[d] = where[d]
  BY <1>1, LossesStay, Unmoving
<1>3. where[d] \in iplist => Followed(d)
  BY <1>2 DEF ProbeInv, BoardsAreFollowed
<1> USE DEF results, network, Followed
<1>4. CASE StartPing \/ WarmEnds
  BY <1>4 DEF StartPing, WarmEnds
<1>5. CASE EndPing \/ Release \/ Tick \/ UNCHANGED probeVars
  BY <1>2, <1>3, <1>5 DEF EndPing, Release, Tick, probeVars, Open80
<1>6. CASE ReadTable
  BY <1>2, <1>6 DEF ReadTable
<1>7. ASSUME NEW a \in Addrs, Tcp(a) PROVE Followed(d)'
  <2>1. phase = "tcp" /\ phase' = "tcp" /\ where[d] \in iplist
    BY <1>2, <1>7 DEF Tcp
  <2>2. found' = IF At(a) = {} THEN found ELSE found \cup {Open80(a)}
    <3>1. ~Lost
      BY <1>2 DEF Lost
    <3> QED BY <1>7, <3>1 DEF Tcp
  <2>3. CASE where[d] = a
    <3>1. At(a) # {}
      BY <1>1, <2>3 DEF At
    <3> QED BY <1>2, <2>1, <2>2, <2>3, <3>1 DEF Open80
  <2>4. CASE where[d] # a
    BY <1>2, <1>3, <1>7, <2>1, <2>2, <2>4 DEF Tcp, Open80
  <2> QED BY <2>3, <2>4
<1>8. ASSUME NEW a \in Addrs, Probe(a) PROVE Followed(d)'
  <2>1. phase = "verify" /\ phase' = "verify" /\ where[d] \in iplist /\ todo' = todo \ {a}
    BY <1>2, <1>8 DEF Probe
  <2>2. found' = (found \ {Open80(a)})
                 \cup {[ip |-> a, mac |-> arptable[a], dev |-> e] : e \in At(a) \cap Boards}
    <3>1. ~Lost
      BY <1>2 DEF Lost
    <3> QED BY <1>8, <3>1 DEF Probe
  <2>3. CASE where[d] = a
    <3>1. d \in At(a) \cap Boards
      BY <1>1, <1>2, <2>3 DEF At
    <3>2. [ip |-> a, mac |-> arptable[a], dev |-> d] \in found'
      BY <2>2, <3>1
    <3> QED BY <1>2, <2>1, <2>3, <3>2
  <2>4. CASE where[d] # a
    <3>1. \A f \in found : f.ip = where[d] /\ f.dev = d => f \in found'
      BY <2>2, <2>4 DEF Open80
    <3> QED BY <1>2, <1>3, <2>1, <2>4, <3>1
  <2> QED BY <2>3, <2>4
<1>9. CASE TcpEnds
  <2>1. /\ phase = "tcp" /\ todo = {} /\ phase' = "verify" /\ found' = found
        /\ todo' = {f.ip : f \in found} /\ iplist' = iplist
    BY <1>9 DEF TcpEnds
  <2>2. Open80(where[d]) \in found
    BY <1>2, <1>3, <2>1
  <2>3. where[d] \in todo'
    BY <2>1, <2>2 DEF Open80
  <2> QED BY <1>2, <2>1, <2>3
<1>10. CASE VerifyEnds
  BY <1>2, <1>3, <1>10 DEF VerifyEnds
<1>11. ASSUME NEW e \in Hosts, Move(e) PROVE Followed(d)'
  BY <1>2, <1>3, <1>11 DEF Move, Open80
<1> QED
  BY <1>4, <1>5, <1>6, <1>7, <1>8, <1>9, <1>10, <1>11 DEF ProbeNext, Scanning

LEMMA ProbeInitHolds == ProbeInit => ProbeInv
<1> SUFFICES ASSUME ProbeInit PROVE ProbeInv
  OBVIOUS
<1>1. todo \subseteq Addrs
  BY LowestBounded, AddressesFinite DEF ProbeInit
<1>2. IsFiniteSet(pinging) /\ Cardinality(pinging) = 0 /\ Cardinality(iplist) = 0
  BY FS_EmptySet DEF ProbeInit
<1>3. PoolSize \in Nat /\ Limit \in Nat /\ MaxLoad \in Nat
  BY ScanProbeConstants
<1>4. ProbeTypeOK
  BY <1>1, <1>2, <1>3 DEF ProbeInit, ProbeTypeOK, Phases
<1> QED
  BY <1>2, <1>4
  DEF ProbeInit, ProbeInv, OneEach, TodoOfPhase, PingedAreMet, VerifiedAtAddress, ListIsEnough,
      BoardsAreFollowed

LEMMA ProbeInductive == ProbeSpec => []ProbeInv
<1>1. ProbeInv /\ [ProbeNext]_probeVars => ProbeInv'
  BY StepProbeTypes, StepOneEach, StepTodoOfPhase, StepMet, StepVerified, StepList, StepFollowed
  DEF ProbeInv
<1> QED
  BY ProbeInitHolds, <1>1, PTL DEF ProbeSpec

\* Types (backend/security.py, _scan_worker of backend/routes/scan.py): the pings
\* keep within the pool, and the list within its limit, for any network.
THEOREM ProbeTypeCorrect == ProbeSpec => []ProbeTypeOK
<1>1. ProbeInv => ProbeTypeOK
  BY DEF ProbeInv
<1> QED
  BY ProbeInductive, <1>1, PTL

\* A board that stays is found when nothing is lost, its address being within the
\* limit (scan_subnet and _scan_worker), whatever other leases and batches do.
THEOREM AnswerersFound == ProbeSpec => []AnswerersAreFound
<1>1. ProbeInv => AnswerersAreFound
  <2> SUFFICES ASSUME ProbeInv, phase = "done", losses = 0, NEW d \in Boards, d \notin moved,
                      where[d] # 0,
                      Size <= Limit \/ (where[d] \in Known /\ Cardinality(Known) <= Limit)
               PROVE  \E f \in found : f.ip = where[d] /\ f.dev = d
    BY DEF AnswerersAreFound
  <2>1. where[d] \in Addrs
    BY ScanProbeConstants DEF ProbeInv, ProbeTypeOK
  <2>2. where[d] \in iplist
    BY <2>1 DEF ProbeInv, ListIsEnough
  <2>3. Followed(d)
    BY <2>2 DEF ProbeInv, BoardsAreFollowed
  <2> QED BY <2>3 DEF Followed
<1> QED
  BY ProbeInductive, <1>1, PTL

\* A verified board has its own MAC unless a lease moved or the warm-up passed its
\* address by (prewarm_neighbors and the reading of the neighbour table).
THEOREM MacsTrue == ProbeSpec => []MacsAreTheirs
<1>1. ProbeInv => MacsAreTheirs
  <2> SUFFICES ASSUME ProbeInv, NEW f \in found, f.dev # None, f.dev \notin moved, f.ip \in pinged
               PROVE  f.mac = f.dev
    BY DEF MacsAreTheirs
  <2>1. f.dev \in Unmoved
    BY ScanProbeConstants DEF ProbeInv, ProbeTypeOK, Unmoved
  <2>2. f.mac = arptable[f.ip] /\ where[f.dev] = f.ip
    BY <2>1 DEF ProbeInv, VerifiedAtAddress
  <2>3. phase \notin {"warm", "arp"}
    BY DEF ProbeInv, TodoOfPhase
  <2>4. arptable[where[f.dev]] = f.dev
    BY <2>1, <2>2, <2>3 DEF ProbeInv, PingedAreMet
  <2> QED BY <2>2, <2>4
<1> QED
  BY ProbeInductive, <1>1, PTL
=============================================================================
