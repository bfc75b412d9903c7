----------------------------- MODULE StartupProofs -----------------------------
(***************************************************************************)
(* Proofs about Startup, for any number of processes, tables, columns,     *)
(* kills and lock errors, and every environment.                           *)
(***************************************************************************)
EXTENDS Startup, TLAPS

\* What each stage of a start may rely on, whatever the other processes did
\* since: tables and columns are only ever added.
StageDone(p) ==
    /\ pc[p] \in {"inspect", "create", "index"} => next[p] = 1
    /\ pc[p] \in {"create", "index"} => AllTables \ tables \subseteq missing[p]
    /\ pc[p] \in {"look", "alter", "normalise", "configure", "lifespan", "serving"} =>
         tables = AllTables
    /\ pc[p] \in {"look", "alter"} => \A i \in 1..next[p] - 1 : Alters[i] \in columns
    /\ pc[p] = "alter" => next[p] <= Len(Alters)
    /\ pc[p] \in {"normalise", "configure", "lifespan", "serving"} => columns = Columns
    /\ pc[p] \in {"configure", "lifespan", "serving"} => ~blank

\* What a start finds there against its own look was put there by another one
\* that was at work together with it.
Blamed(p) ==
    /\ pc[p] \in {"create", "index"} /\ missing[p] \cap tables # {} => p \in overlapped
    /\ pc[p] = "alter" /\ Alters[next[p]] \in columns => p \in overlapped
    /\ p \in Migrating => \A q \in Migrating \ {p} : p \in overlapped

\* A table without its indexes is one whose maker is at them, or ended before.
IndexesAccounted == unindexed \subseteq cut \cup UNION {Indexing(p) : p \in Procs}

IInv ==
    /\ TypeOK
    /\ \A p \in Procs : StageDone(p)
    /\ \A p \in Procs : Blamed(p)
    /\ IndexesAccounted
    /\ LoneStartsSucceed

-----------------------------------------------------------------------------
\* The migrations are numbered.
LEMMA AltersIndexed ==
    /\ Len(Alters) \in Nat
    /\ \A i \in 1..Len(Alters) : Alters[i] \in Columns
  BY StartupConstants DEF StartupConstants, Columns

LEMMA StepTypeOK == IInv /\ [Next]_vars => TypeOK'
<1> SUFFICES ASSUME IInv, [Next]_vars PROVE TypeOK'
  OBVIOUS
<1> USE AltersIndexed DEF IInv, StageDone, TypeOK, SchemaStages, Goto, Die, DieOfSchema, schema, world, progress, history
<1>1. ASSUME NEW p \in Procs, Boot(p) PROVE TypeOK'
  BY <1>1 DEF Boot, Migrating
<1>2. ASSUME NEW p \in Procs, Inspect(p) PROVE TypeOK'
  BY <1>2 DEF Inspect
<1>3. ASSUME NEW p \in Procs, Create(p) PROVE TypeOK'
  <2>1. CASE missing[p] = {}
    BY <1>3, <2>1 DEF Create
  <2>2. ASSUME NEW t \in missing[p], t \in tables, DieOfSchema(p, "table"), UNCHANGED <<schema, missing, making>>
        PROVE  TypeOK'
    BY <1>3, <2>2 DEF Create
  <2>3. ASSUME NEW t \in missing[p], t \notin tables, tables' = tables \cup {t},
               unindexed' = unindexed \cup {t}, making' = [making EXCEPT ![p] = t], Goto(p, "index"),
               columns' = IF t = "devices" THEN Columns ELSE columns,
               missing' = [missing EXCEPT ![p] = @ \ {t}], UNCHANGED <<blank, died>>
        PROVE  TypeOK'
    BY <1>3, <2>3 DEF Create
  <2> QED
    BY <1>3, <2>1, <2>2, <2>3 DEF Create
<1>4. ASSUME NEW p \in Procs, Look(p) PROVE TypeOK'
  <2>1. next' \in [Procs -> 1..Len(Alters) + 1]
    BY <1>4 DEF Look
  <2>2. pc' \in [Procs -> SchemaStages \cup {"down", "configure", "lifespan", "serving", "dead", "stopped"}]
    BY <1>4 DEF Look
  <2> QED
    BY <1>4, <2>1, <2>2 DEF Look
<1>5. ASSUME NEW p \in Procs, Alter(p) PROVE TypeOK'
  <2>1. CASE Alters[next[p]] \in columns
    BY <1>5, <2>1 DEF Alter
  <2>2. CASE Alters[next[p]] \notin columns
    <3>1. /\ pc[p] = "alter" /\ next[p] \in 1..Len(Alters) /\ "devices" \in tables
      BY <1>5 DEF Alter, AllTables
    <3>2. columns' \subseteq Columns /\ next' \in [Procs -> 1..Len(Alters) + 1]
      BY <1>5, <2>2, <3>1 DEF Alter
    <3> QED
      BY <1>5, <2>2, <3>1, <3>2 DEF Alter
  <2> QED
    BY <2>1, <2>2
<1>6. ASSUME NEW p \in Procs, Normalise(p) PROVE TypeOK'
  BY <1>6 DEF Normalise
<1>7. ASSUME NEW p \in Procs, Configure(p) PROVE TypeOK'
  BY <1>7 DEF Configure
<1>8. ASSUME NEW p \in Procs, Lifespan(p) PROVE TypeOK'
  BY <1>8 DEF Lifespan
<1>9. ASSUME NEW p \in Procs, Crash(p) PROVE TypeOK'
  BY <1>9 DEF Crash, Indexing
<1>10. ASSUME NEW p \in Procs, Restart(p) PROVE TypeOK'
  BY <1>10 DEF Restart
<1>11. CASE StopBoth
  <2>1. cut' \subseteq AllTables
    BY <1>11 DEF StopBoth, Indexing
  <2> QED
    BY <1>11, <2>1 DEF StopBoth
<1>12. CASE StartBoth
  BY <1>12 DEF StartBoth
<1>13. CASE UNCHANGED vars
  BY <1>13 DEF vars
<1>14. ASSUME NEW p \in Procs, Index(p) PROVE TypeOK'
  BY <1>14 DEF Index
<1>15. ASSUME NEW p \in Procs, Locked(p) PROVE TypeOK'
  BY <1>15 DEF Locked, Indexing
<1> QED
  BY <1>1, <1>2, <1>3, <1>4, <1>5, <1>6, <1>7, <1>8, <1>9, <1>10, <1>11, <1>12, <1>13, <1>14, <1>15 DEF Next, Start

LEMMA StepStages == IInv /\ [Next]_vars => \A q \in Procs : StageDone(q)'
<1> SUFFICES ASSUME IInv, [Next]_vars, NEW q \in Procs PROVE StageDone(q)'
  OBVIOUS
<1> USE DEF IInv, StageDone, TypeOK, Goto, Die, DieOfSchema, schema, world, progress, history
<1>1. ASSUME NEW p \in Procs, Boot(p) PROVE StageDone(q)'
  BY <1>1 DEF Boot
<1>2. ASSUME NEW p \in Procs, Inspect(p) PROVE StageDone(q)'
  BY <1>2 DEF Inspect
<1>3. ASSUME NEW p \in Procs, Create(p) PROVE StageDone(q)'
  <2>1. CASE missing[p] = {}
    <3>1. tables = AllTables /\ next[p] = 1 /\ Columns' = Columns /\ AllTables' = AllTables
      BY <1>3, <2>1 DEF Create, Columns, AllTables
    <3> QED
      BY <1>3, <2>1, <3>1 DEF Create
  <2>2. ASSUME NEW t \in missing[p], t \in tables, DieOfSchema(p, "table"), UNCHANGED <<schema, missing, making>>
        PROVE  StageDone(q)'
    BY <1>3, <2>2 DEF Create
  <2>3. ASSUME NEW t \in missing[p], t \notin tables, tables' = tables \cup {t},
               unindexed' = unindexed \cup {t}, making' = [making EXCEPT ![p] = t], Goto(p, "index"),
               columns' = IF t = "devices" THEN Columns ELSE columns,
               missing' = [missing EXCEPT ![p] = @ \ {t}], UNCHANGED <<blank, died>>
        PROVE  StageDone(q)'
    <3>1. AllTables' = AllTables /\ Columns' = Columns
      BY DEF AllTables, Columns
    <3> QED
    BY <1>3, <2>3, <3>1 DEF Create
  <2> QED
    BY <1>3, <2>1, <2>2, <2>3 DEF Create
<1>4. ASSUME NEW p \in Procs, Look(p) PROVE StageDone(q)'
  <2>1. next[p] \in 1..Len(Alters) + 1 /\ Columns' = Columns /\ AllTables' = AllTables
    BY <1>4 DEF Columns, AllTables
  <2>2. CASE q # p
    BY <1>4, <2>1, <2>2 DEF Look
  <2>3. CASE q = p /\ next[p] > Len(Alters)
    <3>1. columns = Columns
      BY <1>4, <2>1, <2>3, AltersIndexed DEF Look, Columns
    <3> QED
      BY <1>4, <2>1, <2>3, <3>1 DEF Look
  <2>4. CASE q = p /\ next[p] <= Len(Alters)
    BY <1>4, <2>1, <2>4, AltersIndexed DEF Look, Misses
  <2> QED
    BY <2>1, <2>2, <2>3, <2>4, AltersIndexed
<1>5. ASSUME NEW p \in Procs, Alter(p) PROVE StageDone(q)'
  <2>1. next[p] \in 1..Len(Alters) /\ Columns' = Columns /\ AllTables' = AllTables
    BY <1>5, AltersIndexed DEF Alter, Columns, AllTables
  <2>2. columns \subseteq columns' /\ columns' \subseteq Columns
    BY <1>5, <2>1, AltersIndexed DEF Alter
  <2>3. CASE q = p
    BY <1>5, <2>1, <2>2, <2>3, AltersIndexed DEF Alter
  <2>4. CASE q # p
    BY <1>5, <2>1, <2>2, <2>4, AltersIndexed DEF Alter
  <2> QED
    BY <2>3, <2>4
<1>6. ASSUME NEW p \in Procs, Normalise(p) PROVE StageDone(q)'
  BY <1>6 DEF Normalise
<1>7. ASSUME NEW p \in Procs, Configure(p) PROVE StageDone(q)'
  BY <1>7 DEF Configure
<1>8. ASSUME NEW p \in Procs, Lifespan(p) PROVE StageDone(q)'
  BY <1>8 DEF Lifespan
<1>9. ASSUME NEW p \in Procs, Crash(p) PROVE StageDone(q)'
  BY <1>9 DEF Crash
<1>10. ASSUME NEW p \in Procs, Restart(p) PROVE StageDone(q)'
  BY <1>10 DEF Restart
<1>11. CASE StopBoth
  BY <1>11 DEF StopBoth
<1>12. CASE StartBoth
  BY <1>12 DEF StartBoth
<1>13. CASE UNCHANGED vars
  BY <1>13 DEF vars
<1>14. ASSUME NEW p \in Procs, Index(p) PROVE StageDone(q)'
  BY <1>14 DEF Index
<1>15. ASSUME NEW p \in Procs, Locked(p) PROVE StageDone(q)'
  BY <1>15 DEF Locked, Indexing
<1> QED
  BY <1>1, <1>2, <1>3, <1>4, <1>5, <1>6, <1>7, <1>8, <1>9, <1>10, <1>11, <1>12, <1>13, <1>14, <1>15 DEF Next, Start

LEMMA StepBlamed == IInv /\ [Next]_vars => \A q \in Procs : Blamed(q)'
<1> SUFFICES ASSUME IInv, [Next]_vars, NEW q \in Procs PROVE Blamed(q)'
  OBVIOUS
<1> USE DEF IInv, Blamed, TypeOK, Migrating, SchemaStages, Goto, Die, DieOfSchema, schema, world, progress, history
<1>1. ASSUME NEW p \in Procs, Boot(p) PROVE Blamed(q)'
  BY <1>1 DEF Boot
<1>2. ASSUME NEW p \in Procs, Inspect(p) PROVE Blamed(q)'
  BY <1>2 DEF Inspect
<1>3. ASSUME NEW p \in Procs, Create(p) PROVE Blamed(q)'
  BY <1>3 DEF Create
<1>4. ASSUME NEW p \in Procs, Look(p) PROVE Blamed(q)'
  BY <1>4 DEF Look, Misses
<1>5. ASSUME NEW p \in Procs, Alter(p) PROVE Blamed(q)'
  BY <1>5 DEF Alter
<1>6. ASSUME NEW p \in Procs, Normalise(p) PROVE Blamed(q)'
  BY <1>6 DEF Normalise
<1>7. ASSUME NEW p \in Procs, Configure(p) PROVE Blamed(q)'
  BY <1>7 DEF Configure
<1>8. ASSUME NEW p \in Procs, Lifespan(p) PROVE Blamed(q)'
  BY <1>8 DEF Lifespan
<1>9. ASSUME NEW p \in Procs, Crash(p) PROVE Blamed(q)'
  BY <1>9 DEF Crash
<1>10. ASSUME NEW p \in Procs, Restart(p) PROVE Blamed(q)'
  BY <1>10 DEF Restart
<1>11. CASE StopBoth
  BY <1>11 DEF StopBoth
<1>12. CASE StartBoth
  BY <1>12 DEF StartBoth
<1>13. CASE UNCHANGED vars
  BY <1>13 DEF vars
<1>14. ASSUME NEW p \in Procs, Index(p) PROVE Blamed(q)'
  BY <1>14 DEF Index
<1>15. ASSUME NEW p \in Procs, Locked(p) PROVE Blamed(q)'
  BY <1>15 DEF Locked, Indexing
<1> QED
  BY <1>1, <1>2, <1>3, <1>4, <1>5, <1>6, <1>7, <1>8, <1>9, <1>10, <1>11, <1>12, <1>13, <1>14, <1>15 DEF Next, Start

LEMMA StepIndexes == IInv /\ [Next]_vars => IndexesAccounted'
<1> SUFFICES ASSUME IInv, [Next]_vars, NEW t \in unindexed',
                    \A q \in Procs : t \notin Indexing(q)'
             PROVE  t \in cut'
  BY DEF IndexesAccounted
<1>a. t \in unindexed => t \in cut \/ \E q \in Procs : pc[q] = "index" /\ making[q] = t
  BY DEF IInv, IndexesAccounted, Indexing
<1>b. \A q \in Procs : ~(pc'[q] = "index" /\ making'[q] = t)
  BY DEF Indexing
<1> USE <1>a, <1>b DEF IInv, TypeOK, Indexing, Goto, Die, DieOfSchema, schema, progress, history
<1>1. ASSUME NEW p \in Procs, Boot(p) PROVE t \in cut'
  BY <1>1 DEF Boot
<1>2. ASSUME NEW p \in Procs, Inspect(p) PROVE t \in cut'
  BY <1>2 DEF Inspect
<1>3. ASSUME NEW p \in Procs, Create(p) PROVE t \in cut'
  BY <1>3 DEF Create
<1>4. ASSUME NEW p \in Procs, Index(p) PROVE t \in cut'
  BY <1>4 DEF Index
<1>5. ASSUME NEW p \in Procs, Look(p) PROVE t \in cut'
  BY <1>5 DEF Look
<1>6. ASSUME NEW p \in Procs, Alter(p) PROVE t \in cut'
  BY <1>6 DEF Alter
<1>7. ASSUME NEW p \in Procs, Normalise(p) PROVE t \in cut'
  BY <1>7 DEF Normalise
<1>8. ASSUME NEW p \in Procs, Locked(p) PROVE t \in cut'
  BY <1>8 DEF Locked
<1>9. ASSUME NEW p \in Procs, Configure(p) PROVE t \in cut'
  BY <1>9 DEF Configure
<1>10. ASSUME NEW p \in Procs, Lifespan(p) PROVE t \in cut'
  BY <1>10 DEF Lifespan
<1>11. ASSUME NEW p \in Procs, Crash(p) PROVE t \in cut'
  BY <1>11 DEF Crash
<1>12. ASSUME NEW p \in Procs, Restart(p) PROVE t \in cut'
  BY <1>12 DEF Restart
<1>13. CASE StopBoth
  BY <1>13 DEF StopBoth
<1>14. CASE StartBoth
  BY <1>14 DEF StartBoth
<1>15. CASE UNCHANGED vars
  BY <1>15 DEF vars
<1> QED
  BY <1>1, <1>2, <1>3, <1>4, <1>5, <1>6, <1>7, <1>8, <1>9, <1>10, <1>11, <1>12, <1>13, <1>14, <1>15 DEF Next, Start

LEMMA StepLone == IInv /\ [Next]_vars => LoneStartsSucceed'
<1> SUFFICES ASSUME IInv, [Next]_vars PROVE LoneStartsSucceed'
  OBVIOUS
<1> USE DEF IInv, LoneStartsSucceed, Blamed, Goto, Die, DieOfSchema, history
<1>1. ASSUME NEW p \in Procs, Boot(p) PROVE LoneStartsSucceed'
  BY <1>1 DEF Boot
<1>2. ASSUME NEW p \in Procs, Inspect(p) PROVE LoneStartsSucceed'
  BY <1>2 DEF Inspect
<1>3. ASSUME NEW p \in Procs, Create(p) PROVE LoneStartsSucceed'
  <2>1. UNCHANGED died \/ \E cause : died' = died \cup {<<cause, "together">>}
    BY <1>3 DEF Create
  <2> QED
    BY <2>1
<1>4. ASSUME NEW p \in Procs, Look(p) PROVE LoneStartsSucceed'
  BY <1>4 DEF Look
<1>5. ASSUME NEW p \in Procs, Alter(p) PROVE LoneStartsSucceed'
  <2>1. UNCHANGED died \/ \E cause : died' = died \cup {<<cause, "together">>}
    BY <1>5 DEF Alter
  <2> QED
    BY <2>1
<1>6. ASSUME NEW p \in Procs, Normalise(p) PROVE LoneStartsSucceed'
  BY <1>6 DEF Normalise
<1>7. ASSUME NEW p \in Procs, Configure(p) PROVE LoneStartsSucceed'
  BY <1>7 DEF Configure
<1>8. ASSUME NEW p \in Procs, Lifespan(p) PROVE LoneStartsSucceed'
  BY <1>8 DEF Lifespan
<1>9. ASSUME NEW p \in Procs, Crash(p) PROVE LoneStartsSucceed'
  BY <1>9 DEF Crash
<1>10. ASSUME NEW p \in Procs, Restart(p) PROVE LoneStartsSucceed'
  BY <1>10 DEF Restart
<1>11. CASE StopBoth
  BY <1>11 DEF StopBoth
<1>12. CASE StartBoth
  BY <1>12 DEF StartBoth
<1>13. CASE UNCHANGED vars
  BY <1>13 DEF vars
<1>14. ASSUME NEW p \in Procs, Index(p) PROVE LoneStartsSucceed'
  BY <1>14 DEF Index
<1>15. ASSUME NEW p \in Procs, Locked(p) PROVE LoneStartsSucceed'
  BY <1>15 DEF Locked, Indexing
<1> QED
  BY <1>1, <1>2, <1>3, <1>4, <1>5, <1>6, <1>7, <1>8, <1>9, <1>10, <1>11, <1>12, <1>13, <1>14, <1>15 DEF Next, Start
-----------------------------------------------------------------------------
LEMMA InitHolds == Init => IInv
<1> SUFFICES ASSUME Init PROVE IInv
  OBVIOUS
<1>1. TypeOK
  <2>1. settings \in Settings /\ tables \subseteq AllTables /\ blank \in BOOLEAN
    BY StartupConstants DEF StartupConstants, Init, AllTables
  <2>2. columns \subseteq Columns /\ (columns # {} => "devices" \in tables)
    BY AltersIndexed DEF Init, AllTables
  <2> QED
    BY <2>1, <2>2, AltersIndexed DEF Init, TypeOK, SchemaStages, AllTables
<1>2. \A p \in Procs : StageDone(p)
  BY DEF Init, StageDone
<1>3. \A p \in Procs : Blamed(p)
  BY DEF Init, Blamed, Migrating, SchemaStages
<1> QED
  BY <1>1, <1>2, <1>3 DEF Init, IInv, LoneStartsSucceed, IndexesAccounted

LEMMA Inductive == Spec => []IInv
<1>1. IInv /\ [Next]_vars => IInv'
  BY StepTypeOK, StepStages, StepBlamed, StepIndexes, StepLone DEF IInv
<1> QED
  BY InitHolds, <1>1, PTL DEF Spec

-----------------------------------------------------------------------------
\* The types of the schema, the processes and the history.
THEOREM TypeCorrect == Spec => []TypeOK
<1>1. IInv => TypeOK
  BY DEF IInv
<1> QED
  BY Inductive, <1>1, PTL

\* db.py and main.py: however many starts interleave, statement by statement,
\* and wherever any of them is killed, no process serves over a schema that lacks
\* a table or a column, or over a MAC ''; and it serves without an index only while
\* another start is about to make it, or because the start that made the table ended
\* before its indexes.
THEOREM ServedSchemaIsAccountedFor == Spec => []ServingSchemaComplete
<1>1. IInv => ServingSchemaComplete
  BY DEF IInv, StageDone, IndexesAccounted, ServingSchemaComplete
<1> QED
  BY Inductive, <1>1, PTL

\* run_migrations and create_all: a start dies of what it finds in the schema only
\* if another start was at work together with it; what any number of killed
\* starts left behind is no obstacle.
THEOREM KillsLeaveNoObstacle == Spec => []LoneStartsSucceed
<1>1. IInv => LoneStartsSucceed
  BY DEF IInv
<1> QED
  BY Inductive, <1>1, PTL
=============================================================================
