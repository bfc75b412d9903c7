--------------------------- MODULE RateLimitProofs ---------------------------
(***************************************************************************)
(* Theorems about RateLimit for every set of callers and keys, every       *)
(* limit, every period and every value of the bounds.                      *)
(*                                                                         *)
(* WindowWithinBudget is not inductive: it says nothing of the callers     *)
(* between their count and their insert, and it looks at the history, not  *)
(* at the table the next count will see.  The strengthening charges to a   *)
(* key its rows, the admitted calls whose insert failed and the callers on *)
(* their way to an insert, and relates the history to the table by         *)
(* AdmittedStayCounted.                                                    *)
(***************************************************************************)
EXTENDS RateLimit, FiniteSetTheorems, TLAPS

Charged(k) == EventsOf(events \cup unrecorded, k)

ClocksNotAhead == (\A c \in Callers : clk[c] <= now) /\ sweepClk <= now

TableFromHistory ==
    /\ events \subseteq admitted
    /\ IsFiniteSet(admitted)
    /\ Cardinality(unrecorded) <= faults
    /\ faults <= MaxFaults

ChargesWithinBudget ==
    \A k \in Keys :
        Cardinality(Charged(k)) + Cardinality(Entering(k)) <= Budget(k)

IInv ==
    /\ TypeOK
    /\ ClocksNotAhead
    /\ TableFromHistory
    /\ AdmittedStayCounted
    /\ ChargesWithinBudget

-----------------------------------------------------------------------------
\* The cardinality of a union is at most the sum of the cardinalities.
LEMMA UnionCardinality ==
    ASSUME NEW S, NEW T, IsFiniteSet(S), IsFiniteSet(T)
    PROVE  /\ IsFiniteSet(S \cup T)
           /\ Cardinality(S \cup T) <= Cardinality(S) + Cardinality(T)
<1>1. /\ IsFiniteSet(S \cup T) /\ IsFiniteSet(S \cap T)
      /\ Cardinality(S \cup T) =
            Cardinality(S) + Cardinality(T) - Cardinality(S \cap T)
  BY FS_Union, FS_Intersection
<1>2. Cardinality(S) \in Nat /\ Cardinality(T) \in Nat /\ Cardinality(S \cap T) \in Nat
  BY <1>1, FS_CardinalityType
<1>. QED  BY <1>1, <1>2

\* One more element costs at most one.
LEMMA OneMore ==
    ASSUME NEW S, NEW x, IsFiniteSet(S)
    PROVE  /\ IsFiniteSet(S \cup {x})
           /\ Cardinality(S \cup {x}) \in Nat
           /\ Cardinality(S \cup {x}) <= Cardinality(S) + 1
<1>1. IsFiniteSet({x}) /\ Cardinality({x}) = 1
  BY FS_Singleton
<1>. QED  BY <1>1, UnionCardinality, FS_CardinalityType

\* Everything the invariant counts is finite.
LEMMA Finiteness ==
    ASSUME IInv, NEW k \in Keys
    PROVE  /\ IsFiniteSet(Charged(k)) /\ Cardinality(Charged(k)) \in Nat
           /\ IsFiniteSet(Entering(k)) /\ Cardinality(Entering(k)) \in Nat
           /\ IsFiniteSet(unrecorded) /\ Cardinality(unrecorded) \in Nat
           /\ IsFiniteSet(admitted) /\ Cardinality(admitted) \in Nat
           /\ Cardinality(Callers) \in Nat /\ MaxCalls[k] \in Nat
           /\ Cardinality(Entering(k)) <= Cardinality(Callers)
<1>1. IsFiniteSet(Entering(k)) /\ Cardinality(Entering(k)) <= Cardinality(Callers)
  BY LimiterAssumption, FS_Subset DEF Entering
<1>2. IsFiniteSet(Charged(k)) /\ IsFiniteSet(unrecorded) /\ IsFiniteSet(admitted)
  <2>1. Charged(k) \subseteq admitted /\ unrecorded \subseteq admitted
    BY DEF IInv, TableFromHistory, TypeOK, Charged, EventsOf
  <2>. QED  BY <2>1, FS_Subset DEF IInv, TableFromHistory
<1>. QED  BY <1>1, <1>2, FS_CardinalityType, LimiterAssumption

\* A caller that is not on its way to an insert, before or after, leaves the
\* callers on their way as they are.
LEMMA EnteringFrame ==
    ASSUME TypeOK, NEW c \in Callers, NEW k \in Keys,
           pc[c] \notin {"admitting", "inserting"},
           pc'[c] \notin {"admitting", "inserting"},
           \A d \in Callers \ {c} : pc'[d] = pc[d] /\ key'[d] = key[d]
    PROVE  Entering(k)' = Entering(k)
BY DEF Entering

\* A step that adds no row and moves no caller keeps every charge.
LEMMA ChargesShrink ==
    ASSUME IInv, events' \subseteq events, unrecorded' = unrecorded, faults' \in Nat,
           faults' >= faults,
           \A k \in Keys : Entering(k)' = Entering(k)
    PROVE  ChargesWithinBudget'
<1> SUFFICES ASSUME NEW k \in Keys
             PROVE  Cardinality(Charged(k)') + Cardinality(Entering(k)') <= Budget(k)'
  BY DEF ChargesWithinBudget
<1>1. Charged(k)' \subseteq Charged(k)
  BY DEF Charged, EventsOf
<1>2. Cardinality(Charged(k)') <= Cardinality(Charged(k)) /\ Cardinality(Charged(k)') \in Nat
  BY <1>1, Finiteness, FS_Subset, FS_CardinalityType
<1>3. Budget(k)' = MaxCalls[k] + Cardinality(Callers) - 1 + faults'
  BY DEF Budget
<1>. QED
  BY <1>2, <1>3, Finiteness DEF IInv, ChargesWithinBudget, Budget, TypeOK

-----------------------------------------------------------------------------
\* The initial states satisfy the invariant.
LEMMA InitIInv == Init => IInv
<1> SUFFICES ASSUME Init PROVE IInv
  OBVIOUS
<1>1. key \in [Callers -> Keys]
  BY LimiterAssumption DEF Init
<1>2. TypeOK /\ ClocksNotAhead /\ AdmittedStayCounted
  BY <1>1 DEF Init, TypeOK, Points, ClocksNotAhead, AdmittedStayCounted, Event
<1>3. TableFromHistory
  BY FS_EmptySet, BoundAssumption DEF Init, TableFromHistory
<1>4. ASSUME NEW k \in Keys
      PROVE  Cardinality(Charged(k)) + Cardinality(Entering(k)) <= Budget(k)
  <2>1. Charged(k) = {} /\ Entering(k) = {}
    BY DEF Init, Charged, EventsOf, Entering
  <2>2. Cardinality(Callers) \in Nat /\ Cardinality(Callers) # 0
    BY LimiterAssumption, FS_CardinalityType, FS_EmptySet
  <2>3. MaxCalls[k] \in Nat \ {0} /\ faults = 0
    BY LimiterAssumption DEF Init
  <2>. QED  BY <2>1, <2>2, <2>3, FS_EmptySet DEF Budget
<1>. QED  BY <1>2, <1>3, <1>4 DEF IInv, ChargesWithinBudget

\* Every step keeps the types.
LEMMA TypeStep == TypeOK /\ IsFiniteSet(admitted) /\ [Next]_vars => TypeOK'
<1> SUFFICES ASSUME TypeOK, IsFiniteSet(admitted), [Next]_vars PROVE TypeOK'
  OBVIOUS
<1> USE DEF TypeOK, Points
<1>1. ASSUME NEW c \in Callers, NEW k \in Keys, Call(c, k) PROVE TypeOK'
  BY <1>1 DEF Call, Goto, db
<1>2. ASSUME NEW c \in Callers, CountPass(c) PROVE TypeOK'
  BY <1>2 DEF CountPass, Goto, Pruned
<1>3. ASSUME NEW c \in Callers, CountRefuse(c) PROVE TypeOK'
  BY <1>3 DEF CountRefuse, Goto, Return, Pruned
<1>4. ASSUME NEW c \in Callers, Remaining(c) PROVE TypeOK'
  BY <1>4 DEF Remaining, Goto, Return, Pruned
<1>5. ASSUME NEW c \in Callers, CountFails(c) PROVE TypeOK'
  BY <1>5 DEF CountFails, Goto
<1>6. ASSUME NEW c \in Callers, Stamp(c) PROVE TypeOK'
  BY <1>6 DEF Stamp, Goto, db
<1>7. ASSUME NEW c \in Callers PROVE NewEvent(c) \in Event
  BY FS_CardinalityType DEF NewEvent, Event
<1>8. ASSUME NEW c \in Callers, Insert(c) PROVE TypeOK'
  BY <1>7, <1>8 DEF Insert, Goto, Return
<1>9. ASSUME NEW c \in Callers, InsertFails(c) PROVE TypeOK'
  BY <1>7, <1>9 DEF InsertFails, Goto, Return
<1>10. CASE Sweep
  BY <1>10 DEF Sweep, SweepRead, SweepDelete, SweepFails, Swept, db
<1>11. CASE Tick
  BY <1>11 DEF Tick, db
<1>12. CASE UNCHANGED vars
  BY <1>12 DEF vars
<1>. QED
  BY <1>1, <1>2, <1>3, <1>4, <1>5, <1>6, <1>8, <1>9, <1>10, <1>11, <1>12
  DEF Next, Step

\* A prune or a sweep, however old the clock it was computed from, removes only
\* events that have left their window.
LEMMA PruneKeepsLive ==
    ASSUME TypeOK, NEW k \in Keys, NEW t \in Nat, t <= now, NEW e \in events
    PROVE  /\ e \in Pruned(k, t) \/ e.ts < now - Period[e.key]
           /\ e \in Swept(t) \/ e.ts < now - Period[e.key]
<1>1. e.key \in Keys /\ e.ts \in Nat /\ now \in Nat
  BY DEF TypeOK, Event
<1>2. Period[e.key] \in Nat /\ MaxPeriodSeen \in Nat /\ Period[e.key] <= MaxPeriodSeen
  BY <1>1, LimiterAssumption
<1>. QED  BY <1>1, <1>2 DEF Pruned, Swept

\* No clock value in use is ahead of the clock.
LEMMA ClockStep == TypeOK /\ ClocksNotAhead /\ [Next]_vars => ClocksNotAhead'
BY DEF TypeOK, ClocksNotAhead, Next, Step, Call, CountPass, CountRefuse, Remaining,
       CountFails, Stamp, Insert, InsertFails, Sweep, SweepRead, SweepDelete,
       SweepFails, Tick, Goto, Return, db, vars

\* The rows come from the history, and every unrecorded call costs a fault.
LEMMA TableStep == IInv /\ [Next]_vars => TableFromHistory'
<1> SUFFICES ASSUME IInv, [Next]_vars PROVE TableFromHistory'
  OBVIOUS
<1> USE DEF TableFromHistory
<1>1. TypeOK /\ TableFromHistory
  BY DEF IInv
<1>2. ASSUME NEW c \in Callers, Insert(c) PROVE TableFromHistory'
  BY <1>1, <1>2, FS_AddElement DEF Insert
<1>3. ASSUME NEW c \in Callers, InsertFails(c) PROVE TableFromHistory'
  <2>1. IsFiniteSet(unrecorded) /\ Cardinality(unrecorded) \in Nat
    BY <1>1, FS_Subset, FS_CardinalityType DEF TypeOK
  <2>2. Cardinality(unrecorded') <= Cardinality(unrecorded) + 1
    BY <1>3, <2>1, OneMore DEF InsertFails
  <2>3. /\ events' = events /\ admitted' = admitted \cup {NewEvent(c)}
        /\ faults' = faults + 1 /\ faults < MaxFaults
    BY <1>3 DEF InsertFails
  <2>4. Cardinality(unrecorded') \in Nat
    BY <1>3, <2>1, FS_AddElement, FS_CardinalityType DEF InsertFails
  <2>. QED
    BY <1>1, <2>1, <2>2, <2>3, <2>4, FS_AddElement, BoundAssumption DEF TypeOK
<1>4. ASSUME events' \subseteq events, UNCHANGED <<admitted, unrecorded>>,
             faults' = faults \/ (faults' = faults + 1 /\ faults < MaxFaults)
      PROVE  TableFromHistory'
  <2>1. Cardinality(unrecorded) \in Nat
    BY <1>1, FS_Subset, FS_CardinalityType DEF TypeOK
  <2>. QED  BY <1>1, <1>4, <2>1, BoundAssumption DEF TypeOK
<1>5. CASE \E c \in Callers : Step(c)
  <2>1. PICK c \in Callers : Step(c)
    BY <1>5
  <2>. QED
    BY <1>2, <1>3, <1>4, <2>1
    DEF Step, Call, CountPass, CountRefuse, Remaining, CountFails, Stamp, Pruned, db
<1>6. CASE Sweep \/ Tick \/ UNCHANGED vars
  BY <1>4, <1>6 DEF Sweep, SweepRead, SweepDelete, SweepFails, Swept, Tick, db, vars
<1>. QED  BY <1>5, <1>6 DEF Next

\* Only time takes an admitted call off the table.
LEMMA CountedStep == IInv /\ [Next]_vars => AdmittedStayCounted'
<1> SUFFICES ASSUME IInv, [Next]_vars PROVE AdmittedStayCounted'
  OBVIOUS
<1>1. TypeOK /\ ClocksNotAhead /\ TableFromHistory /\ AdmittedStayCounted
  BY DEF IInv
<1>2. \A e \in admitted : e.key \in Keys /\ e.ts \in Nat /\ Period[e.key] \in Nat
  BY <1>1, LimiterAssumption DEF TypeOK, Event
<1>3. ASSUME events \subseteq events', UNCHANGED <<admitted, unrecorded>>,
             now' \in Nat, now' >= now
      PROVE  AdmittedStayCounted'
  BY <1>1, <1>2, <1>3 DEF AdmittedStayCounted, TypeOK
<1>4. ASSUME NEW c \in Callers, NEW k \in Keys, events' = Pruned(key[c], clk[c]),
             UNCHANGED <<now, admitted, unrecorded>>
      PROVE  AdmittedStayCounted'
  <2>1. key[c] \in Keys /\ clk[c] \in Nat /\ clk[c] <= now
    BY <1>1 DEF TypeOK, ClocksNotAhead
  <2>. QED  BY <1>1, <1>4, <2>1, PruneKeepsLive DEF AdmittedStayCounted
<1>5. ASSUME NEW c \in Callers, Step(c) PROVE AdmittedStayCounted'
  <2>1. CASE CountPass(c) \/ CountRefuse(c) \/ Remaining(c)
    BY <1>1, <1>4, <2>1 DEF CountPass, CountRefuse, Remaining, TypeOK
  <2>2. CASE (\E k \in Keys : Call(c, k)) \/ CountFails(c) \/ Stamp(c)
    BY <1>1, <1>3, <2>2 DEF Call, CountFails, Stamp, db, TypeOK
  <2>3. CASE Insert(c)
    BY <1>1, <2>3 DEF Insert, AdmittedStayCounted
  <2>4. CASE InsertFails(c)
    BY <1>1, <2>4 DEF InsertFails, AdmittedStayCounted
  <2>. QED  BY <1>5, <2>1, <2>2, <2>3, <2>4 DEF Step
<1>6. CASE SweepDelete
  <2>1. \E k \in Keys : TRUE
    BY LimiterAssumption
  <2>2. sweepClk \in Nat /\ sweepClk <= now /\ events' = Swept(sweepClk)
        /\ UNCHANGED <<now, admitted, unrecorded>>
    BY <1>1, <1>6 DEF SweepDelete, TypeOK, ClocksNotAhead
  <2>. QED  BY <1>1, <2>1, <2>2, PruneKeepsLive DEF AdmittedStayCounted
<1>7. CASE SweepRead \/ SweepFails \/ Tick \/ UNCHANGED vars
  BY <1>1, <1>3, <1>7 DEF SweepRead, SweepFails, Tick, db, vars, TypeOK
<1>. QED  BY <1>5, <1>6, <1>7 DEF Next, Sweep

-----------------------------------------------------------------------------
\* The charges of every key stay within its budget.  A passing count is the
\* only step that starts from the table: it saw fewer than _max rows, so the
\* charges after it are at most those rows, the unrecorded calls and all callers.
LEMMA ChargeStep == IInv /\ [Next]_vars => ChargesWithinBudget'
<1> SUFFICES ASSUME IInv, [Next]_vars PROVE ChargesWithinBudget'
  OBVIOUS
<1>1. /\ TypeOK /\ TypeOK' /\ TableFromHistory /\ TableFromHistory'
      /\ ChargesWithinBudget
  BY TypeStep, TableStep DEF IInv, TableFromHistory
<1>2. ASSUME NEW c \in Callers, Step(c), ~CountPass(c), ~CountFails(c),
             ~Stamp(c), ~Insert(c), ~InsertFails(c)
      PROVE  ChargesWithinBudget'
  <2>1. /\ pc[c] \notin {"admitting", "inserting"}
        /\ pc'[c] \notin {"admitting", "inserting"}
        /\ \A d \in Callers \ {c} : pc'[d] = pc[d] /\ key'[d] = key[d]
    BY <1>1, <1>2
    DEF Step, Call, CountRefuse, Remaining, Goto, Return, TypeOK
  <2>2. events' \subseteq events /\ unrecorded' = unrecorded /\ faults' = faults
    BY <1>2 DEF Step, Call, CountRefuse, Remaining, Pruned, db
  <2>. QED  BY <1>1, <2>1, <2>2, EnteringFrame, ChargesShrink DEF TypeOK
<1>3. ASSUME NEW c \in Callers, CountPass(c) PROVE ChargesWithinBudget'
  <2> SUFFICES ASSUME NEW k \in Keys
               PROVE  Cardinality(Charged(k)') + Cardinality(Entering(k)') <= Budget(k)'
    BY DEF ChargesWithinBudget
  <2>1. CASE k = key[c]
    <3> DEFINE rows == EventsOf(Pruned(k, clk[c]), k)
    <3>1. Cardinality(rows) < MaxCalls[k] /\ unrecorded' = unrecorded /\ faults' = faults
      BY <1>3, <2>1 DEF CountPass
    <3>2. rows \subseteq Charged(k)
      BY DEF Pruned, EventsOf, Charged
    <3>3. IsFiniteSet(rows) /\ Cardinality(rows) \in Nat
      BY <3>2, Finiteness, FS_Subset, FS_CardinalityType
    <3>4. Charged(k)' \subseteq rows \cup unrecorded
      BY <1>3, <2>1 DEF CountPass, Charged, EventsOf
    <3>5. /\ Cardinality(Charged(k)') <= Cardinality(rows) + Cardinality(unrecorded)
          /\ Cardinality(Charged(k)') \in Nat
      <4>1. /\ IsFiniteSet(rows \cup unrecorded)
            /\ Cardinality(rows \cup unrecorded) <= Cardinality(rows) + Cardinality(unrecorded)
        BY <3>3, Finiteness, UnionCardinality
      <4>2. /\ IsFiniteSet(Charged(k)')
            /\ Cardinality(Charged(k)') <= Cardinality(rows \cup unrecorded)
        BY <3>4, <4>1, FS_Subset
      <4>3. Cardinality(Charged(k)') \in Nat /\ Cardinality(rows \cup unrecorded) \in Nat
        BY <4>1, <4>2, FS_CardinalityType
      <4>. QED  BY <3>3, <4>1, <4>2, <4>3, Finiteness
    <3>6. Cardinality(Entering(k)') <= Cardinality(Callers) /\ Cardinality(Entering(k)') \in Nat
      <4>1. Entering(k)' \subseteq Callers
        BY DEF Entering
      <4>. QED  BY <4>1, LimiterAssumption, FS_Subset, FS_CardinalityType
    <3>. QED
      BY <1>1, <3>1, <3>3, <3>5, <3>6, Finiteness DEF Budget, TableFromHistory, TypeOK
  <2>2. CASE k # key[c]
    <3>1. Entering(k)' = Entering(k)
      BY <1>1, <1>3, <2>2 DEF CountPass, Goto, Entering, TypeOK
    <3>2. Charged(k)' \subseteq Charged(k) /\ Budget(k)' = Budget(k)
      BY <1>3 DEF CountPass, Pruned, Charged, EventsOf, Budget
    <3>3. Cardinality(Charged(k)') <= Cardinality(Charged(k)) /\ Cardinality(Charged(k)') \in Nat
      BY <3>2, Finiteness, FS_Subset, FS_CardinalityType
    <3>. QED
      BY <1>1, <3>1, <3>2, <3>3, Finiteness DEF ChargesWithinBudget, Budget, TypeOK
  <2>. QED  BY <2>1, <2>2
<1>4. ASSUME NEW c \in Callers, CountFails(c) PROVE ChargesWithinBudget'
  <2> SUFFICES ASSUME NEW k \in Keys
               PROVE  Cardinality(Charged(k)') + Cardinality(Entering(k)') <= Budget(k)'
    BY DEF ChargesWithinBudget
  <2>1. Entering(k)' \in SUBSET (Entering(k) \cup {c})
    BY <1>1, <1>4 DEF CountFails, Goto, Entering, TypeOK
  <2>2. /\ Cardinality(Entering(k)') <= Cardinality(Entering(k)) + 1
        /\ Cardinality(Entering(k)') \in Nat
    <3>1. /\ IsFiniteSet(Entering(k) \cup {c})
          /\ Cardinality(Entering(k) \cup {c}) <= Cardinality(Entering(k)) + 1
      BY Finiteness, OneMore
    <3>2. /\ IsFiniteSet(Entering(k)')
          /\ Cardinality(Entering(k)') <= Cardinality(Entering(k) \cup {c})
      BY <2>1, <3>1, FS_Subset
    <3>3. Cardinality(Entering(k)') \in Nat /\ Cardinality(Entering(k) \cup {c}) \in Nat
      BY <3>1, <3>2, FS_CardinalityType
    <3>. QED  BY <3>1, <3>2, <3>3, Finiteness
  <2>3. Charged(k)' = Charged(k) /\ faults' = faults + 1
    BY <1>4 DEF CountFails, Charged, EventsOf
  <2>. QED
    BY <1>1, <2>2, <2>3, Finiteness DEF ChargesWithinBudget, Budget, TypeOK
<1>5. ASSUME NEW c \in Callers, Stamp(c) PROVE ChargesWithinBudget'
  <2>1. \A k \in Keys : Entering(k)' = Entering(k)
    BY <1>1, <1>5 DEF Stamp, Goto, Entering, TypeOK
  <2>. QED  BY <1>1, <1>5, <2>1, ChargesShrink DEF Stamp, db, TypeOK
<1>6. ASSUME NEW c \in Callers, Insert(c) \/ InsertFails(c) PROVE ChargesWithinBudget'
  <2> SUFFICES ASSUME NEW k \in Keys
               PROVE  Cardinality(Charged(k)') + Cardinality(Entering(k)') <= Budget(k)'
    BY DEF ChargesWithinBudget
  <2>1. faults' \in Nat /\ faults' >= faults
    BY <1>1, <1>6 DEF Insert, InsertFails, TypeOK
  <2>2. CASE k = key[c]
    <3>1. Entering(k)' = Entering(k) \ {c} /\ c \in Entering(k)
      BY <1>1, <1>6, <2>2 DEF Insert, InsertFails, Goto, Return, Entering, TypeOK
    <3>2. Cardinality(Entering(k)') = Cardinality(Entering(k)) - 1
      BY <3>1, Finiteness, FS_RemoveElement
    <3>3. Charged(k)' = Charged(k) \cup {NewEvent(c)}
      BY <1>6, <2>2 DEF Insert, InsertFails, Charged, EventsOf, NewEvent
    <3>4. /\ Cardinality(Charged(k)') <= Cardinality(Charged(k)) + 1
          /\ Cardinality(Charged(k)') \in Nat
      BY <3>3, Finiteness, OneMore
    <3>. QED
      BY <1>1, <2>1, <3>2, <3>4, Finiteness DEF ChargesWithinBudget, Budget, TypeOK
  <2>3. CASE k # key[c]
    <3>1. Entering(k)' = Entering(k)
      BY <1>1, <1>6, <2>3 DEF Insert, InsertFails, Goto, Return, Entering, TypeOK
    <3>2. Charged(k)' = Charged(k)
      BY <1>6, <2>3 DEF Insert, InsertFails, Charged, EventsOf, NewEvent
    <3>. QED
      BY <1>1, <2>1, <3>1, <3>2, Finiteness DEF ChargesWithinBudget, Budget, TypeOK
  <2>. QED  BY <2>2, <2>3
<1>7. CASE Sweep \/ Tick \/ UNCHANGED vars
  <2>1. /\ events' \subseteq events /\ unrecorded' = unrecorded
        /\ faults' \in Nat /\ faults' >= faults /\ UNCHANGED <<pc, key>>
    BY <1>1, <1>7
    DEF Sweep, SweepRead, SweepDelete, SweepFails, Swept, Tick, db, vars, TypeOK
  <2>2. \A k \in Keys : Entering(k)' = Entering(k)
    BY <2>1 DEF Entering
  <2>. QED  BY <2>1, <2>2, ChargesShrink
<1>. QED  BY <1>2, <1>3, <1>4, <1>5, <1>6, <1>7 DEF Next

-----------------------------------------------------------------------------
\* The strengthening is inductive.
THEOREM Invariance == Spec => []IInv
<1>1. Init => IInv
  BY InitIInv
<1>2. IInv /\ [Next]_vars => IInv'
  BY TypeStep, ClockStep, TableStep, CountedStep, ChargeStep DEF IInv, TableFromHistory
<1>. QED  BY <1>1, <1>2, PTL DEF Spec

\* The state is always well-typed.
THEOREM TypeCorrect == Spec => []TypeOK
BY Invariance, PTL DEF IInv

\* rate_count's prune and the sweep never forget a call that is still inside its
\* limiter's window, for every choice of periods: only a failed insert does.
THEOREM StayCounted == Spec => []AdmittedStayCounted
BY Invariance, PTL DEF IInv

\* Under the invariant, the calls of a trailing period are within the budget.
LEMMA WindowBound == IInv => WindowWithinBudget
<1> SUFFICES ASSUME IInv, NEW k \in Keys PROVE Cardinality(Window(k)) <= Budget(k)
  BY DEF WindowWithinBudget
<1>1. Window(k) \subseteq Charged(k)
  <2>1. ASSUME NEW e \in Window(k) PROVE e \in events \cup unrecorded
    <3>1. /\ e.ts \in Nat /\ now \in Nat /\ Period[e.key] \in Nat
          /\ e \in admitted /\ e.key = k /\ e.ts >= now - Period[k]
      BY LimiterAssumption DEF IInv, TypeOK, Event, Window
    <3>. QED  BY <3>1 DEF IInv, AdmittedStayCounted
  <2>. QED  BY <2>1 DEF Window, Charged, EventsOf
<1>2. Cardinality(Window(k)) <= Cardinality(Charged(k)) /\ Cardinality(Window(k)) \in Nat
  BY <1>1, Finiteness, FS_Subset, FS_CardinalityType
<1>. QED
  BY <1>2, Finiteness DEF IInv, ChargesWithinBudget, Budget, TypeOK

\* The race of allow() costs at most one call per other caller, and each database
\* error at most one more: whatever the number of threads, processes and keys.
THEOREM BudgetHolds == Spec => []WindowWithinBudget
<1>1. IInv => WindowWithinBudget
  BY WindowBound
<1>. QED  BY <1>1, Invariance, PTL

-----------------------------------------------------------------------------
\* The instance of CallBudget counts with the same operator.
LEMMA SameCardinality == \A S : Promise!Cardinality(S) = Cardinality(S)
BY DEF Promise!Cardinality, Cardinality, Promise!IsFiniteSet, IsFiniteSet

\* allow() over the shared table implements the limiter that has no table.
THEOREM Refinement == Spec => ImplementsCallBudget
<1>1. Init => Promise!Init
  BY DEF Init, Promise!Init
<1>2. IInv /\ IInv' /\ [Next]_vars => [Promise!Next]_(Promise!vars)
  <2> SUFFICES ASSUME IInv, IInv', [Next]_vars
               PROVE  Promise!Next \/ UNCHANGED <<now, admitted>>
    BY DEF Promise!vars
  <2>1. ASSUME NEW c \in Callers, Insert(c) \/ InsertFails(c), NEW k \in Keys, k = key[c]
        PROVE  Promise!Admit(k, clk[c])
    <3>1. /\ admitted' = admitted \cup {[id |-> Cardinality(admitted), key |-> k, ts |-> clk[c]]}
          /\ now' = now
      BY <2>1 DEF Insert, InsertFails, NewEvent
    <3>2. Cardinality(Window(k)') <= Budget(k)'
      <4>1. WindowWithinBudget'
        BY WindowBound, PTL
      <4>. QED  BY <4>1 DEF WindowWithinBudget
    <3>3. MaxCalls[k] \in Nat /\ Cardinality(Callers) \in Nat
      BY Finiteness
    <3>4. faults' \in Nat /\ faults' <= MaxFaults
      BY DEF IInv, TypeOK, TableFromHistory
    <3>5. Cardinality(Window(k)') \in Nat
      <4>1. IsFiniteSet(admitted') /\ Window(k)' \subseteq admitted'
        BY DEF IInv, TableFromHistory, Window
      <4>. QED  BY <4>1, FS_Subset, FS_CardinalityType
    <3>6. Budget(k)' = MaxCalls[k] + Cardinality(Callers) - 1 + faults'
      BY DEF Budget
    <3>7. Cardinality(Window(k)') <= MaxCalls[k] + Cardinality(Callers) - 1 + MaxFaults
      BY <3>2, <3>3, <3>4, <3>5, <3>6, BoundAssumption
    <3>8. Promise!Window(k)' = Window(k)'
      BY DEF Promise!Window, Window
    <3>. QED  BY <3>1, <3>7, <3>8, SameCardinality DEF Promise!Admit
  <2>2. CASE Tick
    BY <2>2 DEF Tick, db, Promise!Next, Promise!Tick
  <2>3. CASE Sweep \/ UNCHANGED vars
    BY <2>3 DEF Sweep, SweepRead, SweepDelete, SweepFails, db, vars
  <2>4. ASSUME NEW c \in Callers, Step(c) PROVE Promise!Next \/ UNCHANGED <<now, admitted>>
    <3>1. CASE Insert(c) \/ InsertFails(c)
      <4>1. key[c] \in Keys /\ clk[c] \in 0..now
        BY DEF IInv, TypeOK, ClocksNotAhead
      <4>. QED  BY <2>1, <3>1, <4>1 DEF Promise!Next
    <3>2. CASE ~(Insert(c) \/ InsertFails(c))
      BY <2>4, <3>2
      DEF Step, Call, CountPass, CountRefuse, Remaining, CountFails, Stamp, db
    <3>. QED  BY <3>1, <3>2
  <2>. QED  BY <2>2, <2>3, <2>4 DEF Next
<1>. QED
  BY <1>1, <1>2, Invariance, PTL DEF Spec, ImplementsCallBudget, Promise!Spec
=============================================================================
