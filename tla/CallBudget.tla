------------------------------ MODULE CallBudget ------------------------------
(***************************************************************************)
(* What a rate limiter promises its callers, without the table, the        *)
(* transactions and the threads: a clock, the calls it let through, and a  *)
(* limit on those stamped within the trailing period of their key.         *)
(***************************************************************************)
EXTENDS Integers, FiniteSets

CONSTANTS Keys, Period, Limit

VARIABLES now, admitted

vars == <<now, admitted>>

Window(k) == {e \in admitted : e.key = k /\ e.ts >= now - Period[k]}

Init == now = 0 /\ admitted = {}

\* A call is let through; its stamp is not later than the clock.
Admit(k, t) ==
    LET e == [id |-> Cardinality(admitted), key |-> k, ts |-> t] IN
    /\ admitted' = admitted \cup {e}
    /\ Cardinality(Window(k)') <= Limit[k]
    /\ now' = now

Tick == now' = now + 1 /\ UNCHANGED admitted

Next == Tick \/ \E k \in Keys, t \in 0..now : Admit(k, t)

Spec == Init /\ [][Next]_vars
=============================================================================
