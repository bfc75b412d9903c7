------------------------------ MODULE MCStartup ------------------------------
(***************************************************************************)
(* An instance of Startup for TLC: two processes, one table besides        *)
(* devices, two columns to add.                                            *)
(***************************************************************************)
EXTENDS Startup

CONSTANTS v4, v6

TwoProcs == {v4, v6}
OneTable == {"rate_events"}
\* Settings that start, and one of each kind that should not.
Plain == [BMUIPASS |-> "strong", insecure |-> FALSE, wildcard |-> FALSE, bareNone |-> FALSE]
SixEnvironments ==
    {[Plain EXCEPT !.BMUIPASS = word] : word \in {"unset", "empty", "admin", "strong"}}
    \cup {[Plain EXCEPT !.wildcard = TRUE], [Plain EXCEPT !.bareNone = TRUE]}

TwoColumns == <<"token", "sim1signal">>
=============================================================================
