------------------------------ MODULE MCRegistry ------------------------------
(***************************************************************************)
(* Instances of Registry for TLC: two boards that swap two addresses, one  *)
(* scan saving, one operator.  Boards and addresses are interchangeable.   *)
(***************************************************************************)
EXTENDS Registry, TLC

CONSTANTS a, b, lab, i1, i2, s1, s2, e1

TwoBoards == {a, b}
TwoIps == {i1, i2}
OneLabel == {lab}
OneSaver == {s1}
OneEditor == {e1}
EveryKindOfEdit == {"alias", "simbatch", "token", "delete"}
DeleteOnly == {"delete"}

Symmetry == Permutations(TwoBoards) \cup Permutations(TwoIps)
=============================================================================
