--------------------------- MODULE MCDevicesStore ---------------------------
(***************************************************************************)
(* Instance of DevicesStore for TLC: pages of one row, two boards of which *)
(* one has a row at first, two groups, and one search text or none.        *)
(***************************************************************************)
EXTENDS DevicesStore, TLC

CONSTANTS b1, b2, red, blue, word

TwoBoards == {b1, b2}
TwoGroups == {red, blue}
OneText == {word}
NoTexts == {}

Symmetry == Permutations(TwoBoards) \cup Permutations(TwoGroups)
=============================================================================
