------------------------------ MODULE MCSessions ------------------------------
(***************************************************************************)
(* Instances of Sessions for TLC: two tabs of one browser with a request   *)
(* each, or one tab with one request; two sessions each time.  The view    *)
(* leaves out the selection, which no guard and no other variable depends  *)
(* on; it is not for a property about the selection.                       *)
(***************************************************************************)
EXTENDS Sessions, TLC

CONSTANTS tab1, tab2, tok1, tok2

TwoTabs == {tab1, tab2}
OneTab == {tab1}
TwoTokens == {tok1, tok2}
OnePerTab == {<<tab1, 1>>, <<tab2, 1>>}
OneRequest == {<<tab1, 1>>}

Symmetry == Permutations(TwoTabs) \cup Permutations(TwoTokens)
AllButSelected ==
    <<now, server, pass, jar, place, authed, call, faults, revoked, undeleted>>
=============================================================================
