----------------------------- MODULE MCScanProbe -----------------------------
(***************************************************************************)
(* Instances of ScanProbe for TLC: two boards and a router, or no device,  *)
(* on three addresses.                                                     *)
(***************************************************************************)
EXTENDS ScanProbe

CONSTANTS b1, b2, router

TwoBoards == {b1, b2}
ThreeDevices == {b1, b2, router}
NoDevices == {}
=============================================================================
