-------------------------------- MODULE MCScan --------------------------------
(***************************************************************************)
(* Instances of Scan for TLC: two scans that overlap (a browser whose      *)
(* polling timed out starts another one), one restart of the server, a     *)
(* loop of two polls; each scan finds a device or none, or, for Scan_done, *)
(* two devices together or none.                                           *)
(***************************************************************************)
EXTENDS Scan

CONSTANTS scan1, scan2, tab1, host1, host2

TwoScans == {scan1, scan2}
OneTab == {tab1}
OneHost == {host1}
TwoHosts == {host1, host2}
OneOrNone == {{}, OneHost}
BothOrNone == {{}, TwoHosts}
=============================================================================
