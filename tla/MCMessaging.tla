----------------------------- MODULE MCMessaging -----------------------------
(***************************************************************************)
(* Instances of Messaging for TLC: two devices, two flights.               *)
(***************************************************************************)
EXTENDS Messaging

CONSTANTS d1, d2, f1, f2

OneDevice == {d1}
TwoDevices == {d1, d2}
TwoFlights == {f1, f2}
=============================================================================
