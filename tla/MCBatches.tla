------------------------------ MODULE MCBatches ------------------------------
(***************************************************************************)
(* Instances of Batches for TLC: two or three requests over two devices.   *)
(***************************************************************************)
EXTENDS Batches, TLC

CONSTANTS d1, d2, r1, r2, r3

TwoDevices == {d1, d2}
TwoRequests == {r1, r2}
ThreeRequests == {r1, r2, r3}
AllKinds == {"write", "sim", "check", "upgrade"}
OtaKinds == {"check", "upgrade"}
=============================================================================
