----------------------------- MODULE MCLoginGate -----------------------------
(***************************************************************************)
(* Instances of LoginGate for TLC: two processes; two addresses or one;    *)
(* the account typed in two ways, and a blank or a non-ASCII name.         *)
(***************************************************************************)
EXTENDS LoginGate, TLC

CONSTANTS p1, p2, a1, a2, admin

TwoProcs == {p1, p2}
TwoAddresses == {a1, a2}
OneAccount == {admin}
MCNames == {"admin", "Admin", "blank"}
LowerOf == ("admin" :> admin) @@ ("Admin" :> admin) @@ ("blank" :> Blank)
OneAddress == {a1}
OneName == {"admin"}
LowerOfOne == "admin" :> admin
Alike == Permutations(TwoProcs) \cup Permutations(TwoAddresses)
LimitOne == [k \in Keys |-> 1]
ShortAndLong == [k \in Keys |-> IF k \in Accounts THEN 2 ELSE 1]
=============================================================================
