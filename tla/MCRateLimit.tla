----------------------------- MODULE MCRateLimit -----------------------------
(***************************************************************************)
(* Instances of RateLimit for TLC: two or three concurrent callers, one    *)
(* key whose window is narrower than the widest one, one as wide as it.    *)
(***************************************************************************)
EXTENDS RateLimit, TLC

CONSTANTS c1, c2, c3, sms, dial

TwoCallers == {c1, c2}
TwoKeys == {sms, dial}
TwoMax == (sms :> 1) @@ (dial :> 2)
TwoPeriods == (sms :> 1) @@ (dial :> 2)

OneKey == {sms}
OneMax == (sms :> 1)
OnePeriod == (sms :> 1)
=============================================================================
