-------------------------- MODULE MCPayoutVouchers --------------------------
(* Small instances of PayoutVouchers: the functions a configuration file   *)
(* cannot write down.                                                      *)
EXTENDS PayoutVouchers, TLC

CONSTANTS a, b, c1, c2, c3, t1, t2

(* One wallet, two tickets of the same prize, so amounts cannot tell two   *)
(* vouchers apart.                                                         *)
OneBuyer == [t \in Tickets |-> a]
EqualPrizes == [t \in Tickets |-> 1]
OneRequester == [c \in Claims |-> a]

(* Two wallets whose tickets have the same prize.                          *)
TwoBuyers == [t \in Tickets |-> IF t = t1 THEN a ELSE b]
TwoRequesters == [c \in Claims |-> IF c = c3 THEN b ELSE a]

ClaimSymmetry == Permutations(Claims)
=============================================================================
