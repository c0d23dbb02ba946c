----------------------------- MODULE MCSettlement -----------------------------
(* An instance of Settlement for TLC: two drawings, in which each ticket   *)
(* falls into a different tier.                                            *)
EXTENDS Settlement, TLC

CONSTANTS o1, o2, t1, t2, t3, p1, p2

TwoAndOne == [t \in Tickets |-> IF t = t3 THEN o2 ELSE o1]
Numbers == [t \in Tickets |-> CASE t = t1 -> {1, 2} [] t = t2 -> {1, 4} [] OTHER -> {3, 4}]
Bonuses == [t \in Tickets |-> IF t = t1 THEN 2 ELSE 1]
Winning == [e \in Epochs |-> IF e = 1 THEN {1, 2} ELSE {2, 3}]
WinningBonus == [e \in Epochs |-> 1]

(* A matching tier that pays nothing, and an amount on which the two ways  *)
(* of rounding the share differ.                                           *)
Payouts == [e \in Epochs |-> [i \in 0..5 |-> CASE i = 1 -> 11 [] i = 3 -> 15 [] i = 4 -> 19
                                               [] OTHER -> 0]]
ProcessSymmetry == Permutations(Processes)
=============================================================================
