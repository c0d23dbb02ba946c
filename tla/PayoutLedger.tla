---------------------------- MODULE PayoutLedger ----------------------------
(***************************************************************************)
(* What the payout path promises, without rows, vouchers or sweeps: prizes *)
(* are credited once they are harvested, and a payout hands one wallet a   *)
(* set of credited tickets, none of which was ever paid before.            *)
(***************************************************************************)
EXTENDS Naturals

CONSTANTS Tickets, Wallets, Buyer

VARIABLES
    credited,  \* tickets whose prize is in the vault
    payouts    \* how often each ticket's prize has left it

vars == <<credited, payouts>>

Init == credited = {} /\ payouts = [t \in Tickets |-> 0]

Credit(t) ==
    /\ t \notin credited
    /\ credited' = credited \cup {t}
    /\ UNCHANGED payouts

Payable(w) == {t \in credited : Buyer[t] = w /\ payouts[t] = 0}

PayOut(w, S) ==
    /\ S # {} /\ S \subseteq Payable(w)
    /\ payouts' = [t \in Tickets |-> IF t \in S THEN payouts[t] + 1 ELSE payouts[t]]
    /\ UNCHANGED credited

Next ==
    \/ \E t \in Tickets : Credit(t)
    \/ \E w \in Wallets, S \in SUBSET Tickets : PayOut(w, S)

Spec == Init /\ [][Next]_vars
=============================================================================
