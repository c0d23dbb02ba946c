----------------------------- MODULE MCIngestion -----------------------------
(* Small instances of Ingestion. *)
EXTENDS Ingestion, TLC

CONSTANTS h1, h2

Log(paid, shown) == [paid |-> paid, shown |-> shown, named |-> TRUE, mixed |-> FALSE]
TwoBuyers == [Log(2, 2) EXCEPT !.mixed = TRUE]

\* Two events in one log; then two of which the log kept one, two of two
\* buyers, or no purchase.  Other kinds take the branches of one of these.
PurchaseThenAny == <<{Log(2, 2)}, {Log(2, 1), TwoBuyers, NotLanded}>>
=============================================================================
