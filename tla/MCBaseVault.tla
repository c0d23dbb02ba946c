------------------------------ MODULE MCBaseVault ------------------------------
\* Constants of the model-checked instance of BaseVault: the owner o is also the
\* first referrer, each of two Megapots pays in a token of its own.
EXTENDS BaseVault, TLC
CONSTANTS o, r1, r2, m1, m2, d1, d2

MCAddresses == {o, r1, r2, m1, m2, d1, d2}
MCPaysIn == m1 :> d1 @@ m2 :> d2
=============================================================================
