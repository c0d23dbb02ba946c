----------------------------- MODULE MCStorefront -----------------------------
\* Constants of the model-checked instance of Storefront: the admin a, whom the
\* page takes for the fee's recipient, the treasury t and the buyer u.
EXTENDS Storefront
CONSTANTS a, t, u

MCRoles == {a, t}
MCKeys == {a, t, u}
Wide == [normal |-> 6, bonus |-> 1]
MCBounds == {[normal |-> 5, bonus |-> 1], Wide}
MCPicks == {[top |-> 5, bonus |-> 1], [top |-> 6, bonus |-> 1]}
Rates(base) == [feeBase |-> base, feePerTicket |-> 1, recipient |-> a,
                maxTickets |-> 2, maxClaim |-> 1]
MCConfigs == {Rates(1), Rates(2)}
MCSignatures == (1..MaxAttempts) \X (1..MaxStaged)
=============================================================================
