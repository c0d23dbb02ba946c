------------------------------ MODULE BaseVault ------------------------------
(***************************************************************************)
(* LordsPotBaseVault.sol: the vault on Base that buys the relayed tickets  *)
(* from Megapot and takes in their winnings.  One action per function; one *)
(* that reverts changes nothing.  Megapot and the tokens are external: a   *)
(* purchase pulls Cost in Megapot's own token through the allowance, a     *)
(* claim burns the tickets and pays Prize for each in that token.          *)
(* Events and view functions are left out.                                 *)
(***************************************************************************)
EXTENDS Integers, FiniteSets

CONSTANTS
    Addresses,  \* addresses but address(0)
    Nobody,     \* address(0)
    Owners,     \* those the vault is ever owned by
    Relayers, Megapots, Tokens, Referrers,  \* those the vault is pointed at
    PaysIn,     \* the token each Megapot takes and pays
    Ids,        \* order ids (one per relayed chunk)
    Cost, Prize,
    MaxHolding  \* bound: what the vault holds of a token through deposits

ASSUME VaultConstants ==
    /\ Nobody \notin Addresses
    /\ Owners \cup Relayers \cup Megapots \cup Tokens \cup Referrers \subseteq Addresses
    /\ PaysIn \in [Megapots -> Tokens]
    /\ Cost \in Nat /\ Prize \in Nat /\ MaxHolding \in Nat

VARIABLES
    owner,      \* Ownable
    stopped,    \* Pausable
    info,       \* vaultInfo
    fulfilled,  \* isOrderFulfilled
    allowance,  \* tokens and spenders with an unlimited allowance of the vault
    holding,    \* the vault's balance of each token
    nfts,       \* tickets the vault owns: the Megapot and the order of each
    purchases   \* how often each order's tickets were bought (observed only)

vaultVars == <<owner, stopped, info, fulfilled, allowance, holding, nfts, purchases>>

\* The constructor: all addresses are set, the first allowance is given.
VaultInit ==
    /\ owner \in Owners /\ stopped = FALSE
    /\ info \in [relayer : Relayers, megapot : Megapots, usdc : Tokens, referrer : Referrers]
    /\ fulfilled = {} /\ nfts = {}
    /\ allowance = {<<info.usdc, info.megapot>>}
    /\ holding = [t \in Tokens |-> 0] /\ purchases = [o \in Ids |-> 0]

\* Any transfer to the vault: a top-up from the treasury, for one.
Deposit(t, amount) ==
    /\ holding[t] + amount <= MaxHolding
    /\ holding' = [holding EXCEPT ![t] = @ + amount]
    /\ UNCHANGED <<owner, stopped, info, fulfilled, allowance, nfts, purchases>>

buyTickets(caller, o) ==
    LET token == PaysIn[info.megapot]
    IN  /\ ~stopped /\ caller = info.relayer
        /\ o \notin fulfilled
        /\ <<token, info.megapot>> \in allowance /\ holding[token] >= Cost
        /\ fulfilled' = fulfilled \cup {o}
        /\ purchases' = [purchases EXCEPT ![o] = @ + 1]
        /\ holding' = [holding EXCEPT ![token] = @ - Cost]
        /\ nfts' = nfts \cup {<<info.megapot, o>>}
        /\ UNCHANGED <<owner, stopped, info, allowance>>

\* Not stopped by the pause; one foreign or burnt ticket reverts them all.
claimWinnings(caller, tickets) ==
    /\ caller = info.relayer
    /\ tickets # {}
    /\ tickets \subseteq nfts /\ \A n \in tickets : n[1] = info.megapot
    /\ nfts' = nfts \ tickets
    /\ holding' = [holding EXCEPT ![PaysIn[info.megapot]] = @ + Cardinality(tickets) * Prize]
    /\ UNCHANGED <<owner, stopped, info, fulfilled, allowance, purchases>>

withdrawUsdc(caller, amount) ==
    /\ caller = owner /\ amount <= holding[info.usdc]
    /\ holding' = [holding EXCEPT ![info.usdc] = @ - amount]
    /\ UNCHANGED <<owner, stopped, info, fulfilled, allowance, nfts, purchases>>

pause(caller) ==
    /\ caller = owner /\ ~stopped /\ stopped' = TRUE
    /\ UNCHANGED <<owner, info, fulfilled, allowance, holding, nfts, purchases>>
unPause(caller) ==
    /\ caller = owner /\ stopped /\ stopped' = FALSE
    /\ UNCHANGED <<owner, info, fulfilled, allowance, holding, nfts, purchases>>

\* OpenZeppelin's Ownable, transferred or renounced for good.
transferOwnership(caller, new) ==
    /\ caller = owner /\ owner' = new
    /\ UNCHANGED <<stopped, info, fulfilled, allowance, holding, nfts, purchases>>

setVaultRelayer(caller, new) ==
    /\ caller = owner /\ new # info.relayer
    /\ info' = [info EXCEPT !.relayer = new]
    /\ UNCHANGED <<owner, stopped, fulfilled, allowance, holding, nfts, purchases>>
setVaultReferrerAddress(caller, new) ==
    /\ caller = info.referrer /\ new # info.referrer
    /\ info' = [info EXCEPT !.referrer = new]
    /\ UNCHANGED <<owner, stopped, fulfilled, allowance, holding, nfts, purchases>>

\* A mutant for the checks: the old token keeps its allowance.
setVaultUsdcAddressKeeps(caller, new) ==
    /\ caller = owner /\ new # info.usdc
    /\ allowance' = allowance \cup {<<new, info.megapot>>}
    /\ info' = [info EXCEPT !.usdc = new]
    /\ UNCHANGED <<owner, stopped, fulfilled, holding, nfts, purchases>>
\* The old allowance is revoked before the new one is given.
setVaultMegapotAddress(caller, new) ==
    /\ caller = owner /\ new # info.megapot
    /\ allowance' = (allowance \ {<<info.usdc, info.megapot>>}) \cup {<<info.usdc, new>>}
    /\ info' = [info EXCEPT !.megapot = new]
    /\ UNCHANGED <<owner, stopped, fulfilled, holding, nfts, purchases>>
setVaultUsdcAddress(caller, new) ==
    /\ caller = owner /\ new # info.usdc
    /\ allowance' = (allowance \ {<<info.usdc, info.megapot>>}) \cup {<<new, info.megapot>>}
    /\ info' = [info EXCEPT !.usdc = new]
    /\ UNCHANGED <<owner, stopped, fulfilled, holding, nfts, purchases>>

\* Configuration, by the owner's and the referrer's hand.
Configure(caller) ==
    \/ pause(caller) \/ unPause(caller)
    \/ \E a \in Owners \cup {Nobody} : transferOwnership(caller, a)
    \/ \E a \in Relayers : setVaultRelayer(caller, a)
    \/ \E a \in Referrers : setVaultReferrerAddress(caller, a)
    \/ \E a \in Megapots : setVaultMegapotAddress(caller, a)
    \/ \E a \in Tokens : setVaultUsdcAddress(caller, a)
Fund ==
    \E t \in Tokens, amount \in 1..MaxHolding :
       Deposit(t, amount) \/ \E c \in Addresses : withdrawUsdc(c, amount)
Relay(o) == \E c \in Addresses : buyTickets(c, o)
Harvest == \E c \in Addresses, tickets \in SUBSET nfts : claimWinnings(c, tickets)

VaultNext ==
    \/ \E c \in Addresses : Configure(c)
    \/ Fund \/ Harvest \/ \E o \in Ids : Relay(o)
VaultSpec == VaultInit /\ [][VaultNext]_vaultVars

-----------------------------------------------------------------------------
\* The values the variables take.
VaultTypeOK ==
    /\ owner \in Owners \cup {Nobody} /\ stopped \in BOOLEAN
    /\ info \in [relayer : Relayers, megapot : Megapots, usdc : Tokens, referrer : Referrers]
    /\ fulfilled \subseteq Ids /\ nfts \subseteq Megapots \X Ids
    /\ allowance \subseteq Tokens \X Megapots
    /\ holding \in [Tokens -> Nat] /\ purchases \in [Ids -> Nat]

\* Whatever the sequence of setter calls, the one Megapot the vault points at
\* may pull the one token it points at, and nobody may pull anything else:
\* no retired Megapot and no retired token keeps an allowance
\* (constructor, setVaultMegapotAddress, setVaultUsdcAddress).
AllowanceIsCurrent == allowance = {<<info.usdc, info.megapot>>}

\* An order's tickets are bought once, also when the vault is pointed at
\* another Megapot between two attempts of the relayer (buyTickets).
BoughtOnce == \A o \in Ids : purchases[o] = IF o \in fulfilled THEN 1 ELSE 0
=============================================================================
