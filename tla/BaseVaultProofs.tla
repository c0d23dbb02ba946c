--------------------------- MODULE BaseVaultProofs ---------------------------
(***************************************************************************)
(* Theorems about LordsPotBaseVault.sol, for any sets of addresses,        *)
(* Megapots, tokens and orders and any amounts.                            *)
(***************************************************************************)
EXTENDS BaseVault, FiniteSetTheorems, TLAPS

Info == [relayer : Relayers, megapot : Megapots, usdc : Tokens, referrer : Referrers]

\* The values of the variables; the vault owns finitely many tickets, so
\* that they can be counted.
IInv ==
    /\ VaultTypeOK
    /\ IsFiniteSet(nfts)
    /\ AllowanceIsCurrent
    /\ BoughtOnce

-----------------------------------------------------------------------------
\* The constructor establishes the invariant.
LEMMA VaultInitInv ==
    ASSUME VaultConstants, VaultInit
    PROVE  IInv
<1>1. VaultTypeOK
  <2>1. allowance \subseteq Tokens \X Megapots
    BY DEF VaultInit
  <2>2. holding \in [Tokens -> Nat] /\ purchases \in [Ids -> Nat]
    BY DEF VaultInit
  <2> QED
    BY <2>1, <2>2 DEF VaultInit, VaultTypeOK
<1>2. IsFiniteSet(nfts)
  BY FS_EmptySet DEF VaultInit
<1>3. AllowanceIsCurrent /\ BoughtOnce
  BY DEF VaultInit, AllowanceIsCurrent, BoughtOnce
<1> QED
  BY <1>1, <1>2, <1>3 DEF IInv

\* Steps that change neither the addresses nor the purchases leave those
\* parts of the invariant alone.
LEMMA Frame ==
    ASSUME IInv, UNCHANGED <<info, allowance, fulfilled, purchases>>
    PROVE  AllowanceIsCurrent' /\ BoughtOnce'
BY DEF IInv, AllowanceIsCurrent, BoughtOnce

\* Deposits and withdrawals keep the balances amounts.
LEMMA FundInv ==
    ASSUME VaultConstants, IInv, Fund
    PROVE  IInv'
<1>1. PICK t \in Tokens, amount \in 1..MaxHolding :
        Deposit(t, amount) \/ \E c \in Addresses : withdrawUsdc(c, amount)
  BY DEF Fund
<1>2. amount \in Nat
  BY <1>1 DEF VaultConstants
<1>3. info \in Info /\ holding \in [Tokens -> Nat]
  BY DEF IInv, VaultTypeOK, Info
<1>4. CASE Deposit(t, amount)
  <2>1. holding' \in [Tokens -> Nat]
    BY <1>2, <1>3, <1>4 DEF Deposit
  <2>2. UNCHANGED <<owner, stopped, info, allowance, fulfilled, purchases, nfts>>
    BY <1>4 DEF Deposit
  <2> QED
    BY <2>1, <2>2, Frame DEF IInv, VaultTypeOK
<1>5. ASSUME NEW c \in Addresses, withdrawUsdc(c, amount)
      PROVE  IInv'
  <2>0. info.usdc \in Tokens
    BY <1>3 DEF Info
  <2>1. holding' \in [Tokens -> Nat]
    BY <1>2, <1>3, <1>5, <2>0 DEF withdrawUsdc
  <2>2. UNCHANGED <<owner, stopped, info, allowance, fulfilled, purchases, nfts>>
    BY <1>5 DEF withdrawUsdc
  <2> QED
    BY <2>1, <2>2, Frame DEF IInv, VaultTypeOK
<1> QED
  BY <1>1, <1>4, <1>5

\* A purchase spends what the vault has, for an order it had not bought.
LEMMA RelayInv ==
    ASSUME VaultConstants, IInv, NEW o \in Ids, Relay(o)
    PROVE  IInv'
<1>1. PICK c \in Addresses : buyTickets(c, o)
  BY DEF Relay
<1> DEFINE token == PaysIn[info.megapot]
<1>2. /\ info \in Info /\ holding \in [Tokens -> Nat]
      /\ purchases \in [Ids -> Nat] /\ fulfilled \subseteq Ids
      /\ nfts \subseteq Megapots \X Ids /\ IsFiniteSet(nfts)
  BY DEF IInv, VaultTypeOK, Info
<1>3. info.megapot \in Megapots /\ token \in Tokens
  BY <1>2 DEF Info, VaultConstants
<1>4. holding' \in [Tokens -> Nat]
  <2>1. /\ holding' = [holding EXCEPT ![token] = holding[token] - Cost]
        /\ holding[token] >= Cost
    BY <1>1 DEF buyTickets
  <2>2. holding[token] - Cost \in Nat
    BY <1>2, <1>3, <2>1 DEF VaultConstants
  <2> QED
    BY <1>2, <1>3, <2>1, <2>2
<1>5. purchases' \in [Ids -> Nat] /\ fulfilled' \subseteq Ids
  <2>1. /\ fulfilled' = fulfilled \cup {o}
        /\ purchases' = [purchases EXCEPT ![o] = purchases[o] + 1]
    BY <1>1 DEF buyTickets
  <2>2. purchases[o] + 1 \in Nat
    BY <1>2
  <2> QED
    BY <1>2, <2>1, <2>2
<1>6. nfts' \subseteq Megapots \X Ids /\ IsFiniteSet(nfts')
  <2>1. nfts' = nfts \cup {<<info.megapot, o>>}
    BY <1>1 DEF buyTickets
  <2>2. IsFiniteSet(nfts')
    BY <1>2, <2>1, FS_AddElement
  <2>3. nfts' \subseteq Megapots \X Ids
    BY <1>2, <1>3, <2>1
  <2> QED
    BY <2>2, <2>3
<1>7. UNCHANGED <<owner, stopped, info, allowance>>
  BY <1>1 DEF buyTickets
<1>8. BoughtOnce'
  <2>1. /\ o \notin fulfilled /\ fulfilled' = fulfilled \cup {o}
        /\ purchases' = [purchases EXCEPT ![o] = purchases[o] + 1]
    BY <1>1 DEF buyTickets
  <2>2. BoughtOnce
    BY DEF IInv
  <2>3. purchases'[o] = 1
    BY <1>2, <2>1, <2>2 DEF BoughtOnce
  <2>4. \A q \in Ids \ {o} : purchases'[q] = purchases[q]
    BY <1>2, <2>1
  <2> QED
    BY <2>1, <2>2, <2>3, <2>4 DEF BoughtOnce
<1> QED
  BY <1>4, <1>5, <1>6, <1>7, <1>8 DEF IInv, VaultTypeOK, AllowanceIsCurrent

\* A claim burns tickets the vault owns.
LEMMA HarvestInv ==
    ASSUME VaultConstants, IInv, Harvest
    PROVE  IInv'
<1>1. PICK c \in Addresses, tickets \in SUBSET nfts : claimWinnings(c, tickets)
  BY DEF Harvest
<1> DEFINE token == PaysIn[info.megapot]
           paid == Cardinality(tickets) * Prize
<1>2. /\ info \in Info /\ holding \in [Tokens -> Nat]
      /\ nfts \subseteq Megapots \X Ids /\ IsFiniteSet(nfts)
  BY DEF IInv, VaultTypeOK, Info
<1>3. token \in Tokens
  BY <1>2 DEF Info, VaultConstants
<1>4. paid \in Nat
  <2>0. IsFiniteSet(tickets)
    BY <1>1, <1>2, FS_Subset
  <2>1. Cardinality(tickets) \in Nat
    BY <2>0, FS_CardinalityType
  <2> QED
    BY <2>1 DEF VaultConstants
<1>5. holding' \in [Tokens -> Nat]
  <2>1. holding' = [holding EXCEPT ![token] = holding[token] + paid]
    BY <1>1 DEF claimWinnings
  <2>2. holding[token] + paid \in Nat
    BY <1>2, <1>3, <1>4
  <2> QED
    BY <1>2, <1>3, <2>1, <2>2
<1>6. nfts' \subseteq Megapots \X Ids /\ IsFiniteSet(nfts')
  <2>1. nfts' = nfts \ tickets
    BY <1>1 DEF claimWinnings
  <2>2. nfts' \subseteq nfts
    BY <2>1
  <2>3. IsFiniteSet(nfts')
    BY <1>2, <2>2, FS_Subset
  <2> QED
    BY <1>2, <2>2, <2>3
<1>7. UNCHANGED <<owner, stopped, info, fulfilled, allowance, purchases>>
  BY <1>1 DEF claimWinnings
<1> QED
  BY <1>5, <1>6, <1>7, Frame DEF IInv, VaultTypeOK

\* The two setters that move the allowance leave one behind: the one of the
\* pair they leave in vaultInfo.
LEMMA SettersInv ==
    ASSUME VaultConstants, IInv, NEW c \in Addresses,
           \/ \E a \in Megapots : setVaultMegapotAddress(c, a)
           \/ \E a \in Tokens : setVaultUsdcAddress(c, a)
    PROVE  IInv'
<1>1. info \in Info /\ allowance = {<<info.usdc, info.megapot>>}
  BY DEF IInv, VaultTypeOK, AllowanceIsCurrent, Info
<1>2. CASE \E a \in Megapots : setVaultMegapotAddress(c, a)
  <2>1. PICK a \in Megapots : setVaultMegapotAddress(c, a)
    BY <1>2
  <2>2. info' = [info EXCEPT !.megapot = a]
    BY <2>1 DEF setVaultMegapotAddress
  <2>3. info' \in Info /\ info'.usdc = info.usdc /\ info'.megapot = a
    BY <1>1, <2>2 DEF Info
  <2>4. allowance' = {<<info'.usdc, info'.megapot>>}
    BY <1>1, <2>1, <2>3 DEF setVaultMegapotAddress
  <2>5. UNCHANGED <<owner, stopped, fulfilled, holding, nfts, purchases>>
    BY <2>1 DEF setVaultMegapotAddress
  <2>6. allowance' \subseteq Tokens \X Megapots
    BY <2>3, <2>4 DEF Info
  <2> QED
    BY <2>3, <2>4, <2>5, <2>6 DEF IInv, VaultTypeOK, AllowanceIsCurrent, BoughtOnce, Info
<1>3. CASE \E a \in Tokens : setVaultUsdcAddress(c, a)
  <2>1. PICK a \in Tokens : setVaultUsdcAddress(c, a)
    BY <1>3
  <2>2. info' = [info EXCEPT !.usdc = a]
    BY <2>1 DEF setVaultUsdcAddress
  <2>3. info' \in Info /\ info'.usdc = a /\ info'.megapot = info.megapot
    BY <1>1, <2>2 DEF Info
  <2>4. allowance' = {<<info'.usdc, info'.megapot>>}
    BY <1>1, <2>1, <2>3 DEF setVaultUsdcAddress
  <2>5. UNCHANGED <<owner, stopped, fulfilled, holding, nfts, purchases>>
    BY <2>1 DEF setVaultUsdcAddress
  <2>6. allowance' \subseteq Tokens \X Megapots
    BY <2>3, <2>4 DEF Info
  <2> QED
    BY <2>3, <2>4, <2>5, <2>6 DEF IInv, VaultTypeOK, AllowanceIsCurrent, BoughtOnce, Info
<1> QED
  BY <1>2, <1>3

\* Roles, the pause and the owner are none of the allowance's business.
LEMMA ConfigureInv ==
    ASSUME VaultConstants, IInv, NEW c \in Addresses, Configure(c)
    PROVE  IInv'
<1>0. info \in Info
  BY DEF IInv, VaultTypeOK, Info
<1>1. CASE \/ \E a \in Megapots : setVaultMegapotAddress(c, a)
           \/ \E a \in Tokens : setVaultUsdcAddress(c, a)
  BY <1>1, SettersInv
<1>2. CASE pause(c) \/ unPause(c) \/ \E a \in Owners \cup {Nobody} : transferOwnership(c, a)
  <2>1. UNCHANGED <<info, allowance, fulfilled, purchases, holding, nfts>>
    BY <1>2 DEF pause, unPause, transferOwnership
  <2>2. owner' \in Owners \cup {Nobody} /\ stopped' \in BOOLEAN
    BY <1>2 DEF pause, unPause, transferOwnership, IInv, VaultTypeOK
  <2> QED
    BY <2>1, <2>2, Frame DEF IInv, VaultTypeOK
<1>3. ASSUME NEW a \in Relayers, setVaultRelayer(c, a)
      PROVE  IInv'
  <2>1. info' = [info EXCEPT !.relayer = a]
    BY <1>3 DEF setVaultRelayer
  <2>2. info' \in Info /\ info'.usdc = info.usdc /\ info'.megapot = info.megapot
    BY <1>0, <2>1 DEF Info
  <2>3. UNCHANGED <<owner, stopped, fulfilled, allowance, holding, nfts, purchases>>
    BY <1>3 DEF setVaultRelayer
  <2> QED
    BY <2>2, <2>3 DEF IInv, VaultTypeOK, AllowanceIsCurrent, BoughtOnce, Info
<1>4. ASSUME NEW a \in Referrers, setVaultReferrerAddress(c, a)
      PROVE  IInv'
  <2>1. info' = [info EXCEPT !.referrer = a]
    BY <1>4 DEF setVaultReferrerAddress
  <2>2. info' \in Info /\ info'.usdc = info.usdc /\ info'.megapot = info.megapot
    BY <1>0, <2>1 DEF Info
  <2>3. UNCHANGED <<owner, stopped, fulfilled, allowance, holding, nfts, purchases>>
    BY <1>4 DEF setVaultReferrerAddress
  <2> QED
    BY <2>2, <2>3 DEF IInv, VaultTypeOK, AllowanceIsCurrent, BoughtOnce, Info
<1> QED
  BY <1>1, <1>2, <1>3, <1>4 DEF Configure

\* Every call of the vault preserves the invariant.
LEMMA VaultStep ==
    ASSUME VaultConstants, IInv, [VaultNext]_vaultVars
    PROVE  IInv'
<1>1. CASE UNCHANGED vaultVars
  BY <1>1 DEF vaultVars, IInv, VaultTypeOK, AllowanceIsCurrent, BoughtOnce
<1>2. ASSUME NEW c \in Addresses, Configure(c)
      PROVE  IInv'
  BY <1>2, ConfigureInv
<1>3. CASE Fund
  BY <1>3, FundInv
<1>4. CASE Harvest
  BY <1>4, HarvestInv
<1>5. ASSUME NEW o \in Ids, Relay(o)
      PROVE  IInv'
  BY <1>5, RelayInv
<1> QED
  BY <1>1, <1>2, <1>3, <1>4, <1>5 DEF VaultNext

\* IInv holds in every reachable state of the vault.
THEOREM InductiveInvariant == VaultSpec => []IInv
<1>1. VaultInit => IInv
  BY VaultInitInv, VaultConstants
<1>2. IInv /\ [VaultNext]_vaultVars => IInv'
  BY VaultStep, VaultConstants
<1> QED
  BY <1>1, <1>2, PTL DEF VaultSpec

\* The vault's storage and balances keep their types: no balance goes below
\* zero, only configured addresses are ever approved (all functions).
THEOREM TypeCorrect == VaultSpec => []VaultTypeOK
<1>1. IInv => VaultTypeOK
  BY DEF IInv
<1> QED
  BY <1>1, InductiveInvariant, PTL

\* Whatever the sequence of setter calls, purchases and claims, exactly the
\* current Megapot may pull exactly the current token
\* (setVaultMegapotAddress, setVaultUsdcAddress).
THEOREM AllowanceFollows == VaultSpec => []AllowanceIsCurrent
<1>1. IInv => AllowanceIsCurrent
  BY DEF IInv
<1> QED
  BY <1>1, InductiveInvariant, PTL

\* No order is bought twice, through any change of Megapot, relayer or owner
\* between two attempts (buyTickets).
THEOREM EachOrderOnce == VaultSpec => []BoughtOnce
<1>1. IInv => BoughtOnce
  BY DEF IInv
<1> QED
  BY <1>1, InductiveInvariant, PTL
=============================================================================
