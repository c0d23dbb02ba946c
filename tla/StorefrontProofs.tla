--------------------------- MODULE StorefrontProofs ---------------------------
(***************************************************************************)
(* Theorems about the Anchor program, for any keys, configurations, ball   *)
(* bounds, purchases and sequence of instructions, and then about the      *)
(* browser that buys from it, for any basket, transaction size and number  *)
(* of presses of Buy.                                                      *)
(*                                                                         *)
(* The program's invariant says that sales opened under one pair of bounds *)
(* stay under it until an epoch ends.  The browser's says of each attempt  *)
(* that the transactions that have landed are an initial run of those it   *)
(* is split into, as many as were confirmed while it is being sent, and of *)
(* each sale which transaction of which attempt it is.  What the tickets   *)
(* and the fees of an attempt add up to follows by induction over its      *)
(* sales.                                                                  *)
(***************************************************************************)
EXTENDS Storefront, FiniteSetTheorems, SequenceTheorems, TLAPS

BoundsSet == [normal : Nat, bonus : Nat]

\* The state account as the instructions leave it, opaque but for its fields.
LEMMA StateFields ==
    ASSUME state \in StateSet
    PROVE  /\ state.layout \in {"none", "legacy", "current"}
           /\ state.admin \in Keys \cup {NoKey} /\ state.treasury \in Keys \cup {NoKey}
           /\ state.config \in ConfigSet /\ state.bounds \in BoundsSet
           /\ state.paused \in BOOLEAN /\ state.epoch \in Nat
BY DEF StateSet, BoundsSet

\* No epoch is ahead of the account's, nothing is sold before the account
\* has its layout, and while sales are open the account's bounds are those
\* of its epoch's sales.
SalesInv ==
    /\ state.layout # "current" => sold = {}
    /\ \A s \in sold : s.epoch <= state.epoch
    /\ ~state.paused => \A s \in sold : s.epoch = state.epoch => s.bounds = state.bounds

IInv == ProgramTypeOK /\ SalesInv /\ OneBoundsPerEpoch

-----------------------------------------------------------------------------
\* What the charges are computed with.
LEMMA Products == \A m, n \in Nat : m * n \in Nat
OBVIOUS

\* The configurations have natural fees.
LEMMA ConfigFields ==
    ASSUME ProgramConstants, NEW c \in ConfigSet
    PROVE  c.feeBase \in Nat /\ c.feePerTicket \in Nat
BY DEF ProgramConstants, ConfigSet, NoConfig

\* Account builds a state account.
LEMMA AccountType ==
    ASSUME NEW layout \in {"none", "legacy", "current"}, NEW admin \in Keys \cup {NoKey},
           NEW treasury \in Keys \cup {NoKey}, NEW config \in ConfigSet,
           NEW bounds \in BoundsSet, NEW paused \in BOOLEAN, NEW epoch \in Nat
    PROVE  Account(layout, admin, treasury, config, bounds, paused, epoch) \in StateSet
BY DEF Account, StateSet, BoundsSet

\* Every initial account is one, and nothing has been sold.
LEMMA ProgramInitInv ==
    ASSUME ProgramConstants, ProgramInit
    PROVE  IInv
<1>1. state \in StateSet
  <2>1. NoConfig \in ConfigSet /\ Configs \subseteq ConfigSet
    BY DEF ConfigSet
  <2>2. Bounds \subseteq BoundsSet /\ Roles \subseteq Keys
    BY DEF ProgramConstants, BoundsSet
  <2>3. CASE state = NoAccount
    <3>1. [normal |-> 0, bonus |-> 0] \in BoundsSet
      BY DEF BoundsSet
    <3> QED
      BY <2>1, <2>3, <3>1, AccountType DEF NoAccount
  <2>4. ASSUME NEW admin \in Roles, NEW b \in Bounds, NEW p \in BOOLEAN,
               state = Account("legacy", admin, NoKey, NoConfig, b, p, 1)
        PROVE  state \in StateSet
    BY <2>1, <2>2, <2>4, AccountType
  <2>5. ASSUME NEW admin \in Roles, NEW b \in Bounds, NEW p \in BOOLEAN,
               NEW c \in Configs,
               state = Account("current", admin, NoKey, c, b, p, 1)
        PROVE  state \in StateSet
    BY <2>1, <2>2, <2>5, AccountType
  <2> QED
    BY <2>3, <2>4, <2>5 DEF ProgramInit
<1>2. vault = 0 /\ sold = {} /\ signers = {}
  BY DEF ProgramInit
<1>3. ProgramTypeOK
  BY <1>1, <1>2 DEF ProgramTypeOK
<1>4. SalesInv /\ OneBoundsPerEpoch
  BY <1>2 DEF SalesInv, OneBoundsPerEpoch
<1> QED
  BY <1>3, <1>4 DEF IInv

\* A step that leaves the sales and, of the account, the four fields they
\* are compared with alone keeps what is said of them.
LEMMA Frame ==
    ASSUME IInv, sold' = sold,
           state'.layout = state.layout \/ state'.layout = "current",
           state'.bounds = state.bounds, state'.epoch = state.epoch,
           state'.paused = state.paused
    PROVE  SalesInv' /\ OneBoundsPerEpoch'
<1>1. SalesInv /\ OneBoundsPerEpoch
  BY DEF IInv
<1>2. OneBoundsPerEpoch'
  BY <1>1 DEF OneBoundsPerEpoch
<1>3. SalesInv'
  BY <1>1 DEF SalesInv
<1> QED
  BY <1>2, <1>3

\* Initialisation, migration and the setters.
LEMMA AdministerInv ==
    ASSUME ProgramConstants, IInv, Administer
    PROVE  IInv'
<1>0. /\ state \in StateSet /\ vault \in Nat /\ sold \subseteq SaleSet
      /\ signers \subseteq Keys
  BY DEF IInv, ProgramTypeOK
<1>1. /\ Configs \subseteq ConfigSet /\ Bounds \subseteq BoundsSet
      /\ Roles \subseteq Keys /\ 1 \in Nat
  BY DEF ConfigSet, ProgramConstants, BoundsSet
<1>2. PICK k \in Roles :
        \/ \E c \in Configs, t \in Roles :
             \/ \E b \in Bounds : initialize(k, c, t, b, 1)
             \/ migrate_state(k, c, t)
        \/ \E new \in Roles : set_admin(k, new) \/ set_treasury_authority(k, new)
        \/ \E c \in Configs : set_relay_config(k, c)
        \/ \E amount \in 1..vault : withdraw_vault_funds(k, amount)
  BY DEF Administer
<1>3. ASSUME NEW c \in Configs, NEW t \in Roles, NEW b \in Bounds,
             initialize(k, c, t, b, 1)
      PROVE  IInv'
  <2>1. state' = Account("current", k, t, c, b, FALSE, 1)
    BY <1>3 DEF initialize
  <2>2. state' \in StateSet
    BY <1>1, <2>1, AccountType
  <2>3. sold' = {} /\ vault' = vault /\ signers' = {k}
    BY <1>3 DEF initialize, IInv, SalesInv
  <2>4. ProgramTypeOK'
    BY <1>0, <1>1, <2>2, <2>3 DEF ProgramTypeOK
  <2>5. SalesInv' /\ OneBoundsPerEpoch'
    BY <2>3 DEF SalesInv, OneBoundsPerEpoch
  <2> QED
    BY <2>4, <2>5 DEF IInv
<1>4. ASSUME NEW c \in Configs, NEW t \in Roles, migrate_state(k, c, t)
      PROVE  IInv'
  <2>1. state' = [state EXCEPT !.layout = "current", !.config = c, !.treasury = t]
    BY <1>4 DEF migrate_state
  <2>2. /\ state' \in StateSet /\ state'.layout = "current"
        /\ state'.bounds = state.bounds /\ state'.epoch = state.epoch
        /\ state'.paused = state.paused
    BY <1>0, <1>1, <2>1 DEF StateSet
  <2>3. sold' = sold /\ vault' = vault /\ signers' = {k}
    BY <1>4 DEF migrate_state
  <2>4. ProgramTypeOK'
    BY <1>0, <1>1, <2>2, <2>3 DEF ProgramTypeOK
  <2> QED
    BY <2>2, <2>3, <2>4, Frame DEF IInv
<1>5. ASSUME NEW new \in Roles, set_admin(k, new) \/ set_treasury_authority(k, new)
      PROVE  IInv'
  <2>1. \/ state' = [state EXCEPT !.admin = new]
        \/ state' = [state EXCEPT !.treasury = new]
    BY <1>5 DEF set_admin, set_treasury_authority
  <2>2. /\ state' \in StateSet /\ state'.layout = state.layout
        /\ state'.bounds = state.bounds /\ state'.epoch = state.epoch
        /\ state'.paused = state.paused
    BY <1>0, <1>1, <2>1 DEF StateSet
  <2>3. sold' = sold /\ vault' = vault /\ signers' = {k, new}
    BY <1>5 DEF set_admin, set_treasury_authority
  <2>4. ProgramTypeOK'
    BY <1>0, <1>1, <2>2, <2>3 DEF ProgramTypeOK
  <2> QED
    BY <2>2, <2>3, <2>4, Frame DEF IInv
<1>6. ASSUME NEW c \in Configs, set_relay_config(k, c)
      PROVE  IInv'
  <2>1. state' = [state EXCEPT !.config = c]
    BY <1>6 DEF set_relay_config
  <2>2. /\ state' \in StateSet /\ state'.layout = state.layout
        /\ state'.bounds = state.bounds /\ state'.epoch = state.epoch
        /\ state'.paused = state.paused
    BY <1>0, <1>1, <2>1 DEF StateSet
  <2>3. UNCHANGED <<sold, vault, signers>>
    BY <1>6 DEF set_relay_config
  <2>4. ProgramTypeOK'
    BY <1>0, <2>2, <2>3 DEF ProgramTypeOK
  <2> QED
    BY <2>2, <2>3, <2>4, Frame DEF IInv
<1>7. ASSUME NEW amount \in 1..vault, withdraw_vault_funds(k, amount)
      PROVE  IInv'
  <2>1. UNCHANGED <<state, sold, signers>>
    BY <1>7 DEF withdraw_vault_funds
  <2>2. vault' \in Nat
    BY <1>0, <1>7 DEF withdraw_vault_funds
  <2>3. ProgramTypeOK'
    BY <1>0, <2>1, <2>2 DEF ProgramTypeOK
  <2> QED
    BY <2>1, <2>3, Frame DEF IInv
<1> QED
  BY <1>2, <1>3, <1>4, <1>5, <1>6, <1>7

\* Pausing, changing the bounds while paused, and resuming in a later epoch.
LEMMA OperateInv ==
    ASSUME ProgramConstants, IInv, Operate
    PROVE  IInv'
<1>0. /\ state \in StateSet /\ vault \in Nat /\ sold \subseteq SaleSet
      /\ signers \subseteq Keys /\ SalesInv /\ OneBoundsPerEpoch
  BY DEF IInv, ProgramTypeOK
<1>1. state.epoch \in Nat /\ \A s \in sold : s.epoch \in Nat
  BY <1>0, StateFields DEF SaleSet
<1>2. ASSUME NEW k \in Roles, pause_protocol(k)
      PROVE  IInv'
  <2>1. state' = [state EXCEPT !.paused = TRUE] /\ UNCHANGED <<vault, sold, signers>>
    BY <1>2 DEF pause_protocol
  <2>2. /\ state' \in StateSet /\ state'.layout = state.layout
        /\ state'.epoch = state.epoch /\ state'.paused
    BY <1>0, <2>1 DEF StateSet
  <2>3. SalesInv'
    BY <1>0, <2>1, <2>2 DEF SalesInv
  <2>4. OneBoundsPerEpoch'
    BY <1>0, <2>1 DEF OneBoundsPerEpoch
  <2> QED
    BY <1>0, <2>1, <2>2, <2>3, <2>4 DEF IInv, ProgramTypeOK
<1>3. ASSUME NEW k \in Roles, NEW next \in 1..MaxEpoch, resume_protocol(k, next)
      PROVE  IInv'
  <2>1. /\ state' = [state EXCEPT !.paused = FALSE, !.epoch = next]
        /\ next > state.epoch /\ UNCHANGED <<vault, sold, signers>>
    BY <1>3 DEF resume_protocol
  <2>2. next \in Nat
    BY DEF ProgramConstants
  <2>3. /\ state' \in StateSet /\ state'.layout = state.layout /\ state'.epoch = next
    BY <1>0, <2>1, <2>2 DEF StateSet
  <2>4. \A s \in sold : s.epoch < next
    BY <1>0, <1>1, <2>1, <2>2 DEF SalesInv
  <2>5. \A s \in sold : s.epoch <= next /\ s.epoch # next
    BY <1>1, <2>2, <2>4
  <2>6. SalesInv'
    BY <1>0, <2>1, <2>3, <2>5 DEF SalesInv
  <2>7. OneBoundsPerEpoch'
    BY <1>0, <2>1 DEF OneBoundsPerEpoch
  <2> QED
    BY <1>0, <2>1, <2>3, <2>6, <2>7 DEF IInv, ProgramTypeOK
<1>4. ASSUME NEW k \in Roles, NEW b \in Bounds, update_epoch(k, b)
      PROVE  IInv'
  <2>1. /\ state' = [state EXCEPT !.bounds = b]
        /\ state.paused /\ UNCHANGED <<vault, sold, signers>>
    BY <1>4 DEF update_epoch
  <2>2. b \in [normal : Nat, bonus : Nat]
    BY DEF ProgramConstants
  <2>3. /\ state' \in StateSet /\ state'.layout = state.layout
        /\ state'.epoch = state.epoch /\ state'.paused
    BY <1>0, <2>1, <2>2 DEF StateSet
  <2>4. SalesInv'
    BY <1>0, <2>1, <2>3 DEF SalesInv
  <2>5. OneBoundsPerEpoch'
    BY <1>0, <2>1 DEF OneBoundsPerEpoch
  <2> QED
    BY <1>0, <2>1, <2>3, <2>4, <2>5 DEF IInv, ProgramTypeOK
<1>5. ASSUME NEW k \in Roles, NEW user \in Keys, NEW amount \in 1..vault,
             claim_winnings(user, k, amount)
      PROVE  IInv'
  <2>1. UNCHANGED <<state, sold, signers>> /\ vault' \in Nat
    BY <1>0, <1>5 DEF claim_winnings
  <2>2. ProgramTypeOK'
    BY <1>0, <2>1 DEF ProgramTypeOK
  <2> QED
    BY <2>1, <2>2, Frame DEF IInv
<1>6. ASSUME NEW amount \in 1..MaxVault, TopUp(amount)
      PROVE  IInv'
  <2>1. UNCHANGED <<state, sold, signers>> /\ vault' \in Nat
    BY <1>0, <1>6 DEF TopUp, ProgramConstants
  <2>2. ProgramTypeOK'
    BY <1>0, <2>1 DEF ProgramTypeOK
  <2> QED
    BY <2>1, <2>2, Frame DEF IInv
<1> QED
  BY <1>2, <1>3, <1>4, <1>5, <1>6 DEF Operate

\* A purchase joins the sales of the open epoch, under the account's bounds.
LEMMA BuyInv ==
    ASSUME ProgramConstants, IInv, NEW sig \in Signatures, NEW buyer \in Keys,
           NEW recipient \in Keys, NEW picks \in Seq(Picks),
           buy_ticket(sig, buyer, picks, recipient)
    PROVE  IInv'
<1> DEFINE sale == Sale(sig, buyer, picks)
<1>0. /\ state \in StateSet /\ vault \in Nat /\ sold \subseteq SaleSet
      /\ signers \subseteq Keys /\ SalesInv /\ OneBoundsPerEpoch
  BY DEF IInv, ProgramTypeOK
<1>1. /\ state.layout = "current" /\ ~state.paused
      /\ \A i \in DOMAIN picks : InBounds(picks[i], state.bounds)
      /\ sold' = sold \cup {sale} /\ UNCHANGED <<state, signers>>
      /\ vault' = vault + Len(picks) * Price
  BY DEF buy_ticket, Decodes
<1>2. /\ state.config \in ConfigSet /\ state.bounds \in BoundsSet /\ state.epoch \in Nat
  BY <1>0, StateFields
<1>3. Len(picks) \in Nat
  OBVIOUS
<1>4. vault' \in Nat
  <2>1. Len(picks) * Price \in Nat
    BY <1>3, Products DEF ProgramConstants
  <2> QED
    BY <1>0, <1>1, <2>1
<1>5. /\ sale.epoch = state.epoch /\ sale.bounds = state.bounds /\ sale.picks = picks
  BY DEF Sale
<1>6. sale \in SaleSet
  <2>1. state.config.feeBase \in Nat /\ state.config.feePerTicket \in Nat
    BY <1>2, ConfigFields
  <2>2. Charge(Len(picks)) \in Nat
    <3>1. Len(picks) * state.config.feePerTicket \in Nat
      BY <1>3, <2>1, Products
    <3> QED
      BY <2>1, <3>1 DEF Charge
  <2>3. <<state.config.feeBase, state.config.feePerTicket>> \in Nat \X Nat
    BY <2>1
  <2> HIDE DEF Charge
  <2> QED
    BY <1>2, <2>2, <2>3 DEF Sale, SaleSet, BoundsSet
<1> HIDE DEF sale
<1>7. ProgramTypeOK'
  BY <1>0, <1>1, <1>4, <1>6 DEF ProgramTypeOK
<1>8. SalesInv'
  <2>1. sale.epoch <= state.epoch
    BY <1>2, <1>5
  <2> QED
    BY <1>0, <1>1, <1>5, <2>1 DEF SalesInv
<1>9. OneBoundsPerEpoch'
  <2>1. ASSUME NEW s \in sold', NEW r \in sold', s.epoch = r.epoch
        PROVE  s.bounds = r.bounds
    BY <1>0, <1>1, <1>5, <2>1 DEF OneBoundsPerEpoch, SalesInv
  <2>2. ASSUME NEW s \in sold', NEW i \in DOMAIN s.picks
        PROVE  InBounds(s.picks[i], s.bounds)
    BY <1>0, <1>1, <1>5 DEF OneBoundsPerEpoch
  <2> QED
    BY <2>1, <2>2 DEF OneBoundsPerEpoch
<1> QED
  BY <1>7, <1>8, <1>9 DEF IInv

\* Every instruction preserves the invariant.
LEMMA ProgramStep ==
    ASSUME ProgramConstants, IInv, [ProgramNext]_programVars
    PROVE  IInv'
<1>1. CASE UNCHANGED programVars
  <2>1. ProgramTypeOK'
    BY <1>1 DEF IInv, ProgramTypeOK, programVars
  <2> QED
    BY <1>1, <2>1, Frame DEF IInv, programVars
<1>2. CASE Administer
  BY <1>2, AdministerInv
<1>3. CASE Operate
  BY <1>3, OperateInv
<1>4. CASE Purchase
  <2>1. PICK sig \in Signatures, buyer \in Keys, recipient \in Keys, n \in 1..HardMax :
          \E picks \in [1..n -> Picks] : buy_ticket(sig, buyer, picks, recipient)
    BY <1>4 DEF Purchase
  <2>2. PICK picks \in [1..n -> Picks] : buy_ticket(sig, buyer, picks, recipient)
    BY <2>1
  <2>3. n \in Nat
    BY <2>1 DEF ProgramConstants
  <2>4. picks \in Seq(Picks)
    BY <2>2, <2>3
  <2> QED
    BY <2>2, <2>4, BuyInv
<1> QED
  BY <1>1, <1>2, <1>3, <1>4 DEF ProgramNext

\* IInv holds in every reachable state of the program.
THEOREM InductiveInvariant == ProgramSpec => []IInv
<1>1. ProgramInit => IInv
  BY ProgramInitInv, ProgramConstants
<1>2. IInv /\ [ProgramNext]_programVars => IInv'
  BY ProgramStep, ProgramConstants
<1> QED
  BY <1>1, <1>2, PTL DEF ProgramSpec

\* The account and the recorded sales keep their types.
THEOREM TypeCorrect == ProgramSpec => []ProgramTypeOK
<1>1. IInv => ProgramTypeOK
  BY DEF IInv
<1> QED
  BY <1>1, InductiveInvariant, PTL

\* All tickets of one epoch were sold under the same bounds and lie in them,
\* whoever calls which instruction in which order (buy_ticket,
\* update_epoch, resume_protocol).
THEOREM EpochsHaveOneBounds == ProgramSpec => []OneBoundsPerEpoch
<1>1. IInv => OneBoundsPerEpoch
  BY DEF IInv
<1> QED
  BY <1>1, InductiveInvariant, PTL

\* Neither role changes hands without both keys' signatures (set_admin,
\* set_treasury_authority), and no other instruction touches either.
THEOREM RolesAreHandedOver == ProgramSpec => RolesHandedOver
<1> DEFINE Handed ==
      state.layout = "current" =>
         /\ state'.admin # state.admin => {state.admin, state'.admin} \subseteq signers'
         /\ state'.treasury # state.treasury =>
              /\ state'.treasury # NoKey
              /\ IF state.treasury = NoKey THEN state.admin \in signers'
                 ELSE {state.treasury, state'.treasury} \subseteq signers'
<1>1. ASSUME state \in StateSet, ProgramNext
      PROVE  Handed
  <2>1. ASSUME NEW k \in Roles, NEW c \in Configs, NEW t \in Roles,
               \/ \E b \in Bounds : initialize(k, c, t, b, 1)
               \/ migrate_state(k, c, t)
        PROVE  Handed
    BY <2>1 DEF initialize, migrate_state
  <2>2. ASSUME NEW k \in Roles, NEW new \in Roles, set_admin(k, new)
        PROVE  Handed
    <3>1. state'.admin = new /\ state'.treasury = state.treasury
      BY <1>1, <2>2 DEF set_admin, StateSet
    <3> QED
      BY <2>2, <3>1 DEF set_admin
  <2>3. ASSUME NEW k \in Roles, NEW new \in Roles, set_treasury_authority(k, new)
        PROVE  Handed
    <3>1. state'.admin = state.admin /\ state'.treasury = new
      BY <1>1, <2>3 DEF set_treasury_authority, StateSet
    <3> QED
      BY <2>3, <3>1 DEF set_treasury_authority
  <2>4. CASE state'.admin = state.admin /\ state'.treasury = state.treasury
    BY <2>4
  <2>5. ASSUME NEW k \in Roles,
               \/ \E c \in Configs : set_relay_config(k, c)
               \/ pause_protocol(k)
               \/ \E next \in 1..MaxEpoch : resume_protocol(k, next)
               \/ \E b \in Bounds : update_epoch(k, b)
        PROVE  Handed
    <3>1. state'.admin = state.admin /\ state'.treasury = state.treasury
      BY <1>1, <2>5 DEF set_relay_config, pause_protocol, resume_protocol,
                        update_epoch, StateSet
    <3> QED
      BY <3>1
  <2>6. CASE state' = state
    BY <2>6
  <2>7. CASE Administer
    BY <2>1, <2>2, <2>3, <2>5, <2>6, <2>7 DEF Administer, withdraw_vault_funds
  <2>8. CASE Operate
    BY <2>5, <2>6, <2>8 DEF Operate, claim_winnings, TopUp
  <2>9. CASE Purchase
    BY <2>6, <2>9 DEF Purchase, buy_ticket
  <2> QED
    BY <1>1, <2>7, <2>8, <2>9 DEF ProgramNext
<1>2. IInv /\ [ProgramNext]_programVars => [Handed]_programVars
  BY <1>1 DEF IInv, ProgramTypeOK
<1> QED
  BY <1>2, InductiveInvariant, PTL DEF ProgramSpec, RolesHandedOver

-----------------------------------------------------------------------------
\* A larger factor gives a larger product, and a product unfolds.
LEMMA Multiples ==
    ASSUME NEW d \in Nat
    PROVE  /\ \A m, n \in Nat : m <= n => m * d <= n * d
           /\ \A m \in Nat : m * d \in Nat /\ (m + 1) * d = m * d + d
  OBVIOUS

\* Division by the tickets of a transaction.
LEMMA Division ==
    ASSUME NEW n \in Nat, NEW d \in Nat \ {0}
    PROVE  n \div d \in Nat /\ (n \div d) * d <= n /\ n < (n \div d) * d + d
  BY Z3

\* A basket is split into as many transactions as it takes, and no more.
LEMMA ChunksCover ==
    ASSUME StorefrontConstants, NEW n \in Nat \ {0}
    PROVE  /\ Chunks(n) \in 1..n
           /\ (Chunks(n) - 1) * PerTx < n /\ n <= Chunks(n) * PerTx
           /\ \A k \in 1..Chunks(n) : (k - 1) * PerTx < n
           /\ \A k \in 1..Chunks(n) : k < Chunks(n) => k * PerTx < n
<1> DEFINE q == (n + PerTx - 1) \div PerTx
<1>0. PerTx \in Nat \ {0} /\ n + PerTx - 1 \in Nat
  BY DEF StorefrontConstants
<1>1. q \in Nat /\ q * PerTx <= n + PerTx - 1 /\ n + PerTx - 1 < q * PerTx + PerTx
  BY <1>0, Division
<1>2. Chunks(n) = q
  BY DEF Chunks
<1> HIDE DEF q
<1>3. q # 0
  BY <1>0, <1>1
<1>4. q - 1 \in Nat /\ q * PerTx = (q - 1) * PerTx + PerTx
  <2>1. q - 1 \in Nat /\ (q - 1) + 1 = q
    BY <1>1, <1>3
  <2> QED
    BY <1>0, <2>1, Multiples
<1>5. (q - 1) * PerTx < n /\ n <= q * PerTx
  BY <1>0, <1>1, <1>4, Multiples
<1>6. q <= n
  <2>1. (q - 1) * 1 <= (q - 1) * PerTx
    BY <1>0, <1>4, Products
  <2> QED
    BY <1>0, <1>1, <1>4, <1>5, <2>1, Multiples
<1>7. ASSUME NEW k \in 1..q
      PROVE  (k - 1) * PerTx < n /\ (k < q => k * PerTx < n)
  <2>1. k - 1 \in Nat /\ k \in Nat /\ k - 1 <= q - 1 /\ (k < q => k <= q - 1)
    BY <1>1
  <2>2. (k - 1) * PerTx <= (q - 1) * PerTx
    BY <1>0, <1>4, <2>1, Multiples
  <2>3. k < q => k * PerTx <= (q - 1) * PerTx
    BY <1>0, <1>4, <2>1, Multiples
  <2> QED
    BY <1>0, <1>4, <1>5, <2>1, <2>2, <2>3, Multiples
<1> QED
  BY <1>1, <1>2, <1>3, <1>5, <1>6, <1>7

\* The tickets before the k-th transaction's last one.
Upto(tickets, k) ==
    SubSeq(tickets, 1, IF k * PerTx < Len(tickets) THEN k * PerTx ELSE Len(tickets))

\* A transaction's tickets, and how many they are.
LEMMA ChunkTickets ==
    ASSUME StorefrontConstants, NEW b \in Seq(Picks), b # << >>,
           NEW k \in 1..Chunks(Len(b))
    PROVE  /\ Chunk(b, k) \in Seq(Picks)
           /\ Len(Chunk(b, k)) =
                IF k < Chunks(Len(b)) THEN PerTx ELSE Len(b) - (k - 1) * PerTx
<1> DEFINE m == (k - 1) * PerTx
           t == IF k * PerTx < Len(b) THEN k * PerTx ELSE Len(b)
<1>1. Len(b) \in Nat \ {0} /\ PerTx \in Nat \ {0} /\ k \in Nat /\ k - 1 \in Nat
  BY ChunksCover DEF StorefrontConstants
<1>2. m \in Nat /\ k * PerTx = m + PerTx
  <2>1. (k - 1) + 1 = k
    BY <1>1
  <2> QED
    BY <1>1, <2>1, Multiples
<1>3. m < Len(b) /\ (k < Chunks(Len(b)) => k * PerTx < Len(b))
  BY <1>1, ChunksCover
<1>4. k = Chunks(Len(b)) => Len(b) <= k * PerTx
  BY <1>1, ChunksCover
<1>5. k <= Chunks(Len(b)) /\ Chunks(Len(b)) \in Nat
  BY <1>1, ChunksCover
<1>6. Chunk(b, k) = SubSeq(b, m + 1, t)
  BY DEF Chunk
<1> HIDE DEF m
<1>7. t \in m + 1 .. Len(b)
  BY <1>1, <1>2, <1>3
<1>8. m + 1 \in Int /\ t \in Int /\ m + 1 <= t /\ \A i \in m + 1 .. t : b[i] \in Picks
  BY <1>1, <1>2, <1>7
<1>9. t = IF k < Chunks(Len(b)) THEN m + PerTx ELSE Len(b)
  BY <1>1, <1>2, <1>3, <1>4, <1>5
<1> HIDE DEF t
<1>10. SubSeq(b, m + 1, t) \in Seq(Picks) /\ Len(SubSeq(b, m + 1, t)) = t - m
  BY <1>2, <1>8, SubSeqProperties
<1>11. Len(Chunk(b, k)) = IF k < Chunks(Len(b)) THEN PerTx ELSE Len(b) - m
  BY <1>1, <1>2, <1>6, <1>9, <1>10
<1> QED
  BY <1>6, <1>10, <1>11 DEF m

\* The transactions follow one another without a gap.
LEMMA ChunksJoin ==
    ASSUME StorefrontConstants, NEW b \in Seq(Picks), b # << >>,
           NEW k \in 2..Chunks(Len(b))
    PROVE  Upto(b, k - 1) \o Chunk(b, k) = Upto(b, k)
<1> DEFINE m == (k - 1) * PerTx
           t == IF k * PerTx < Len(b) THEN k * PerTx ELSE Len(b)
<1>1. Len(b) \in Nat \ {0} /\ PerTx \in Nat \ {0} /\ k - 1 \in Nat
      /\ k \in 1..Chunks(Len(b))
  BY ChunksCover DEF StorefrontConstants
<1>2. m \in Nat /\ k * PerTx = m + PerTx
  <2>1. (k - 1) + 1 = k
    BY <1>1
  <2> QED
    BY <1>1, <2>1, Multiples
<1>3. m < Len(b)
  BY <1>1, ChunksCover
<1>4. Upto(b, k - 1) = SubSeq(b, 1, m)
  BY <1>3 DEF Upto
<1>5. Chunk(b, k) = SubSeq(b, m + 1, t) /\ Upto(b, k) = SubSeq(b, 1, t)
  BY DEF Chunk, Upto
<1> HIDE DEF m
<1>6. 1 \in 1..Len(b) + 1 /\ m \in 0..Len(b) /\ t \in m..Len(b)
  BY <1>1, <1>2, <1>3
<1> HIDE DEF t
<1>7. SubSeq(b, 1, m) \o SubSeq(b, m + 1, t) = SubSeq(b, 1, t)
  BY <1>6, ConcatAdjacentSubSeq
<1> QED
  BY <1>4, <1>5, <1>7

-----------------------------------------------------------------------------
\* A set of naturals has a smallest element.
LEMMA SmallestNumber ==
    ASSUME NEW D, D \subseteq Nat, D # {}
    PROVE  \E i \in D : \A j \in D : ~(j < i)
<1> DEFINE R == OpToRel(<, Nat)
<1>1. IsWellFoundedOn(R, Nat)
  BY NatLessThanWellFounded, Zenon
<1>2. \A i, j \in Nat : j < i => <<j, i>> \in R
  BY Zenon DEF OpToRel
<1> HIDE DEF R
<1>3. PICK i \in D : \A j \in D : <<j, i>> \notin R
  BY <1>1, WFMin
<1> QED
  BY <1>2, <1>3

\* e tells what each beginning of a sequence of sequences joins to.
Joins(e, seqs) ==
    /\ Len(seqs) \in Nat \ {0}
    /\ e[1] = seqs[1]
    /\ \A i \in 2..Len(seqs) : e[i] = e[i - 1] \o seqs[i]

\* What a recursively joined sequence of sequences is, when it is known what
\* each of its beginnings is.
LEMMA FlattenIs ==
    ASSUME NEW seqs, NEW e, Joins(e, seqs)
    PROVE  FlattenSeq(seqs) = e[Len(seqs)]
<1> DEFINE n == Len(seqs)
<1>0. /\ n \in Nat \ {0} /\ e[1] = seqs[1]
      /\ \A i \in 2..n : e[i] = e[i - 1] \o seqs[i]
  BY DEF Joins
<1> DEFINE body(g) == [i \in 1..n |-> IF i = 1 THEN seqs[i] ELSE g[i - 1] \o seqs[i]]
           f == CHOOSE g : g = body(g)
           h == [i \in 1..n |-> e[i]]
           D == {i \in 1..n : f[i] # e[i]}
<1>1. FlattenSeq(seqs) = f[n]
  BY <1>0 DEF FlattenSeq
<1> HIDE DEF n
<1>2. h = body(h)
  <2>1. \A i \in 1..n : i # 1 => i \in 2..n /\ i - 1 \in 1..n
    BY <1>0
  <2> QED
    BY <1>0, <2>1
<1>3. f = body(f)
  <2> HIDE DEF body, h
  <2> QED
    BY <1>2
<1>4. \A i \in 1..n : f[i] = IF i = 1 THEN seqs[1] ELSE f[i - 1] \o seqs[i]
  <2> HIDE DEF f
  <2> QED
    BY <1>3
<1> HIDE DEF f
<1>5. D = {}
  <2> SUFFICES ASSUME D # {} PROVE FALSE
    OBVIOUS
  <2>1. PICK i \in D : \A j \in D : ~(j < i)
    <3>1. D \subseteq Nat /\ D # {}
      OBVIOUS
    <3> HIDE DEF D
    <3> QED
      BY <3>1, SmallestNumber
  <2>2. i \in 1..n /\ f[i] # e[i]
    OBVIOUS
  <2>3. i # 1
    BY <1>0, <1>4, <2>2
  <2>4. i - 1 \in 1..n /\ i \in 2..n /\ i - 1 < i
    BY <1>0, <2>2, <2>3
  <2>5. f[i - 1] = e[i - 1]
    BY <2>1, <2>4
  <2> QED
    BY <1>0, <1>4, <2>2, <2>3, <2>4, <2>5
<1>6. n \in 1..n
  BY <1>0
<1> QED
  BY <1>1, <1>5, <1>6 DEF n

\* A sum over a set takes one member after the other.
Unfolds(f, w, S) ==
    \A T \in SUBSET S : f[T] = IF T = {} THEN 0
       ELSE w[CHOOSE x \in T : TRUE] + f[T \ {CHOOSE x \in T : TRUE}]

\* F tells what the sum over each subset is.
SumsTo(F, w, S) ==
    F[{}] = 0 /\ \A T \in SUBSET S : \A x \in T : F[T] = w[x] + F[T \ {x}]

\* What a recursive sum over a set is, when it is known what the sum over each
\* of its subsets is.
LEMMA SumIs ==
    ASSUME NEW S, IsFiniteSet(S), NEW w, NEW f, Unfolds(f, w, S), NEW F, SumsTo(F, w, S)
    PROVE  f[S] = F[S]
<1> DEFINE D == {T \in SUBSET S : f[T] # F[T]}
<1>1. F[{}] = 0 /\ \A T \in SUBSET S : \A x \in T : F[T] = w[x] + F[T \ {x}]
  BY DEF SumsTo
<1>4. \A T \in SUBSET S : f[T] = IF T = {} THEN 0
         ELSE w[CHOOSE x \in T : TRUE] + f[T \ {CHOOSE x \in T : TRUE}]
  BY DEF Unfolds
<1>5. D = {}
  <2> SUFFICES ASSUME D # {} PROVE FALSE
    OBVIOUS
  <2>1. PICK T \in D : \A U \in D : <<U, T>> \notin StrictSubsetOrdering(S)
    <3>1. D \subseteq FiniteSubsetsOf(S) /\ D # {}
      BY FS_Subset DEF FiniteSubsetsOf
    <3> HIDE DEF D
    <3> QED
      BY <3>1, FS_StrictSubsetOrderingWellFounded, WFMin
  <2>2. T \in SUBSET S /\ f[T] # F[T]
    OBVIOUS
  <2>3. T # {}
    BY <1>1, <1>4, <2>2
  <2> DEFINE x == CHOOSE x \in T : TRUE
  <2>4. x \in T
    BY <2>3
  <2>5. T \ {x} \in SUBSET S /\ T \ {x} # T /\ T \ {x} \subseteq T
    BY <2>2, <2>4
  <2>6. f[T \ {x}] = F[T \ {x}]
    <3>1. <<T \ {x}, T>> \in StrictSubsetOrdering(S)
      BY <2>2, <2>5 DEF StrictSubsetOrdering
    <3> HIDE DEF x
    <3> QED
      BY <2>1, <2>5, <3>1
  <2>7. f[T] = w[x] + f[T \ {x}]
    BY <1>4, <2>2, <2>3
  <2> HIDE DEF x
  <2> QED
    BY <1>1, <2>2, <2>4, <2>6, <2>7
<1> QED
  BY <1>5

\* The tickets of a set of sales.
LEMMA TicketsSum ==
    ASSUME NEW S, IsFiniteSet(S), NEW F, SumsTo(F, [s \in S |-> Len(s.picks)], S)
    PROVE  MapThenSumSet(LAMBDA s : Len(s.picks), S) = F[S]
<1> DEFINE w == [s \in S |-> Len(s.picks)]
           pick(T) == CHOOSE s \in T : TRUE
           body(g) == [T \in SUBSET S |-> IF T = {} THEN 0
                          ELSE Len(pick(T).picks) + g[T \ {pick(T)}]]
           f == CHOOSE g : g = body(g)
           h == [T \in SUBSET S |-> F[T]]
<1>1. MapThenSumSet(LAMBDA s : Len(s.picks), S) = f[S]
  BY DEF MapThenSumSet, MapThenFoldSet
<1>2. \A T \in SUBSET S : T # {} => pick(T) \in T /\ w[pick(T)] = Len(pick(T).picks)
  OBVIOUS
<1>3. F[{}] = 0 /\ \A T \in SUBSET S : \A s \in T : F[T] = w[s] + F[T \ {s}]
  BY DEF SumsTo
<1>4. h = body(h)
  <2>1. \A T \in SUBSET S : T # {} => T \ {pick(T)} \in SUBSET S
    OBVIOUS
  <2> HIDE DEF w, pick
  <2> QED
    BY <1>2, <1>3, <2>1
<1>5. f = body(f)
  <2> HIDE DEF body, h
  <2> QED
    BY <1>4
<1>6. \A T \in SUBSET S : f[T] = IF T = {} THEN 0 ELSE w[pick(T)] + f[T \ {pick(T)}]
  <2> HIDE DEF f, w, pick
  <2> QED
    BY <1>2, <1>5
<1> HIDE DEF f
<1>7. Unfolds(f, w, S)
  <2> HIDE DEF w
  <2> QED
    BY <1>6 DEF Unfolds
<1> HIDE DEF w
<1>8. SumsTo(F, w, S)
  BY DEF w
<1> QED
  BY <1>1, <1>7, <1>8, SumIs

\* The fees of a set of sales.
LEMMA FeesSum ==
    ASSUME NEW S, IsFiniteSet(S), NEW F, SumsTo(F, [s \in S |-> s.fee], S)
    PROVE  MapThenSumSet(LAMBDA s : s.fee, S) = F[S]
<1> DEFINE w == [s \in S |-> s.fee]
           pick(T) == CHOOSE s \in T : TRUE
           body(g) == [T \in SUBSET S |-> IF T = {} THEN 0
                          ELSE pick(T).fee + g[T \ {pick(T)}]]
           f == CHOOSE g : g = body(g)
           h == [T \in SUBSET S |-> F[T]]
<1>1. MapThenSumSet(LAMBDA s : s.fee, S) = f[S]
  BY DEF MapThenSumSet, MapThenFoldSet
<1>2. \A T \in SUBSET S : T # {} => pick(T) \in T /\ w[pick(T)] = pick(T).fee
  OBVIOUS
<1>3. F[{}] = 0 /\ \A T \in SUBSET S : \A s \in T : F[T] = w[s] + F[T \ {s}]
  BY DEF SumsTo
<1>4. h = body(h)
  <2>1. \A T \in SUBSET S : T # {} => T \ {pick(T)} \in SUBSET S
    OBVIOUS
  <2> HIDE DEF w, pick
  <2> QED
    BY <1>2, <1>3, <2>1
<1>5. f = body(f)
  <2> HIDE DEF body, h
  <2> QED
    BY <1>4
<1>6. \A T \in SUBSET S : f[T] = IF T = {} THEN 0 ELSE w[pick(T)] + f[T \ {pick(T)}]
  <2> HIDE DEF f, w, pick
  <2> QED
    BY <1>2, <1>5
<1> HIDE DEF f
<1>7. Unfolds(f, w, S)
  <2> HIDE DEF w
  <2> QED
    BY <1>6 DEF Unfolds
<1> HIDE DEF w
<1>8. SumsTo(F, w, S)
  BY DEF w
<1> QED
  BY <1>1, <1>7, <1>8, SumIs

-----------------------------------------------------------------------------
\* The transactions an attempt takes, what is known of it, and of a sale.
Total(a) == Chunks(Len(attempts[a].basket))
AttemptOK(a) ==
    /\ Len(attempts[a].basket) \in 1..MaxStaged
    /\ attempts[a].sent <= Total(a)
    /\ attempts[a].outcome = "success" => attempts[a].sent = Total(a)
    /\ attempts[a].outcome = "sending" \/ attempts[a].limbo => attempts[a].sent < Total(a)
    /\ attempts[a].limbo => attempts[a].outcome = "failed"
    /\ \E n \in 0..Total(a) :
         /\ Landed(a) = 1..n
         /\ attempts[a].outcome # "failed" \/ attempts[a].limbo => n = attempts[a].sent
SaleOK(s) ==
    /\ s.sig[1] \in DOMAIN attempts
    /\ s.picks = Chunk(attempts[s.sig[1]].basket, s.sig[2])
    /\ s.fee = s.rates[1] + Len(s.picks) * s.rates[2]

\* No signature lands twice.
SignedOnce == \A s, r \in sold : s.sig = r.sig => s = r

\* A current account has a configuration.
ConfigOK == state.layout = "current" => state.config \in Configs

PurchaseInv ==
    /\ TypeOK /\ IInv /\ ConfigOK
    /\ Len(basket) <= MaxStaged /\ Len(attempts) <= MaxAttempts
    /\ \A a \in DOMAIN attempts : AttemptOK(a)
    /\ \A s \in sold : SaleOK(s)
    /\ SignedOnce

\* The parts of an attempt and of a sale.
LEMMA Parts ==
    ASSUME TypeOK, StorefrontConstants
    PROVE  /\ \A a \in DOMAIN attempts :
                /\ a \in Nat /\ attempts[a] \in AttemptSet
                /\ attempts[a].basket \in Seq(Picks) /\ attempts[a].sent \in Nat
           /\ \A s \in sold : /\ s.sig = <<s.sig[1], s.sig[2]>>
                              /\ s.sig[1] \in 1..MaxAttempts /\ s.sig[2] \in 1..MaxStaged
                              /\ s.rates[1] \in Nat /\ s.rates[2] \in Nat
                              /\ s.fee \in Nat /\ s.picks \in Seq(Picks)
<1>1. ASSUME NEW a \in DOMAIN attempts
      PROVE  /\ a \in Nat /\ attempts[a] \in AttemptSet
             /\ attempts[a].basket \in Seq(Picks) /\ attempts[a].sent \in Nat
  <2>1. a \in Nat /\ attempts[a] \in AttemptSet
    BY <1>1 DEF TypeOK
  <2> QED
    BY <2>1 DEF AttemptSet
<1>2. ASSUME NEW s \in sold
      PROVE  /\ s.sig = <<s.sig[1], s.sig[2]>>
             /\ s.sig[1] \in 1..MaxAttempts /\ s.sig[2] \in 1..MaxStaged
             /\ s.rates[1] \in Nat /\ s.rates[2] \in Nat
             /\ s.fee \in Nat /\ s.picks \in Seq(Picks)
  <2>1. /\ s.sig \in Signatures /\ s.rates \in Nat \X Nat
        /\ s.fee \in Nat /\ s.picks \in Seq(Picks)
    BY <1>2 DEF TypeOK, ProgramTypeOK, SaleSet
  <2>2. s.sig \in (1..MaxAttempts) \X (1..MaxStaged)
    BY <2>1 DEF StorefrontConstants
  <2> QED
    BY <2>1, <2>2
<1> QED
  BY <1>1, <1>2

\* The sale of each transaction that has landed.
LEMMA LandedSale ==
    ASSUME PurchaseInv, StorefrontConstants, NEW a \in DOMAIN attempts, NEW k \in Landed(a)
    PROVE  \E s \in SalesOf(a) : s.sig = <<a, k>>
<1>1. PICK s \in SalesOf(a) : s.sig[2] = k
  BY DEF Landed
<1>2. s \in sold /\ s.sig[1] = a
  BY DEF SalesOf
<1> QED
  BY <1>1, <1>2, Parts DEF PurchaseInv

\* The first n transactions have bought the first tickets of the basket.
LEMMA BoughtPrefix ==
    ASSUME StorefrontConstants, NEW b \in Seq(Picks), b # << >>,
           NEW n \in 0..Chunks(Len(b))
    PROVE  IsPrefix(FlattenSeq([k \in 1..n |-> Chunk(b, k)]), b)
<1> DEFINE seqs == [k \in 1..n |-> Chunk(b, k)]
           e == [k \in 1..n |-> Upto(b, k)]
           t == IF n * PerTx < Len(b) THEN n * PerTx ELSE Len(b)
<1>0. Len(b) \in Nat \ {0} /\ n \in Nat /\ PerTx \in Nat \ {0} /\ Chunks(Len(b)) \in Nat
  <2>1. Len(b) \in Nat \ {0}
    OBVIOUS
  <2>2. Chunks(Len(b)) \in 1..Len(b)
    BY <2>1, ChunksCover
  <2> QED
    BY <2>1, <2>2 DEF StorefrontConstants
<1>1. Len(seqs) = n
  BY <1>0
<1>2. CASE n = 0
  <2>1. seqs = << >> /\ FlattenSeq(seqs) = seqs
    BY <1>1, <1>2 DEF FlattenSeq
  <2>2. SubSeq(<< >>, 1, 0) = << >> /\ SubSeq(b, 1, 0) = << >>
    BY SubSeqEmpty
  <2>3. IsPrefix(<< >>, b)
    <3>1. Len(<< >>) = 0 /\ 0 <= Len(b)
      BY <1>0
    <3> QED
      BY <2>2, <3>1 DEF IsPrefix
  <2>4. FlattenSeq([k \in 1..n |-> Chunk(b, k)]) = << >>
    BY <2>1
  <2> QED
    BY <2>3, <2>4
<1>3. CASE n # 0
  <2>1. e[1] = seqs[1]
    <3>1. 1 \in 1..n /\ (1 - 1) * PerTx + 1 = 1
      BY <1>0, <1>3
    <3> QED
      BY <3>1 DEF Upto, Chunk
  <2>2. ASSUME NEW i \in 2..n
        PROVE  e[i] = e[i - 1] \o seqs[i]
    <3>1. i \in 2..Chunks(Len(b)) /\ i \in 1..n /\ i - 1 \in 1..n
      BY <1>0
    <3> QED
      BY <3>1, ChunksJoin
  <2>3. FlattenSeq(seqs) = e[n]
    <3>1. n \in Nat \ {0} /\ \A i \in 2..n : e[i] = e[i - 1] \o seqs[i]
      BY <1>0, <1>3, <2>2
    <3> HIDE DEF seqs, e
    <3>2. Joins(e, seqs)
      BY <1>1, <2>1, <3>1 DEF Joins
    <3> QED
      BY <1>1, <3>2, FlattenIs
  <2>4. e[n] = SubSeq(b, 1, t)
    BY <1>0, <1>3 DEF Upto
  <2>5. t \in 0..Len(b)
    BY <1>0, Multiples
  <2> HIDE DEF t
  <2>6. SubSeq(b, 1, t) \in Seq(Picks) /\ Len(SubSeq(b, 1, t)) = t
    BY <1>0, <2>5, SubSeqProperties
  <2>7. SubSeq(SubSeq(b, 1, t), 1, t) = SubSeq(b, 1, t)
    BY <2>6, SubSeqFull
  <2>8. IsPrefix(SubSeq(b, 1, t), b)
    BY <1>0, <2>5, <2>6, <2>7 DEF IsPrefix
  <2> QED
    BY <2>3, <2>4, <2>8
<1> QED
  BY <1>2, <1>3

\* The purchases are filled in order.
LEMMA PurchasesFill ==
    ASSUME StorefrontConstants, PurchaseInv
    PROVE  FillsInOrder
<1> SUFFICES ASSUME NEW a \in DOMAIN attempts
             PROVE  LET n == Cardinality(Landed(a))
                    IN  /\ Landed(a) = 1..n
                        /\ IsPrefix(FlattenSeq([k \in 1..n |-> Bought(a, k)]),
                                    attempts[a].basket)
  BY DEF FillsInOrder
<1> DEFINE b == attempts[a].basket
<1>1. b \in Seq(Picks) /\ AttemptOK(a)
  BY Parts DEF PurchaseInv
<1>2. b # << >> /\ Len(b) \in Nat \ {0}
  BY <1>1 DEF AttemptOK
<1>3. PICK n \in 0..Chunks(Len(b)) : Landed(a) = 1..n
  BY <1>1 DEF AttemptOK, Total
<1>4. n \in Nat
  BY <1>2, ChunksCover
<1>5. Cardinality(Landed(a)) = n
  BY <1>3, <1>4, FS_Interval
<1>6. ASSUME NEW k \in 1..n
      PROVE  Bought(a, k) = Chunk(b, k)
  <2>1. \E s \in sold : s.sig = <<a, k>>
    BY <1>3, LandedSale DEF SalesOf
  <2> DEFINE r == CHOOSE s \in sold : s.sig = <<a, k>>
  <2>2. r \in sold /\ r.sig = <<a, k>>
    BY <2>1
  <2>3. SaleOK(r)
    BY <2>2 DEF PurchaseInv
  <2>4. Bought(a, k) = r.picks
    BY DEF Bought
  <2> HIDE DEF r
  <2> QED
    BY <2>2, <2>3, <2>4 DEF SaleOK
<1>7. [k \in 1..n |-> Bought(a, k)] = [k \in 1..n |-> Chunk(b, k)]
  BY <1>6
<1>8. IsPrefix(FlattenSeq([k \in 1..n |-> Chunk(b, k)]), b)
  <2> HIDE DEF b
  <2> QED
    BY <1>1, <1>2, BoughtPrefix
<1> QED
  BY <1>3, <1>5, <1>7, <1>8

\* Products distribute over sums.
LEMMA Distributes ==
    ASSUME NEW x \in Int, NEW y \in Int, NEW z \in Int
    PROVE  x * (y + z) = x * y + x * z /\ x * y \in Int
OBVIOUS

\* A successful attempt has one sale for each of its transactions.
LEMMA SuccessSales ==
    ASSUME StorefrontConstants, PurchaseInv, NEW a \in DOMAIN attempts,
           attempts[a].outcome = "success"
    PROVE  /\ IsFiniteSet(SalesOf(a)) /\ Cardinality(SalesOf(a)) = Total(a)
           /\ \A s \in SalesOf(a) : s.sig[2] \in 1..Total(a)
           /\ \A s, r \in SalesOf(a) : s.sig[2] = r.sig[2] => s = r
           /\ \E s \in SalesOf(a) : s.sig[2] = Total(a)
<1> DEFINE S == SalesOf(a)
           m == Total(a)
           g == [k \in 1..m |-> CHOOSE s \in S : s.sig = <<a, k>>]
<1>1. m \in Nat \ {0}
  <2>1. Len(attempts[a].basket) \in Nat \ {0}
    BY Parts DEF PurchaseInv, AttemptOK
  <2>2. Chunks(Len(attempts[a].basket)) \in 1..Len(attempts[a].basket)
    BY <2>1, ChunksCover
  <2> QED
    BY <2>1, <2>2 DEF Total
<1>2. Landed(a) = 1..m
  BY DEF PurchaseInv, AttemptOK
<1>3. ASSUME NEW s \in S
      PROVE  s \in sold /\ s.sig = <<a, s.sig[2]>> /\ s.sig[2] \in 1..m
  <2>1. s \in sold /\ s.sig[1] = a /\ s.sig[2] \in Landed(a)
    BY DEF SalesOf, Landed
  <2> QED
    BY <1>2, <2>1, Parts DEF PurchaseInv
<1>4. \A s, r \in S : s.sig[2] = r.sig[2] => s = r
  BY <1>3 DEF PurchaseInv, SignedOnce
<1>5. ASSUME NEW k \in 1..m
      PROVE  \E s \in S : s.sig = <<a, k>>
  BY <1>2, LandedSale
<1> HIDE DEF S, m
<1>6. \A k \in 1..m : g[k] \in S /\ g[k].sig = <<a, k>> /\ g[k].sig[2] = k
  <2>1. \A k \in 1..m : g[k] \in S /\ g[k].sig = <<a, k>>
    BY <1>5
  <2> HIDE DEF g
  <2> QED
    BY <2>1
<1>7. g \in [1..m -> S]
  <2>1. DOMAIN g = 1..m /\ g = [k \in 1..m |-> g[k]]
    OBVIOUS
  <2> HIDE DEF g
  <2> QED
    BY <1>6, <2>1
<1> HIDE DEF g
<1>8. g \in Bijection(1..m, S)
  <2>1. \A i, j \in 1..m : g[i] = g[j] => i = j
    BY <1>6
  <2>2. \A s \in S : \E k \in 1..m : g[k] = s
    BY <1>3, <1>4, <1>6
  <2> QED
    BY <1>7, <2>1, <2>2 DEF Bijection, Injection, Surjection, IsInjective
<1>9. ExistsBijection(1..m, S)
  BY <1>8 DEF ExistsBijection
<1>10. IsFiniteSet(1..m) /\ Cardinality(1..m) = m
  <2>1. 1 \in Int /\ m \in Int /\ ~(1 > m) /\ (m - 1) + 1 = m
    BY <1>1
  <2> QED
    BY <2>1, FS_Interval
<1>11. IsFiniteSet(S) /\ Cardinality(S) = m
  BY <1>9, <1>10, FS_Bijection
<1>12. \E s \in S : s.sig[2] = m
  <2>1. m \in 1..m
    BY <1>1
  <2> QED
    BY <1>6, <2>1
<1> QED
  BY <1>3, <1>4, <1>11, <1>12 DEF S, m

\* What a successful purchase has bought and was charged: every transaction
\* but the last is full, the last one takes the rest, and each pays its own
\* base fee.
LEMMA PurchasesExact ==
    ASSUME StorefrontConstants, PurchaseInv
    PROVE  SuccessIsExact
<1> SUFFICES ASSUME NEW a \in DOMAIN attempts, attempts[a].outcome = "success"
             PROVE  LET n == Len(attempts[a].basket)
                    IN  /\ n = MapThenSumSet(LAMBDA s : Len(s.picks), SalesOf(a))
                        /\ (\A s \in SalesOf(a) : s.rates = <<FeeBase, FeePerTicket>>)
                             => MapThenSumSet(LAMBDA s : s.fee, SalesOf(a)) = calculateRelayFee(n)
  BY DEF SuccessIsExact
<1> DEFINE S == SalesOf(a)
           b == attempts[a].basket
           n == Len(b)
           m == Total(a)
           rest == m * PerTx - n
           Tickets(T) == Cardinality(T) * PerTx - (IF \E s \in T : s.sig[2] = m THEN rest ELSE 0)
           F == [T \in SUBSET S |-> Tickets(T)]
           w == [s \in S |-> Len(s.picks)]
<1>1. b \in Seq(Picks) /\ n \in Nat \ {0} /\ b # << >>
  BY Parts DEF PurchaseInv, AttemptOK
<1>2. m \in Nat \ {0} /\ m = Chunks(n) /\ PerTx \in Nat \ {0}
  <2>1. Chunks(n) \in 1..n
    BY <1>1, ChunksCover
  <2> QED
    BY <1>1, <2>1 DEF Total, StorefrontConstants
<1>3. m * PerTx \in Nat /\ rest \in Int /\ (m - 1) * PerTx = m * PerTx - PerTx
  <2>1. m - 1 \in Nat /\ (m - 1) + 1 = m /\ m \in Nat
    BY <1>2
  <2>2. m * PerTx \in Nat /\ (m - 1) * PerTx \in Nat /\ ((m - 1) + 1) * PerTx = (m - 1) * PerTx + PerTx
    BY <1>2, <2>1, Multiples
  <2> QED
    BY <1>1, <1>2, <2>1, <2>2
<1>4. /\ IsFiniteSet(S) /\ Cardinality(S) = m
      /\ \A s \in S : s.sig[2] \in 1..m
      /\ \A s, r \in S : s.sig[2] = r.sig[2] => s = r
      /\ \E s \in S : s.sig[2] = m
  BY SuccessSales
<1>5. ASSUME NEW s \in S
      PROVE  w[s] = PerTx - (IF s.sig[2] = m THEN rest ELSE 0)
  <2> DEFINE k == s.sig[2]
  <2>1. s \in sold /\ s.sig[1] = a /\ k \in 1..m
    BY <1>4 DEF SalesOf
  <2>2. s.picks = Chunk(b, k)
    BY <2>1 DEF PurchaseInv, SaleOK
  <2>3. Len(Chunk(b, k)) = IF k < m THEN PerTx ELSE n - (k - 1) * PerTx
    <3> HIDE DEF b, k, m, n
    <3> QED
      BY <1>1, <1>2, <2>1, ChunkTickets DEF n
  <2>4. w[s] = Len(Chunk(b, k))
    BY <2>2
  <2>5. k = m => n - (k - 1) * PerTx = PerTx - rest
    <3>1. n - (m - 1) * PerTx = PerTx - rest
      <4> DEFINE p == m * PerTx
                 q == (m - 1) * PerTx
      <4>1. p \in Nat /\ q = p - PerTx /\ n \in Nat /\ PerTx \in Nat
        BY <1>1, <1>2, <1>3
      <4> HIDE DEF p, q, n
      <4>2. n - q = PerTx - (p - n)
        BY <4>1
      <4> QED
        BY <4>2 DEF p, q
    <3> HIDE DEF k, m, n, rest
    <3> QED
      BY <3>1
  <2>6. k < m \/ k = m
    BY <1>2, <2>1
  <2>7. ~(k < m /\ k = m)
    BY <1>2, <2>1
  <2> HIDE DEF b, n, m, rest, w
  <2> QED
    BY <1>2, <2>3, <2>4, <2>5, <2>6, <2>7
<1>6. ASSUME NEW T \in SUBSET S
      PROVE  IsFiniteSet(T) /\ Cardinality(T) \in Nat /\ Cardinality(T) * PerTx \in Nat
  <2>1. IsFiniteSet(T)
    BY <1>4, FS_Subset
  <2>2. Cardinality(T) \in Nat
    BY <2>1, FS_CardinalityType
  <2> QED
    BY <1>2, <2>1, <2>2, Multiples
<1>7. ASSUME NEW T \in SUBSET S, NEW x \in T
      PROVE  /\ Tickets(T) = w[x] + Tickets(T \ {x})
             /\ Cardinality(T) = Cardinality(T \ {x}) + 1
  <2> DEFINE c == Cardinality(T \ {x})
  <2>1. T \ {x} \in SUBSET S /\ x \in S
    OBVIOUS
  <2>2. Cardinality(T) = c + 1 /\ c \in Nat /\ c * PerTx \in Nat
    <3>1. IsFiniteSet(T) /\ Cardinality(T) \in Nat
      BY <1>6
    <3>2. Cardinality(T \ {x}) = Cardinality(T) - 1
      BY <3>1, FS_RemoveElement
    <3>3. c \in Nat /\ c * PerTx \in Nat
      BY <1>6, <2>1
    <3> QED
      BY <3>1, <3>2, <3>3
  <2>3. Cardinality(T) * PerTx = c * PerTx + PerTx
    <3> HIDE DEF c
    <3> QED
      BY <1>2, <2>2, Multiples
  <2>4. w[x] = PerTx - (IF x.sig[2] = m THEN rest ELSE 0)
    BY <1>5, <2>1
  <2>5. (\E s \in T : s.sig[2] = m) <=> x.sig[2] = m \/ \E s \in T \ {x} : s.sig[2] = m
    OBVIOUS
  <2>6. x.sig[2] = m => ~\E s \in T \ {x} : s.sig[2] = m
    BY <1>4, <2>1
  <2> HIDE DEF w, rest, m, n, b, c
  <2>7. Tickets(T) = w[x] + Tickets(T \ {x})
    BY <1>2, <1>3, <2>2, <2>3, <2>4, <2>5, <2>6 DEF c
  <2> QED
    BY <2>2, <2>7 DEF c
<1>8. Tickets({}) = 0 /\ {} \in SUBSET S
  <2>1. Cardinality({}) = 0 /\ 0 * PerTx = 0
    BY <1>2, FS_EmptySet
  <2> QED
    BY <2>1
<1>9. Tickets(S) = n
  <2> HIDE DEF S, m
  <2> QED
    BY <1>1, <1>3, <1>4
<1>10. MapThenSumSet(LAMBDA s : Len(s.picks), S) = n
  <2>1. SumsTo(F, w, S)
    <3>1. \A T \in SUBSET S : \A x \in T : T \ {x} \in SUBSET S
      OBVIOUS
    <3> HIDE DEF w, Tickets
    <3> QED
      BY <1>7, <1>8, <3>1 DEF SumsTo
  <2>2. F[S] = n
    BY <1>9
  <2> HIDE DEF F
  <2>3. MapThenSumSet(LAMBDA s : Len(s.picks), S) = F[S]
    BY <1>4, <2>1, TicketsSum DEF w
  <2> QED
    BY <2>2, <2>3
<1>11. ASSUME \A s \in S : s.rates = <<FeeBase, FeePerTicket>>
       PROVE  MapThenSumSet(LAMBDA s : s.fee, S) = calculateRelayFee(n)
  <2> DEFINE Fees(T) == Cardinality(T) * FeeBase + FeePerTicket * Tickets(T)
             G == [T \in SUBSET S |-> Fees(T)]
             v == [s \in S |-> s.fee]
  <2>1. FeeBase \in Nat /\ FeePerTicket \in Nat
    BY DEF StorefrontConstants
  <2>2. \A s \in S : w[s] \in Int
    <3> HIDE DEF w, rest, m
    <3> QED
      BY <1>2, <1>3, <1>5
  <2>3. ASSUME NEW s \in S
        PROVE  v[s] = FeeBase + FeePerTicket * w[s]
    <3>1. s.rates[1] = FeeBase /\ s.rates[2] = FeePerTicket
      BY <1>11
    <3>2. s.fee = s.rates[1] + Len(s.picks) * s.rates[2]
      BY DEF SalesOf, PurchaseInv, SaleOK
    <3>3. Len(s.picks) = w[s] /\ w[s] \in Int
      BY <2>2
    <3>4. Len(s.picks) * FeePerTicket = FeePerTicket * w[s]
      <4> HIDE DEF w
      <4> QED
        BY <2>1, <3>3
    <3> HIDE DEF w
    <3> QED
      BY <3>1, <3>2, <3>4
  <2>4. \A T \in SUBSET S : Tickets(T) \in Int
    <3> HIDE DEF rest, m
    <3> QED
      BY <1>3, <1>6
  <2>5. ASSUME NEW T \in SUBSET S, NEW x \in T
        PROVE  Fees(T) = v[x] + Fees(T \ {x})
    <3> DEFINE c == Cardinality(T \ {x})
               t == Tickets(T \ {x})
    <3>1. Tickets(T) = w[x] + t /\ Cardinality(T) = c + 1 /\ x \in S /\ T \ {x} \in SUBSET S
      BY <1>7
    <3>2. c \in Nat /\ t \in Int /\ w[x] \in Int
      BY <1>6, <2>2, <2>4, <3>1
    <3>3. v[x] = FeeBase + FeePerTicket * w[x]
      BY <2>3, <3>1
    <3> HIDE DEF c, t, v, w, Tickets
    <3>4. Cardinality(T) * FeeBase = c * FeeBase + FeeBase /\ c * FeeBase \in Nat
      BY <2>1, <3>1, <3>2, Multiples
    <3>5. /\ FeePerTicket * Tickets(T) = FeePerTicket * w[x] + FeePerTicket * t
          /\ FeePerTicket * w[x] \in Int /\ FeePerTicket * t \in Int
      BY <2>1, <3>1, <3>2, Distributes
    <3> QED
      BY <2>1, <3>3, <3>4, <3>5 DEF c, t
  <2>6. Fees({}) = 0
    <3>1. Cardinality({}) = 0 /\ 0 * FeeBase = 0 /\ FeePerTicket * 0 = 0
      BY <2>1, FS_EmptySet
    <3> HIDE DEF Tickets
    <3> QED
      BY <1>8, <3>1
  <2>7. SumsTo(G, v, S)
    <3>1. \A T \in SUBSET S : \A x \in T : T \ {x} \in SUBSET S
      OBVIOUS
    <3> HIDE DEF v, Fees
    <3> QED
      BY <1>8, <2>5, <2>6, <3>1 DEF SumsTo
  <2>8. G[S] = calculateRelayFee(n)
    <3>1. G[S] = Cardinality(S) * FeeBase + FeePerTicket * Tickets(S)
      OBVIOUS
    <3> HIDE DEF G, Tickets, S, m, n
    <3> QED
      BY <1>1, <1>2, <1>4, <1>9, <2>1, <3>1 DEF calculateRelayFee
  <2> HIDE DEF G
  <2>9. MapThenSumSet(LAMBDA s : s.fee, S) = G[S]
    BY <1>4, <2>7, FeesSum DEF v
  <2> QED
    BY <2>8, <2>9
<1> QED
  BY <1>10, <1>11

-----------------------------------------------------------------------------
\* Every instruction leaves a current account a configuration.
LEMMA ConfigStep ==
    ASSUME state \in StateSet, ConfigOK, [ProgramNext]_programVars
    PROVE  ConfigOK'
<1>1. ASSUME NEW k \in Roles, NEW c \in Configs, NEW t \in Roles,
             \/ \E b \in Bounds : initialize(k, c, t, b, 1)
             \/ migrate_state(k, c, t)
             \/ set_relay_config(k, c)
      PROVE  ConfigOK'
  <2>1. state'.config = c
    <3>1. CASE \E b \in Bounds : initialize(k, c, t, b, 1)
      BY <3>1 DEF initialize, Account
    <3>2. CASE migrate_state(k, c, t) \/ set_relay_config(k, c)
      BY <3>2 DEF migrate_state, set_relay_config, StateSet
    <3> QED
      BY <1>1, <3>1, <3>2
  <2> QED
    BY <2>1 DEF ConfigOK
<1>2. ASSUME NEW k \in Roles,
             \/ \E new \in Roles : set_admin(k, new) \/ set_treasury_authority(k, new)
             \/ pause_protocol(k)
             \/ \E next \in 1..MaxEpoch : resume_protocol(k, next)
             \/ \E b \in Bounds : update_epoch(k, b)
      PROVE  ConfigOK'
  <2>1. state'.config = state.config /\ state'.layout = state.layout
    BY <1>2 DEF set_admin, set_treasury_authority, pause_protocol, resume_protocol,
                update_epoch, StateSet
  <2> QED
    BY <2>1 DEF ConfigOK
<1>3. CASE state' = state
  BY <1>3 DEF ConfigOK
<1>4. CASE Administer
  BY <1>1, <1>2, <1>3, <1>4 DEF Administer, withdraw_vault_funds
<1>5. CASE Operate
  BY <1>2, <1>3, <1>5 DEF Operate, claim_winnings, TopUp
<1>6. CASE Purchase
  BY <1>3, <1>6 DEF Purchase, buy_ticket
<1> QED
  BY <1>3, <1>4, <1>5, <1>6 DEF ProgramNext, programVars

\* Administration and operation sell nothing.
LEMMA NothingSold ==
    ASSUME Administer \/ Operate
    PROVE  sold' = sold
BY DEF Administer, initialize, migrate_state, set_admin, set_treasury_authority,
       set_relay_config, withdraw_vault_funds, Operate, pause_protocol,
       resume_protocol, update_epoch, claim_winnings, TopUp

\* A transaction of an attempt is a purchase of the program's, with a
\* signature of its own.
LEMMA LandsIsPurchase ==
    ASSUME ProgramConstants, StorefrontConstants, PurchaseInv,
           NEW a \in DOMAIN attempts, NEW k \in 1..Total(a), Lands(a, k)
    PROVE  Purchase
<1> DEFINE b == attempts[a].basket
<1>1. b \in Seq(Picks) /\ Len(b) \in 1..MaxStaged /\ a \in 1..Len(attempts)
      /\ Len(attempts) <= MaxAttempts
  BY Parts DEF PurchaseInv, AttemptOK, TypeOK
<1>2. Total(a) \in 1..Len(b) /\ b # << >> /\ k \in 1..Chunks(Len(b))
  <2>1. Len(b) \in Nat \ {0}
    BY <1>1
  <2> HIDE DEF b
  <2>2. Chunks(Len(b)) \in 1..Len(b)
    BY <2>1, ChunksCover
  <2> QED
    BY <1>1, <2>1, <2>2 DEF Total, b
<1>3. <<a, k>> \in Signatures
  <2>1. a \in 1..MaxAttempts /\ k \in 1..MaxStaged
    BY <1>1, <1>2 DEF StorefrontConstants
  <2> QED
    BY <2>1 DEF StorefrontConstants
<1> DEFINE c == Chunk(b, k)
<1>4. c \in Seq(Picks)
  <2> HIDE DEF b
  <2> QED
    BY <1>1, <1>2, ChunkTickets
<1>5. buy_ticket(<<a, k>>, Buyer, c, attempts[a].recipient)
  BY DEF Lands
<1> HIDE DEF c
<1>6. c \in [1..Len(c) -> Picks] /\ Len(c) \in 1..HardMax
  BY <1>4, <1>5 DEF buy_ticket
<1>7. attempts[a].recipient \in Keys
  <2>1. state.layout = "current" /\ attempts[a].recipient = state.config.recipient
    BY <1>5 DEF buy_ticket, Decodes
  <2> QED
    BY <2>1 DEF PurchaseInv, ConfigOK, ProgramConstants
<1>8. Buyer \in Keys
  BY DEF StorefrontConstants
<1> QED
  BY <1>3, <1>5, <1>6, <1>7, <1>8 DEF Purchase

\* An attempt and its sales stay as they are.
LEMMA AttemptKeeps ==
    ASSUME NEW a, AttemptOK(a), attempts'[a] = attempts[a], SalesOf(a)' = SalesOf(a)
    PROVE  AttemptOK(a)'
BY DEF AttemptOK, Total, Landed

\* Nothing is sold and no basket changes.
LEMMA SalesKeep ==
    ASSUME PurchaseInv, sold' = sold,
           \A a \in DOMAIN attempts : /\ a \in DOMAIN attempts'
                                      /\ attempts'[a].basket = attempts[a].basket
    PROVE  (\A s \in sold : SaleOK(s))' /\ SignedOnce' /\ \A a : SalesOf(a)' = SalesOf(a)
<1>1. ASSUME NEW s \in sold
      PROVE  SaleOK(s)'
  BY DEF PurchaseInv, SaleOK
<1> QED
  BY <1>1 DEF PurchaseInv, SignedOnce, SalesOf

\* Before the first press of Buy.
LEMMA StartInv ==
    ASSUME ProgramConstants, StorefrontConstants, Init
    PROVE  PurchaseInv
<1>1. IInv
  BY ProgramInitInv DEF Init
<1>2. TypeOK
  <2>1. page \in PageSet
    BY DEF Init, NoPage, PageSet
  <2> QED
    BY <1>1, <2>1 DEF Init, TypeOK, IInv
<1>3. ConfigOK
  BY DEF Init, ProgramInit, ConfigOK, NoAccount, Account
<1>4. Len(basket) <= MaxStaged /\ Len(attempts) <= MaxAttempts
  BY DEF Init, StorefrontConstants
<1>5. DOMAIN attempts = {} /\ sold = {}
  BY DEF Init, ProgramInit
<1> QED
  BY <1>1, <1>2, <1>3, <1>4, <1>5 DEF PurchaseInv, SignedOnce

\* What the program's keys do leaves the purchases alone.
LEMMA ProgramAlone ==
    ASSUME ProgramConstants, StorefrontConstants, PurchaseInv,
           Administer \/ Operate, UNCHANGED browser, changes' \in Nat
    PROVE  PurchaseInv'
<1>1. IInv' /\ ConfigOK'
  BY ProgramStep, ConfigStep DEF ProgramNext, PurchaseInv, IInv, ProgramTypeOK
<1>2. sold' = sold /\ page' = page /\ basket' = basket /\ attempts' = attempts
  BY NothingSold DEF browser
<1>3. TypeOK'
  BY <1>1, <1>2 DEF PurchaseInv, IInv, TypeOK
<1>4. (\A s \in sold : SaleOK(s))' /\ SignedOnce' /\ \A a : SalesOf(a)' = SalesOf(a)
  BY <1>2, SalesKeep
<1>5. (\A a \in DOMAIN attempts : AttemptOK(a))'
  BY <1>2, <1>4, AttemptKeeps DEF PurchaseInv
<1>6. (Len(basket) <= MaxStaged /\ Len(attempts) <= MaxAttempts)'
  BY <1>2 DEF PurchaseInv
<1> QED
  BY <1>1, <1>3, <1>4, <1>5, <1>6 DEF PurchaseInv

\* The program as it was.
LEMMA ProgramStill ==
    ASSUME ProgramConstants, PurchaseInv, UNCHANGED programVars
    PROVE  IInv' /\ ConfigOK' /\ sold' = sold
BY ProgramStep, ConfigStep DEF PurchaseInv, IInv, ProgramTypeOK, programVars

\* A poll, and every edit of the basket.
LEMMA BrowsingStep ==
    ASSUME ProgramConstants, StorefrontConstants, PurchaseInv, UNCHANGED programVars,
           changes' \in Nat, attempts' = attempts, page' \in PageSet,
           basket' \in Seq(Picks \cup {Blank}), Len(basket') <= MaxStaged
    PROVE  PurchaseInv'
<1>1. IInv' /\ ConfigOK' /\ sold' = sold
  BY ProgramStill
<1>2. TypeOK'
  BY <1>1 DEF PurchaseInv, IInv, TypeOK
<1>3. (\A s \in sold : SaleOK(s))' /\ SignedOnce' /\ \A a : SalesOf(a)' = SalesOf(a)
  BY <1>1, SalesKeep
<1>4. (\A a \in DOMAIN attempts : AttemptOK(a))'
  BY <1>3, AttemptKeeps DEF PurchaseInv
<1>5. (Len(basket) <= MaxStaged /\ Len(attempts) <= MaxAttempts)'
  BY DEF PurchaseInv
<1> QED
  BY <1>1, <1>2, <1>3, <1>4, <1>5 DEF PurchaseInv

\* What an edit leaves staged.
LEMMA EditsType ==
    ASSUME NEW D, NEW s \in Seq(D)
    PROVE  /\ \A p \in D : Append(s, p) \in Seq(D)
           /\ s # << >> => Front(s) \in Seq(D)
           /\ \A i \in DOMAIN s : RemoveAt(s, i) \in Seq(D)
           /\ \A i \in DOMAIN s, p \in D : [s EXCEPT ![i] = p] \in Seq(D)
<1>1. \A p \in D : Append(s, p) \in Seq(D)
  OBVIOUS
<1>2. \A i, j \in Int : 1 <= i /\ j <= Len(s) => SubSeq(s, i, j) \in Seq(D)
  <2> SUFFICES ASSUME NEW i \in Int, NEW j \in Int, 1 <= i, j <= Len(s)
               PROVE  SubSeq(s, i, j) \in Seq(D)
    OBVIOUS
  <2>1. \A k \in i..j : s[k] \in D
    OBVIOUS
  <2>2. CASE i <= j + 1
    BY <2>1, <2>2, SubSeqProperties
  <2>3. CASE j + 1 < i
    BY <2>3, SubSeqEmpty
  <2> QED
    BY <2>2, <2>3
<1>3. s # << >> => Front(s) \in Seq(D)
  BY <1>2 DEF Front
<1>4. ASSUME NEW i \in DOMAIN s
      PROVE  RemoveAt(s, i) \in Seq(D)
  <2>1. SubSeq(s, 1, i - 1) \in Seq(D) /\ SubSeq(s, i + 1, Len(s)) \in Seq(D)
    BY <1>2
  <2> QED
    BY <2>1, ConcatProperties DEF RemoveAt
<1>5. \A i \in DOMAIN s, p \in D : [s EXCEPT ![i] = p] \in Seq(D)
  BY ExceptSeq
<1> QED
  BY <1>1, <1>3, <1>4, <1>5

\* Polling and editing.
LEMMA BrowsesStep ==
    ASSUME ProgramConstants, StorefrontConstants, PurchaseInv, UNCHANGED programVars,
           changes' \in Nat,
           Fetch \/ Grow \/ Shrink \/ removeTicket \/ shuffleTicket \/ clearTicketBalls
    PROVE  PurchaseInv'
<1>1. /\ page \in PageSet /\ basket \in Seq(Picks \cup {Blank})
      /\ Len(basket) <= MaxStaged /\ state \in StateSet
  BY DEF PurchaseInv, TypeOK, IInv, ProgramTypeOK
<1>2. CASE Fetch
  <2>1. page' \in PageSet
    BY <1>1, <1>2, StateFields DEF Fetch, PageSet, BoundsSet
  <2> QED
    BY <1>1, <1>2, <2>1, BrowsingStep DEF Fetch
<1>3. ASSUME NEW to \in Seq(Picks \cup {Blank}), Edit(to)
      PROVE  PurchaseInv'
  BY <1>1, <1>3, BrowsingStep DEF Edit
<1>4. OnGrid \subseteq Picks \cup {Blank} /\ Blank \in Picks \cup {Blank}
  BY DEF OnGrid
<1>5. CASE Grow \/ Shrink \/ removeTicket \/ shuffleTicket \/ clearTicketBalls
  BY <1>1, <1>3, <1>4, <1>5, EditsType
     DEF Grow, Shrink, removeTicket, shuffleTicket, clearTicketBalls
<1> QED
  BY <1>2, <1>5

\* A press of Buy starts an attempt of which nothing has landed.
LEMMA PressStep ==
    ASSUME ProgramConstants, StorefrontConstants, PurchaseInv, UNCHANGED programVars,
           changes' \in Nat, handleBuy
    PROVE  PurchaseInv'
<1> DEFINE new == [basket |-> basket, recipient |-> page.admin,
                   sent |-> 0, outcome |-> "sending", limbo |-> FALSE]
<1>1. /\ page \in PageSet /\ basket \in Seq(Picks \cup {Blank})
      /\ attempts \in Seq(AttemptSet) /\ Len(attempts) <= MaxAttempts
  BY DEF PurchaseInv, TypeOK
<1>2. /\ Len(basket) \in 1..MaxStaged /\ Len(attempts) < MaxAttempts
      /\ \A i \in DOMAIN basket : basket[i] # Blank
      /\ attempts' = Append(attempts, new) /\ UNCHANGED <<page, basket>>
  BY DEF handleBuy, isTicketComplete
<1>0. PICK z \in Nat : z = Len(attempts) + 1
  BY <1>1
<1>3. IInv' /\ ConfigOK' /\ sold' = sold
  BY ProgramStill
<1>4. basket \in Seq(Picks)
  <2>1. \A i \in 1..Len(basket) : basket[i] \in Picks
    BY <1>1, <1>2
  <2> QED
    BY <1>1, <2>1
<1>5. new \in AttemptSet
  BY <1>1, <1>4 DEF AttemptSet, PageSet
<1>6. attempts' \in Seq(AttemptSet) /\ Len(attempts') = z /\ attempts'[z] = new
      /\ \A a \in DOMAIN attempts : a \in DOMAIN attempts' /\ attempts'[a] = attempts[a]
  <2> HIDE DEF new
  <2> QED
    BY <1>0, <1>1, <1>2, <1>5
<1>7. z \notin DOMAIN attempts /\ DOMAIN attempts' = DOMAIN attempts \cup {z}
  BY <1>0, <1>1, <1>6
<1>8. TypeOK'
  BY <1>1, <1>2, <1>3, <1>6 DEF PurchaseInv, IInv, TypeOK
<1>9. (\A s \in sold : SaleOK(s))' /\ SignedOnce' /\ \A a : SalesOf(a)' = SalesOf(a)
  BY <1>3, <1>6, SalesKeep
<1>10. AttemptOK(z)'
  <2>1. Landed(z)' = {}
    <3>1. SalesOf(z) = {}
      BY <1>7 DEF SalesOf, PurchaseInv, SaleOK
    <3> QED
      BY <1>9, <3>1 DEF Landed
  <2>2. /\ attempts'[z].basket = basket /\ attempts'[z].sent = 0
        /\ attempts'[z].outcome = "sending" /\ ~attempts'[z].limbo
    BY <1>6
  <2>3. Chunks(Len(basket)) \in Nat \ {0}
    <3>1. Len(basket) \in Nat \ {0}
      BY <1>2
    <3>2. Chunks(Len(basket)) \in 1..Len(basket)
      BY <3>1, ChunksCover
    <3> QED
      BY <3>1, <3>2
  <2>4. {} = 1..0 /\ 0 \in 0..Total(z)'
    BY <2>2, <2>3 DEF Total
  <2>5. \E n \in 0..Total(z)' : Landed(z)' = 1..n /\ n = attempts'[z].sent
    BY <2>1, <2>2, <2>4
  <2>6. Len(attempts'[z].basket) \in 1..MaxStaged
    BY <1>2, <2>2
  <2>7. Total(z)' \in Nat \ {0}
    BY <2>2, <2>3 DEF Total
  <2> QED
    BY <2>2, <2>5, <2>6, <2>7 DEF AttemptOK
<1>11. (\A a \in DOMAIN attempts : AttemptOK(a))'
  BY <1>6, <1>7, <1>9, <1>10, AttemptKeeps DEF PurchaseInv
<1>12. (Len(basket) <= MaxStaged /\ Len(attempts) <= MaxAttempts)'
  BY <1>0, <1>1, <1>2, <1>6
<1> QED
  BY <1>3, <1>8, <1>9, <1>11, <1>12 DEF PurchaseInv

\* An attempt that is given up keeps what has landed of it.
LEMMA GivesUpStep ==
    ASSUME ProgramConstants, StorefrontConstants, PurchaseInv, UNCHANGED programVars,
           changes' \in Nat, NEW z \in DOMAIN attempts, Rejected(z) \/ Unconfirmed(z)
    PROVE  PurchaseInv'
<1>1. attempts \in Seq(AttemptSet) /\ attempts[z] \in AttemptSet
      /\ attempts[z].outcome = "sending" /\ UNCHANGED <<page, basket>>
  BY DEF PurchaseInv, TypeOK, Rejected, Unconfirmed
<1>2. IInv' /\ ConfigOK' /\ sold' = sold
  BY ProgramStill
<1>3. /\ DOMAIN attempts' = DOMAIN attempts /\ Len(attempts') = Len(attempts)
      /\ attempts' \in Seq(AttemptSet)
      /\ \A a \in DOMAIN attempts : a # z => attempts'[a] = attempts[a]
      /\ attempts'[z].basket = attempts[z].basket /\ attempts'[z].sent = attempts[z].sent
      /\ attempts'[z].outcome = "failed" /\ attempts'[z].limbo \in BOOLEAN
  <2>1. PICK r \in AttemptSet : /\ attempts' = [attempts EXCEPT ![z] = r]
                                /\ r.basket = attempts[z].basket /\ r.sent = attempts[z].sent
                                /\ r.outcome = "failed" /\ r.limbo \in BOOLEAN
    <3>1. ASSUME Rejected(z)
          PROVE  \E r \in AttemptSet : /\ attempts' = [attempts EXCEPT ![z] = r]
                                /\ r.basket = attempts[z].basket /\ r.sent = attempts[z].sent
                                /\ r.outcome = "failed" /\ r.limbo \in BOOLEAN
      <4> DEFINE r == [attempts[z] EXCEPT !.outcome = "failed"]
      <4>1. attempts' = [attempts EXCEPT ![z] = r]
        BY <1>1, <3>1 DEF Rejected
      <4>2. r \in AttemptSet /\ r.basket = attempts[z].basket /\ r.sent = attempts[z].sent
            /\ r.outcome = "failed" /\ r.limbo \in BOOLEAN
        BY <1>1 DEF AttemptSet
      <4> HIDE DEF r
      <4> QED
        BY <4>1, <4>2
    <3>2. ASSUME Unconfirmed(z)
          PROVE  \E r \in AttemptSet : /\ attempts' = [attempts EXCEPT ![z] = r]
                                /\ r.basket = attempts[z].basket /\ r.sent = attempts[z].sent
                                /\ r.outcome = "failed" /\ r.limbo \in BOOLEAN
      <4> DEFINE r == [attempts[z] EXCEPT !.outcome = "failed", !.limbo = TRUE]
      <4>1. attempts' = [attempts EXCEPT ![z] = r]
        BY <1>1, <3>2 DEF Unconfirmed
      <4>2. r \in AttemptSet /\ r.basket = attempts[z].basket /\ r.sent = attempts[z].sent
            /\ r.outcome = "failed" /\ r.limbo \in BOOLEAN
        BY <1>1 DEF AttemptSet
      <4> HIDE DEF r
      <4> QED
        BY <4>1, <4>2
    <3> QED
      BY <3>1, <3>2
  <2> QED
    BY <1>1, <2>1
<1>4. TypeOK'
  BY <1>1, <1>2, <1>3 DEF PurchaseInv, IInv, TypeOK
<1>5. (\A s \in sold : SaleOK(s))' /\ SignedOnce' /\ \A a : SalesOf(a)' = SalesOf(a)
  BY <1>2, <1>3, SalesKeep
<1>6. AttemptOK(z)'
  <2>1. AttemptOK(z)
    BY DEF PurchaseInv
  <2>2. Landed(z)' = Landed(z) /\ Total(z)' = Total(z)
    BY <1>3, <1>5 DEF Landed, Total
  <2>3. attempts[z].sent < Total(z)
    BY <1>1, <2>1 DEF AttemptOK
  <2>4. \E n \in 0..Total(z) : Landed(z) = 1..n /\ n = attempts[z].sent
    BY <1>1, <2>1 DEF AttemptOK
  <2> QED
    BY <1>1, <1>3, <2>1, <2>2, <2>3, <2>4 DEF AttemptOK
<1>7. (\A a \in DOMAIN attempts : AttemptOK(a))'
  BY <1>3, <1>5, <1>6, AttemptKeeps DEF PurchaseInv
<1>8. (Len(basket) <= MaxStaged /\ Len(attempts) <= MaxAttempts)'
  BY <1>1, <1>3 DEF PurchaseInv
<1> QED
  BY <1>2, <1>4, <1>5, <1>7, <1>8 DEF PurchaseInv

\* The record of an attempt after one more of its transactions has landed.
LEMMA LandedRecord ==
    ASSUME StorefrontConstants, PurchaseInv, NEW z \in DOMAIN attempts, NEW k,
           k = attempts[z].sent + 1, Confirmed(z) \/ LandsLate(z)
    PROVE  /\ Lands(z, k)
           /\ attempts[z].outcome = "sending" \/ attempts[z].limbo
           /\ \E r \in AttemptSet :
                /\ attempts' = [attempts EXCEPT ![z] = r]
                /\ r.basket = attempts[z].basket /\ ~r.limbo
                /\ \/ /\ r.sent = k
                      /\ r.outcome = IF k = Total(z) THEN "success" ELSE "sending"
                   \/ r.sent = attempts[z].sent /\ r.outcome = "failed"
<1>1. attempts[z] \in AttemptSet /\ attempts[z].sent \in Nat /\ AttemptOK(z)
  BY Parts DEF PurchaseInv
<1>2. k \in Nat
  BY <1>1
<1>3. CASE Confirmed(z)
  <2> DEFINE r == [attempts[z] EXCEPT !.sent = k,
                     !.outcome = IF k = Total(z) THEN "success" ELSE "sending"]
  <2>1. Lands(z, k) /\ attempts[z].outcome = "sending"
    BY <1>3 DEF Confirmed
  <2>2. attempts' = [attempts EXCEPT ![z] = r]
    BY <1>3 DEF Confirmed, Total
  <2>3. r \in AttemptSet /\ r.basket = attempts[z].basket /\ r.sent = k
        /\ r.outcome = IF k = Total(z) THEN "success" ELSE "sending"
    BY <1>1, <1>2 DEF AttemptSet
  <2>4. ~r.limbo
    BY <1>1, <2>1 DEF AttemptSet, AttemptOK
  <2> HIDE DEF r
  <2> QED
    BY <2>1, <2>2, <2>3, <2>4
<1>4. CASE LandsLate(z)
  <2> DEFINE r == [attempts[z] EXCEPT !.limbo = FALSE]
  <2>1. Lands(z, k) /\ attempts[z].limbo
    BY <1>4 DEF LandsLate
  <2>2. attempts' = [attempts EXCEPT ![z] = r]
    BY <1>4 DEF LandsLate
  <2>3. r \in AttemptSet /\ r.basket = attempts[z].basket /\ r.sent = attempts[z].sent
        /\ ~r.limbo
    BY <1>1 DEF AttemptSet
  <2>4. r.outcome = "failed"
    BY <1>1, <2>1 DEF AttemptSet, AttemptOK
  <2> HIDE DEF r
  <2> QED
    BY <2>1, <2>2, <2>3, <2>4
<1> QED
  BY <1>3, <1>4

\* A transaction lands: the next of its attempt, under a signature of its own.
LEMMA LandingStep ==
    ASSUME ProgramConstants, StorefrontConstants, PurchaseInv, changes' \in Nat,
           NEW z \in DOMAIN attempts, Confirmed(z) \/ LandsLate(z)
    PROVE  PurchaseInv'
<1>0. PICK k : k = attempts[z].sent + 1
  OBVIOUS
<1>1. /\ attempts \in Seq(AttemptSet) /\ attempts[z].sent \in Nat /\ AttemptOK(z)
      /\ attempts[z].basket \in Seq(Picks) /\ z \in Nat
  BY Parts DEF PurchaseInv, TypeOK
<1>2. Lands(z, k) /\ (attempts[z].outcome = "sending" \/ attempts[z].limbo)
  BY <1>0, LandedRecord
<1>3. PICK r \in AttemptSet :
        /\ attempts' = [attempts EXCEPT ![z] = r]
        /\ r.basket = attempts[z].basket /\ ~r.limbo
        /\ \/ /\ r.sent = k
              /\ r.outcome = IF k = Total(z) THEN "success" ELSE "sending"
           \/ r.sent = attempts[z].sent /\ r.outcome = "failed"
  BY <1>0, LandedRecord
<1>4. attempts[z].sent < Total(z) /\ Landed(z) = 1..attempts[z].sent
  BY <1>2 , <1>1 DEF AttemptOK
<1>5. k \in 1..Total(z) /\ Total(z) \in Nat
  <2>1. Len(attempts[z].basket) \in Nat \ {0}
    BY <1>1 DEF AttemptOK
  <2>2. Chunks(Len(attempts[z].basket)) \in 1..Len(attempts[z].basket)
    BY <2>1, ChunksCover
  <2>3. Total(z) \in Nat
    BY <2>1, <2>2 DEF Total
  <2> QED
    BY <1>0, <1>1, <1>4, <2>3
<1>6. IInv' /\ ConfigOK'
  <2>1. Purchase
    BY <1>2, <1>5, LandsIsPurchase
  <2> QED
    BY <2>1, ProgramStep, ConfigStep DEF ProgramNext, PurchaseInv, IInv, ProgramTypeOK
<1>7. /\ DOMAIN attempts' = DOMAIN attempts /\ Len(attempts') = Len(attempts)
      /\ attempts' \in Seq(AttemptSet) /\ attempts'[z] = r
      /\ \A a \in DOMAIN attempts : a # z => attempts'[a] = attempts[a]
      /\ \A a \in DOMAIN attempts : attempts'[a].basket = attempts[a].basket
  <2>1. z \in 1..Len(attempts)
    BY <1>1
  <2>2. /\ attempts' \in Seq(AttemptSet) /\ Len(attempts') = Len(attempts)
        /\ \A a \in 1..Len(attempts) : attempts'[a] = IF a = z THEN r ELSE attempts[a]
    <3>1. /\ attempts' = [a \in DOMAIN attempts |-> attempts'[a]]
          /\ \A a \in DOMAIN attempts : attempts'[a] = IF a = z THEN r ELSE attempts[a]
      BY <1>3
    <3>2. DOMAIN attempts = 1..Len(attempts) /\ Len(attempts) \in Nat
          /\ \A a \in DOMAIN attempts : attempts[a] \in AttemptSet
      BY <1>1
    <3>3. /\ attempts' = [a \in 1..Len(attempts) |-> attempts'[a]]
          /\ \A a \in 1..Len(attempts) : attempts'[a] \in AttemptSet
      BY <1>3, <3>1, <3>2
    <3>4. attempts' \in Seq(AttemptSet) /\ Len(attempts') = Len(attempts)
      <4> DEFINE f(a) == attempts'[a]
                 n == Len(attempts)
      <4>1. attempts' = [a \in 1..n |-> f(a)] /\ \A a \in 1..n : f(a) \in AttemptSet
        BY <3>3
      <4>2. n \in Nat
        BY <3>2
      <4> HIDE DEF f, n
      <4>3. attempts' \in Seq(AttemptSet) /\ Len(attempts') = n
        BY <4>1, <4>2
      <4> QED
        BY <4>3 DEF n
    <3> QED
      BY <3>1, <3>2, <3>4
  <2>3. DOMAIN attempts = 1..Len(attempts) /\ DOMAIN attempts' = 1..Len(attempts)
    BY <1>1, <2>2
  <2> QED
    BY <1>3, <2>1, <2>2, <2>3
<1>8. page' = page /\ basket' \in {basket, << >>}
  BY DEF Confirmed, LandsLate
<1>9. TypeOK'
  <2>1. basket' \in Seq(Picks \cup {Blank})
    <3>1. basket \in Seq(Picks \cup {Blank}) /\ << >> \in Seq(Picks \cup {Blank})
      BY DEF PurchaseInv, TypeOK
    <3> QED
      BY <1>8, <3>1
  <2> QED
    BY <1>6, <1>7, <1>8, <2>1 DEF PurchaseInv, IInv, TypeOK
<1> DEFINE picks == Chunk(attempts[z].basket, k)
<1>10. PICK sale : sale = Sale(<<z, k>>, Buyer, picks)
  OBVIOUS
<1>11. sold' = sold \cup {sale} /\ \A s \in sold : s.sig # <<z, k>>
  BY <1>2, <1>10 DEF Lands, buy_ticket
<1>12. /\ sale.sig = <<z, k>> /\ sale.sig[1] = z /\ sale.sig[2] = k
       /\ sale.picks = picks
       /\ sale.fee = sale.rates[1] + Len(sale.picks) * sale.rates[2]
  <2>1. /\ sale.sig = <<z, k>> /\ sale.picks = picks /\ sale.fee = Charge(Len(picks))
        /\ sale.rates = <<state.config.feeBase, state.config.feePerTicket>>
    BY <1>10 DEF Sale
  <2> HIDE DEF picks
  <2> QED
    BY <2>1 DEF Charge
<1> HIDE DEF picks
<1>13. (\A s \in sold : SaleOK(s))'
  <2>1. ASSUME NEW s \in sold
        PROVE  SaleOK(s)'
    <3>1. SaleOK(s)
      BY DEF PurchaseInv
    <3> QED
      BY <1>7, <3>1 DEF SaleOK
  <2>2. SaleOK(sale)'
    BY <1>7, <1>12 DEF SaleOK, picks
  <2> QED
    BY <1>11, <2>1, <2>2
<1>14. SignedOnce'
  BY <1>11, <1>12 DEF PurchaseInv, SignedOnce
<1>15. ASSUME NEW a \in DOMAIN attempts, a # z
       PROVE  AttemptOK(a)'
  <2>1. SalesOf(a)' = SalesOf(a)
    BY <1>11, <1>12, <1>15 DEF SalesOf
  <2>2. AttemptOK(a) /\ attempts'[a] = attempts[a]
    BY <1>7, <1>15 DEF PurchaseInv
  <2> QED
    BY <2>1, <2>2, AttemptKeeps
<1>16. AttemptOK(z)'
  <2>1. Landed(z)' = Landed(z) \cup {k}
    <3>1. SalesOf(z)' = SalesOf(z) \cup {sale}
      BY <1>11, <1>12 DEF SalesOf
    <3> QED
      BY <1>12, <3>1 DEF Landed
  <2>2. Landed(z)' = 1..k
    BY <1>0, <1>1, <1>4, <2>1
  <2>3. Total(z)' = Total(z)
    BY <1>7 DEF Total
  <2>4. /\ Len(attempts'[z].basket) \in 1..MaxStaged
        /\ attempts'[z].sent <= Total(z)
        /\ attempts'[z].outcome = "success" => attempts'[z].sent = Total(z)
        /\ attempts'[z].outcome = "sending" => attempts'[z].sent < Total(z)
        /\ ~attempts'[z].limbo
        /\ attempts'[z].outcome # "failed" => attempts'[z].sent = k
    <3>1. Len(r.basket) \in 1..MaxStaged
      BY <1>1, <1>3 DEF AttemptOK
    <3>2. r.sent <= Total(z) /\ (r.outcome # "failed" => r.sent = k)
      <4>1. attempts[z].sent <= Total(z) /\ k <= Total(z)
        BY <1>1, <1>4, <1>5
      <4>2. CASE r.sent = k
        BY <4>1, <4>2
      <4>3. CASE r.sent = attempts[z].sent /\ r.outcome = "failed"
        BY <4>1, <4>3
      <4> QED
        BY <1>3, <4>2, <4>3
    <3>3. /\ r.outcome = "success" => r.sent = Total(z)
          /\ r.outcome = "sending" => r.sent < Total(z)
      BY <1>3, <1>5
    <3> QED
      BY <1>3, <1>7, <3>1, <3>2, <3>3
  <2>5. k \in 0..Total(z)
    BY <1>5
  <2> QED
    BY <2>2, <2>3, <2>4, <2>5 DEF AttemptOK
<1>17. (\A a \in DOMAIN attempts : AttemptOK(a))'
  BY <1>7, <1>15, <1>16
<1>18. (Len(basket) <= MaxStaged /\ Len(attempts) <= MaxAttempts)'
  <2>1. Len(<< >>) = 0 /\ 0 <= MaxStaged
    BY DEF StorefrontConstants
  <2> QED
    BY <1>7, <1>8, <2>1 DEF PurchaseInv
<1> QED
  BY <1>6, <1>9, <1>13, <1>14, <1>17, <1>18 DEF PurchaseInv

\* Every step of the storefront preserves the invariant.
LEMMA PurchaseStep ==
    ASSUME ProgramConstants, StorefrontConstants, PurchaseInv, [Next]_vars
    PROVE  PurchaseInv'
<1>1. changes \in Nat /\ MaxChanges \in Nat
  BY DEF PurchaseInv, TypeOK, StorefrontConstants
<1>2. CASE UNCHANGED vars
  <2>1. UNCHANGED <<programVars, page, basket, attempts, changes>>
    BY <1>2 DEF vars, browser
  <2> QED
    BY <1>1, <2>1, BrowsingStep DEF PurchaseInv, TypeOK
<1>3. CASE BrowserAlone /\ UNCHANGED <<programVars, changes>>
  BY <1>1, <1>3, BrowsesStep, PressStep, GivesUpStep DEF BrowserAlone
<1>4. CASE BrowserBuys /\ UNCHANGED changes
  BY <1>1, <1>4, LandingStep DEF BrowserBuys
<1>5. CASE Operate /\ UNCHANGED <<browser, changes>>
  BY <1>1, <1>5, ProgramAlone
<1>6. CASE changes' = changes + 1 /\ Administer /\ UNCHANGED browser
  BY <1>1, <1>6, ProgramAlone
<1> QED
  BY <1>2, <1>3, <1>4, <1>5, <1>6 DEF Next

\* PurchaseInv holds in every reachable state of the storefront.
THEOREM PurchasesInvariant == Spec => []PurchaseInv
<1>1. Init => PurchaseInv
  BY StartInv, ProgramConstants, StorefrontConstants
<1>2. PurchaseInv /\ [Next]_vars => PurchaseInv'
  BY PurchaseStep, ProgramConstants, StorefrontConstants
<1> QED
  BY <1>1, <1>2, PTL DEF Spec

\* The browser's state and the program's keep their types.
THEOREM StorefrontTypes == Spec => []TypeOK
<1>1. PurchaseInv => TypeOK
  BY DEF PurchaseInv
<1> QED
  BY <1>1, PurchasesInvariant, PTL

\* However the program is paused, reconfigured or moved to another drawing
\* between its transactions, and whichever of them is refused, expires or
\* lands after it was given up, a purchase has bought its first tickets in
\* their order and no others (buyTickets).
THEOREM PurchasesAreFilledInOrder == Spec => []FillsInOrder
<1>1. PurchaseInv => FillsInOrder
  BY PurchasesFill, StorefrontConstants
<1> QED
  BY <1>1, PurchasesInvariant, PTL

\* A purchase reported as a success has bought every ticket of its basket and
\* was charged what the page quoted, however many transactions it took, as
\* long as the page's rates were the program's (calculateRelayFee).
THEOREM SuccessesAreExact == Spec => []SuccessIsExact
<1>1. PurchaseInv => SuccessIsExact
  BY PurchasesExact, StorefrontConstants
<1> QED
  BY <1>1, PurchasesInvariant, PTL

\* The browser acts on the program through its instructions only, each with
\* arguments the program allows for: what is proved of the program holds
\* while it is bought from.
THEOREM BuysByInstruction == Spec => ProgramSpec
<1>1. Init => ProgramInit
  BY DEF Init
<1>2. ASSUME PurchaseInv, [Next]_vars
      PROVE  [ProgramNext]_programVars
  <2>1. ASSUME NEW a \in DOMAIN attempts, Confirmed(a) \/ LandsLate(a)
        PROVE  Purchase
    <3>1. PICK k : k = attempts[a].sent + 1
      OBVIOUS
    <3>2. Lands(a, k) /\ (attempts[a].outcome = "sending" \/ attempts[a].limbo)
      BY <1>2, <2>1, <3>1, LandedRecord, StorefrontConstants
    <3>3. attempts[a].sent \in Nat /\ attempts[a].sent < Total(a)
      BY <1>2, <3>2, Parts, StorefrontConstants DEF PurchaseInv, AttemptOK
    <3>4. k \in 1..Total(a)
      <4>1. Len(attempts[a].basket) \in Nat \ {0}
        BY <1>2, Parts, StorefrontConstants DEF PurchaseInv, AttemptOK
      <4>2. Chunks(Len(attempts[a].basket)) \in 1..Len(attempts[a].basket)
        BY <4>1, ChunksCover, StorefrontConstants
      <4>3. Total(a) \in Nat
        BY <4>1, <4>2 DEF Total
      <4> QED
        BY <3>1, <3>3, <4>3
    <3> QED
      BY <1>2, <3>2, <3>4, LandsIsPurchase, ProgramConstants, StorefrontConstants
  <2>2. CASE BrowserBuys
    BY <2>1, <2>2 DEF BrowserBuys, ProgramNext
  <2>3. CASE UNCHANGED programVars
    BY <2>3
  <2>4. CASE UNCHANGED vars
    BY <2>4 DEF vars, programVars
  <2> QED
    BY <1>2, <2>2, <2>3, <2>4 DEF Next, ProgramNext
<1> QED
  BY <1>1, <1>2, PurchasesInvariant, PTL DEF Spec, ProgramSpec

\* So the tickets of one epoch have one pair of bounds in a run of the
\* storefront too, where a purchase is spread over several transactions and
\* the bounds may change between two of them.
THEOREM BoundsHoldWhileBought == Spec => []OneBoundsPerEpoch
BY BuysByInstruction, EpochsHaveOneBounds, PTL
=============================================================================
