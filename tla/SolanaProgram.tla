---------------------------- MODULE SolanaProgram ----------------------------
(***************************************************************************)
(* The Anchor program (solana_smart_contracts/src/lib.rs): the state       *)
(* account, the vault's token account and the purchases it has emitted.    *)
(* One action per instruction; an instruction whose account constraints or *)
(* requires fail changes nothing, so they are its guard.                   *)
(*                                                                         *)
(* A ticket is abstracted to its highest ball and its bonus ball: five     *)
(* balls in strictly ascending order above 0 are all in bounds when the    *)
(* last one is.  Rent, bumps, events but TicketPurchaseEvent and checked   *)
(* arithmetic (amounts stay far below 2^64) are left out; wallets hold     *)
(* enough or their transaction is one that never lands.                    *)
(***************************************************************************)
EXTENDS Integers, Sequences, FiniteSets

CONSTANTS
    Keys,       \* public keys
    NoKey,      \* Pubkey::default()
    Roles,      \* the keys that are ever made admin or treasury
    Bounds,     \* pairs of normal_max and bonus_max the admin sets
    Picks,      \* ticket data
    Configs,    \* relay configurations: fees, recipient and ceilings
    Signatures, \* transaction signatures
    Price,      \* ticket_price, which no instruction changes
    HardMax,    \* HARD_MAX_TICKETS_PER_PURCHASE
    MaxEpoch,   \* bound: the last epoch of a run
    MaxVault    \* bound: what top-ups fill the vault to

ASSUME ProgramConstants ==
    /\ Roles \subseteq Keys /\ NoKey \notin Keys /\ Price \in Nat \ {0} /\ HardMax \in Nat \ {0}
    /\ MaxEpoch \in Nat \ {0} /\ MaxVault \in Nat
    /\ Bounds \subseteq [normal : Nat, bonus : Nat]
    /\ Picks \subseteq [top : Nat, bonus : Nat]
    /\ Configs \subseteq [feeBase : Nat, feePerTicket : Nat, recipient : Keys,
                          maxTickets : Nat, maxClaim : Nat]

VARIABLES
    state,   \* the LordsPotState account; layout says which program wrote it
    vault,   \* the amount in vault_usdc_account
    sold,    \* the TicketPurchaseEvents, with the bounds and fee of each
    signers  \* who signed the last initialisation, migration or rotation
             \* (observed only)

programVars == <<state, vault, sold, signers>>

NoConfig == [feeBase |-> 0, feePerTicket |-> 0, recipient |-> NoKey,
             maxTickets |-> 0, maxClaim |-> 0]
Account(layout, admin, treasury, config, bounds, paused, epoch) ==
    [layout |-> layout, admin |-> admin, treasury |-> treasury,
     config |-> config, bounds |-> bounds, paused |-> paused, epoch |-> epoch]
NoAccount == Account("none", NoKey, NoKey, NoConfig,
                     [normal |-> 0, bonus |-> 0], TRUE, 0)

(***************************************************************************)
(* The account does not exist yet, or an older program wrote it: in the    *)
(* shorter layout, or in one of today's size whose treasury field was      *)
(* still reserved space.                                                   *)
(***************************************************************************)
ProgramInit ==
    /\ vault = 0 /\ sold = {} /\ signers = {}
    /\ \/ state = NoAccount
       \/ \E admin \in Roles, b \in Bounds, p \in BOOLEAN :
             state = Account("legacy", admin, NoKey, NoConfig, b, p, 1)
       \/ \E admin \in Roles, b \in Bounds, p \in BOOLEAN, c \in Configs :
             state = Account("current", admin, NoKey, c, b, p, 1)

validate_relay_config(c) == c.maxTickets \in 1..HardMax /\ c.maxClaim > 0

initialize(signer, config, treasury, bounds, epoch) ==
    /\ state.layout = "none"
    /\ validate_relay_config(config) /\ treasury # NoKey
    /\ state' = Account("current", signer, treasury, config, bounds, FALSE, epoch)
    /\ signers' = {signer}
    /\ UNCHANGED <<vault, sold>>

\* Of an account that already has today's size it says so and returns: a
\* stuttering step, whoever signs.
migrate_state(admin, config, treasury) ==
    /\ validate_relay_config(config) /\ treasury # NoKey
    /\ state.layout = "legacy" /\ admin = state.admin
    /\ state' = [state EXCEPT !.layout = "current", !.config = config,
                              !.treasury = treasury]
    /\ signers' = {admin}
    /\ UNCHANGED <<vault, sold>>

\* The typed account every other instruction asks for decodes only then.
Decodes == state.layout = "current"

set_admin(admin, new) ==
    /\ Decodes /\ admin = state.admin /\ new # admin
    /\ state' = [state EXCEPT !.admin = new]
    /\ signers' = {admin, new}
    /\ UNCHANGED <<vault, sold>>

set_treasury_authority(signer, new) ==
    /\ Decodes /\ new # NoKey
    /\ IF state.treasury = NoKey THEN signer = state.admin
       ELSE signer = state.treasury /\ new # state.treasury
    /\ state' = [state EXCEPT !.treasury = new]
    /\ signers' = {signer, new}
    /\ UNCHANGED <<vault, sold>>

set_relay_config(admin, config) ==
    /\ Decodes /\ admin = state.admin /\ validate_relay_config(config)
    /\ state' = [state EXCEPT !.config = config]
    /\ UNCHANGED <<vault, sold, signers>>

InBounds(pick, b) == pick.top \in 1..b.normal /\ pick.bonus \in 1..b.bonus
Charge(n) == state.config.feeBase + n * state.config.feePerTicket
Sale(sig, buyer, picks) ==
    [sig |-> sig, buyer |-> buyer, picks |-> picks, epoch |-> state.epoch,
     bounds |-> state.bounds, fee |-> Charge(Len(picks)),
     rates |-> <<state.config.feeBase, state.config.feePerTicket>>]

\* recipient owns the fee account passed; sig never landed before.
buy_ticket(sig, buyer, picks, recipient) ==
    /\ Decodes /\ ~state.paused
    /\ recipient = state.config.recipient /\ recipient # buyer
    /\ Len(picks) \in 1..HardMax /\ Len(picks) <= state.config.maxTickets
    /\ \A i \in DOMAIN picks : InBounds(picks[i], state.bounds)
    /\ \A s \in sold : s.sig # sig
    /\ vault' = vault + Len(picks) * Price
    /\ sold' = sold \cup {Sale(sig, buyer, picks)}
    /\ UNCHANGED <<state, signers>>

pause_protocol(admin) ==
    /\ Decodes /\ admin = state.admin /\ ~state.paused
    /\ state' = [state EXCEPT !.paused = TRUE]
    /\ UNCHANGED <<vault, sold, signers>>

\* A mutant for the checks: sales may resume in the same epoch.
resume_protocolSame(admin, next) ==
    /\ Decodes /\ admin = state.admin /\ state.paused
    /\ next >= state.epoch
    /\ state' = [state EXCEPT !.paused = FALSE, !.epoch = next]
    /\ UNCHANGED <<vault, sold, signers>>
resume_protocol(admin, next) ==
    /\ Decodes /\ admin = state.admin /\ state.paused
    /\ next > state.epoch
    /\ state' = [state EXCEPT !.paused = FALSE, !.epoch = next]
    /\ UNCHANGED <<vault, sold, signers>>

update_epoch(admin, bounds) ==
    /\ Decodes /\ admin = state.admin /\ state.paused
    /\ bounds # state.bounds
    /\ state' = [state EXCEPT !.bounds = bounds]
    /\ UNCHANGED <<vault, sold, signers>>

claim_winnings(user, admin, amount) ==
    /\ Decodes /\ admin = state.admin /\ ~state.paused
    /\ amount \in 1..state.config.maxClaim /\ vault >= amount
    /\ vault' = vault - amount
    /\ UNCHANGED <<state, sold, signers>>

\* Not stopped by the pause.
withdraw_vault_funds(treasury, amount) ==
    /\ Decodes /\ treasury = state.treasury
    /\ amount > 0 /\ vault >= amount
    /\ vault' = vault - amount
    /\ UNCHANGED <<state, sold, signers>>

\* A plain token transfer to the vault: winnings brought over from Base.
TopUp(amount) ==
    /\ vault + amount <= MaxVault
    /\ vault' = vault + amount
    /\ UNCHANGED <<state, sold, signers>>

\* Instructions of the keys that run the protocol: rare, by hand.
Administer ==
    \E k \in Roles :
      \/ \E c \in Configs, t \in Roles :
           \/ \E b \in Bounds : initialize(k, c, t, b, 1)
           \/ migrate_state(k, c, t)
      \/ \E new \in Roles : set_admin(k, new) \/ set_treasury_authority(k, new)
      \/ \E c \in Configs : set_relay_config(k, c)
      \/ \E amount \in 1..vault : withdraw_vault_funds(k, amount)

\* What the backend signs for every drawing and every claim.
Operate ==
    \/ \E k \in Roles :
         \/ pause_protocol(k)
         \/ \E next \in 1..MaxEpoch : resume_protocol(k, next)
         \/ \E b \in Bounds : update_epoch(k, b)
         \/ \E user \in Keys, amount \in 1..vault : claim_winnings(user, k, amount)
    \/ \E amount \in 1..MaxVault : TopUp(amount)

Purchase ==
    \E sig \in Signatures, buyer, recipient \in Keys, n \in 1..HardMax :
      \E picks \in [1..n -> Picks] : buy_ticket(sig, buyer, picks, recipient)

ProgramNext == Administer \/ Operate \/ Purchase
ProgramSpec == ProgramInit /\ [][ProgramNext]_programVars

-----------------------------------------------------------------------------
ConfigSet == Configs \cup {NoConfig}
StateSet == [layout : {"none", "legacy", "current"}, admin : Keys \cup {NoKey},
             treasury : Keys \cup {NoKey}, config : ConfigSet,
             bounds : [normal : Nat, bonus : Nat], paused : BOOLEAN, epoch : Nat]
SaleSet == [sig : Signatures, buyer : Keys, picks : Seq(Picks), epoch : Nat,
            bounds : [normal : Nat, bonus : Nat], fee : Nat, rates : Nat \X Nat]

\* The values the variables take.
ProgramTypeOK ==
    /\ state \in StateSet /\ vault \in Nat
    /\ sold \subseteq SaleSet /\ signers \subseteq Keys

\* Every ticket sold in an epoch was checked against the same ball bounds,
\* those Megapot will check it against when the relay forwards it: bounds
\* change only while sales are frozen, and sales resume only in a later
\* epoch (update_epoch, resume_protocol, buy_ticket).
OneBoundsPerEpoch ==
    \A s, r \in sold :
      /\ s.epoch = r.epoch => s.bounds = r.bounds
      /\ \A i \in DOMAIN s.picks : InBounds(s.picks[i], s.bounds)

\* A role passes on only with the signature of the key that holds it and of
\* the key that takes it, whatever the sequence of initialisation, migration
\* and rotations; only a treasury that was never set is set by the admin.
RolesHandedOver ==
    [][state.layout = "current" =>
         /\ state'.admin # state.admin => {state.admin, state'.admin} \subseteq signers'
         /\ state'.treasury # state.treasury =>
              /\ state'.treasury # NoKey
              /\ IF state.treasury = NoKey THEN state.admin \in signers'
                 ELSE {state.treasury, state'.treasury} \subseteq signers']_programVars
=============================================================================
