# LordsPot in TLA+

LordsPot sells Megapot lottery tickets (Base) to buyers on Solana. A buyer pays USDC into a Solana
program; the backend relays the order to a vault contract on Base, which buys the tickets from
Megapot; after the drawing the backend grades the tickets, pulls the winnings into the Base vault and
co-signs a claim on Solana for each winner. Two chains, one Postgres database, one Redis and three
backend processes (API, cron, worker) have to agree, and none of them can be in one transaction with
another. This project models the parts where that is hard, checks them with TLC and proves what the
prover can reach.

Paths below are relative to the repository root; `backend/` stands for `src/backend/src/`.

## 1. Inventory

| Component | State it keeps | Operations | Talks to | What makes it correct |
|---|---|---|---|---|
| Solana program `solana_smart_contracts/.../lib.rs` | `LordsPotState`: pause flag, epoch, treasury and relay config, counters; vault token account | `buy_ticket`, `pause_protocol`, `resume_protocol`, `update_epoch`, `claim_winnings`, `withdraw_vault_funds`, setters, `migrate_state` | signed by buyers, winners and the admin key of the backend | no sale while paused; epochs only grow; only the admin co-signs payouts (there is **no replay guard** in the program) |
| Base vault `LordsPotBaseVault.sol` | fulfilled order ids, roles, pause flag, USDC allowance and balance | `buyTickets`, `claimWinnings`, `withdrawUsdc`, `pause`/`unPause`, setters | relay and harvest workers, Megapot | an id is fulfilled once; only roles spend |
| Storefront `src/frontend/src/`: `pages/Home`, `solana/buyTickets.ts`, `solana/constants.ts`, `store/ticketBuilderStore.ts` | the polled copy of the program's state, the basket, the attempt | edit the basket, quote the fee, buy in several transactions | buyers, Solana program | a purchase cut short bought a prefix; a success bought all, for the quoted fee |
| Ingestion: `routes/webhook.ts`, `workers/webhookIngestWorker.ts`, `workers/ticketWorker.ts`, `services/solanaIndexer.ts`, `lib/queues.ts` | webhook inbox, BullMQ queues, indexer cursor, `RelayOrder` and `Ticket` rows | receive, parse, poll missed signatures, create an order with its tickets, enqueue | Helius webhooks, Solana RPC, relay queue | every landed purchase becomes exactly one order, with what its log shows |
| Relay: `workers/baseRelayWorker.ts`, `workers/baseConfirmer.ts`, `cron/reconciler.ts`, `services/baseService.ts` | `RelayOrder.status` and `fulfillEpoch`, `Ticket.megapotNftId`, `RelayBatch` rows | gate, lock, resolve in-flight batches, buy chunk by chunk, reset and re-queue | Base vault, cached round | every ticket is bought once and stamped with an NFT that a purchase paid for it |
| Epoch transition: `services/megapotService.ts`, `services/solanaService.ts`, `cron/index.ts` | cached round, pause flag (Redis and `ProtocolState`), Redis lock, the program's epoch | pause, wait for rollover, resume, boot catch-up, resync | Megapot API, Solana program | the program sells tickets of Megapot's current drawing, and is paused around a rollover only |
| Epoch backfill (same file) | `MegapotEpoch` rows with prize tiers | backfill, on-demand healing | Megapot API | no settled epoch is missing for ever |
| Settlement: `workers/settlementWorker.ts` | `Ticket.winStatus`, `winAmount`, `ticketsSettledAt` | grade the tickets of a settled epoch | database | every ticket is graded once and before the watermark |
| Harvest: `workers/harvestWorker.ts` | `HarvestBatch` rows, quarantine set, Redis lock, `ticketsHarvestedAt` | resolve, rehearse, bisect, build, broadcast, recover | Base vault, Megapot | no winnings pulled twice, lost or credited early |
| Payout: `routes/claims.ts`, `workers/payoutConfirmer.ts`, `services/solanaService.ts` | `PayoutClaim` rows, `Ticket.payoutClaimId` and `winStatus` | issue a voucher, sweep the chain, confirm, expire, release | winners, Solana RPC | no ticket is paid twice, none is stuck |
| Vault monitor and balance cache | a cached balance | refresh, alert | Base RPC | a circuit breaker only |
| Read-only routes, process plumbing, frontend, scripts, vendored and generated code | none shared | | | see `PROJECT.json` |

Components meet through rows (`RelayOrder.status` is written by ticket worker, relay worker and
reconciler; `Ticket.winStatus` by settlement, harvest and payout, each taking over where the one before
stopped), through Redis (round, pause flag, locks, queues) and through the two chains.

**Hard behaviours.** Every `await` is a point where another process runs; no row is locked across one.
Transactions are broadcast before their hash is stored. Locks have a time to live and are deleted
without a look at their owner. Queries without `orderBy` decide chunks and ids. Facts are inferred from
the *absence* of a transaction. Transactions may land late, be dropped, or reappear. A process may die
anywhere. `PROJECT.json` lists these hazards by line, with the properties aimed at each.

## 2. Plan

Order of work, most money at risk first. Modules are written to be proved about: constants with a named
assumption, one action per handler step, no `RECURSIVE` operator.

| # | Module | Status |
|---|---|---|
| 1 | `PayoutVouchers`, abstract `PayoutLedger`, `PayoutVouchersProofs` | done |
| 2 | `HarvestPipeline`, `HarvestProofs` | done |
| 3 | `RelayOrders`, `RelayOrdersProofs` | done |
| 4 | `EpochTransition`, `EpochTransitionProofs` | done |
| 5 | `Settlement` (settlement pass, healer and backfill), `SettlementProofs` | done |
| 6 | `Ingestion`, `IngestionProofs` | done |
| 7 | `SolanaProgram`; `Storefront`, which composes the program with the browser; `StorefrontProofs`, about both; `BaseVault`, `BaseVaultProofs` | done |
| 8 | `TicketLifecycle`: the life of one ticket (queued, bought, graded, harvested, paid) as an abstract specification that relay, settlement, harvest and payout implement | open |

Every safety invariant the passing runs check except `NftIsOwn`, and the refinement of `PayoutLedger`, is a theorem. Theorems planned next: that a grade and a
watermark survive the harvest's and the payout's own writes, stated of `TicketLifecycle` once it exists; and `PausedOnlyAround` with several servers
whose due-checks are fresh at boot as well.

## 3. Modules

### PayoutVouchers (with PayoutLedger)

One clock `now` in Solana blocks stands for block height, `createdAt` and `Date.now()`. `row` are the
`PayoutClaim` rows, `ticket` the two columns of `Ticket` the path writes, `pc` and `voucher` the locals of
each `POST /voucher` request, `conf` those of the confirmer's tick, `landed` the chain.

- *Route* (`claims.ts` 102-237): `CheckExisting` (one-live-voucher rule), `CreateRow`, `BindTickets` (the
  guarded `updateMany`), `Total`, `BuildVoucher` (co-signing; the block ceiling is read here),
  `StampAndReturn`; on failure `AbandonVoucher` (unbind) and `DeleteRow`, which may fail separately.
- *Confirmer* (`payoutConfirmer.ts` 82-252): `ReadPending`, `SweepComplete`/`SweepTruncated`/`SweepFailed`,
  `ReadHeight`, then row by row `ConfirmRow` (matched by wallet, amount and time), `ReleaseUnsigned`,
  `ExpireRow`, `KeepWaiting`, `ResolveFailed`.
- *Environment*: `Tick`, `Harvested` (the harvest credits a ticket), `Land` (`claim_winnings`), `Crash`.

`PayoutLedger` is the promise: a payout hands one wallet credited tickets, none of which was paid before.
The refinement maps `payouts[t]` to the number of landed vouchers that cover `t`.

### HarvestPipeline

One graded epoch, any number of processes. `ticket`, `batch`, `quarantine`, `watermark` and `lock` are rows
and Redis keys; `me` holds each tick's stage and locals; `tx` and `claimed` are Base. Actions follow the
tick: `Acquire`, resolve the in-flight batch, `Scan` (a page of `PageSize` winners, any of them since the query names no order,
and only then the quarantine taken off),  `Rehearse` (estimateGas and the bisection in one step,
since they read the chain only), create, bind, submit, store the hash, receipt, finalize or release,
recover a batch whose hash was not stored, set the watermark, unlock. `Throw` and `Crash` may strike at any
stage; a dropped transaction may reappear. Amounts are left out, as are the TESTING ONLY arguments.

### RelayOrders

One paid order with several tickets and several worker slots. `status`, `fulfillEpoch`, `ticket` and `batch`
are rows; `job` the locals of each run; `tx` the `buyTickets` transaction of each batch; `round` and `locked`
the Redis cache. A chunk id is the *set* of its tickets, since the code derives it from their sorted ids;
the vault's per-id guard is in `Mine`. Actions: `Take` (unguarded read), gate (`Defer`, `PassGate`), vault
check (`Underfunded`, `Lock`), `ListStuck`, `ReleaseUnsent`, `Watched`, `Recover`, `Plan`, `CreateBatch`,
`Bind`, `Send`/`SendThrows`/`SendRefused`, `Store`, `Confirm`, `Setback`, `Done`, `Fail`, and the reconciler's
`ResetStuck` and `Requeue`. Queries without an order return the tickets in any order unless `StableOrder`.

### EpochTransition

`drawing`/`due` are Megapot, `chain`/`pauses`/`resumes` the program and the transactions in flight, `round`,
`key`, `row`, `lock` Redis and `ProtocolState`, `me` each process, `sync` the cron tick's
`syncPauseStateFromChain`. A process enters by `Check` (timer or heartbeat), `Rebuild` (empty cache) or
`Restart`/`BootRead` (the API's boot catch-up); then `Acquire`, `SendPause`, `ConfirmPause` or `Verify`, `Mark`
and `MarkRow` (two stores of the flag), `Poll`, `Look` (phantom unpause), `SendResume` (not confirmed, as in
`resumeAndTransitionEpoch`), `Cache` and `CacheRow` (`processActiveRound`), `Clear`, `ClearRow`, `Unlock`
(deletes whatever lock is there). `Catch` says where an error leads from each stage. `Backfill` stands for
the one effect of `syncAllSettledRounds` on this state: the active round goes to the cache.

### Settlement

Both ways in which a concluded drawing becomes a graded one. `drawing`/`api` are Megapot, `entered`/`order` the
relay's rows, `ticket` and `row` the `Ticket` and `MegapotEpoch` rows, `sync` the boot backfill, `me` the tick of each
process (the worker and the cron process both run one, without a lock).

- *Rows*: `StartBackfill`, `BackfillNext`, `BackfillHalts`, `BackfillFails` (`syncAllSettledRounds`, newest first down
  to the highest stored id), `TransitionUpsert`, and `Start`, `Heal` (`healMissingEpochs`); all three go through
  `Upserted` (`upsertSettledEpoch`).
- *Pass* (`settlementWorker.ts`): `List`, `NextEpoch` (an unusable table is refused), `ReadPage`, `GradePage` (the
  guarded updates of one transaction), `AfterPage` (short page, runaway guard), `Mark` (the watermark), `Throw`.
- *Arithmetic*: `calcTierId`, `applyReferralShare`, `processPrizeTiers` and `Grade` are functions; `Receives` states
  independently what the vault will get, by the inequality that defines rounding down.
- *Environment*: `Draw`, `Post`, `Buy`, `Succeed`, `Harvest`.

### Ingestion

`kind[s]` is what the transaction of a signature is: the purchase events it `paid` for (none if it failed or is something else), those `shown` by its
log, which Solana cuts when it is long, whether the log is `named` by a BuyTicket instruction, and whether its events are `mixed`, of two buyers or
epochs. `handler`, `seen`, `inbox`, `hook`, `job`, `order`, `relay` follow the two paths; `order[s]` counts the events in the rows of a signature, so that a
second row would show. `Receive`, `Persist`,
`Enqueue`, `MarkSeen` are the four awaits of `POST /helius`; the `Hook...` actions one attempt of a webhook job;
`Refuse` (no event, or mixed ones), `Create`, `QueueRelay` one of a ticket job; `PollList`, `PollOne`, `PollMoves` the backup indexer.
`Added`, `To`, `Ended`, `Thrown` and `Forget` say what BullMQ does with a job id: a job that is retained, failed ones included, swallows
another of its id. A webhook may name a signature that never lands, that this node does not know yet, or that was handled long ago.

### SolanaProgram and Storefront

`SolanaProgram` has one action per instruction of `lib.rs`; account constraints and `require!`s are its guards. It starts with no
account, with one of the older layout, or with one whose treasury was still reserved space, so that `initialize`, `migrate_state`
and the first `set_treasury_authority` are all reached. A ticket is its highest ball and its bonus ball.
`Storefront` EXTENDS it with one browser: the page's copy of the state, the basket, and each press of Buy with the basket it was made
from. `Confirmed` and `LandsLate` are the program's `buy_ticket` called by the browser; an unconfirmed transaction ends the
attempt and may still land. `sold` keeps the purchase events; `signers` only observes.

### BaseVault

One action per function of `LordsPotBaseVault.sol`, with Megapot and the tokens reduced to what the vault sees of them: a purchase
pulls its cost in Megapot's own token through the allowance, a claim burns tickets and pays. The relay and harvest modules use the
vault's per-id guard and all-or-nothing claims, which are stated here.

### What the environments mean

The code relies on facts it does not enforce. Each is a constant, so a run says which of them it needs, and
switching one off shows what happens without it.

| Module | Environment | Meaning |
|---|---|---|
| PayoutVouchers | `SerialRequests`, `TimingMargins` | a wallet has one request at a time; row to stamp plus one confirmer tick fit in `UNSIGNED_GRACE_MS`; sweep to height read plus RPC lag fit in `EXPIRY_BUFFER_BLOCKS` |
| HarvestPipeline | `TxSettles`, `RpcReliable`, `LockHolds`, fewer unclaimable winners than `PageSize` | a transaction without a stored hash is mined or gone before its batch is looked at again; a rehearsal throws only where it would revert; a tick ends within the lock's 300 s; quarantined winners do not fill a page of twice the chunk size (`EveryWinnerHarvested` only) |
| RelayOrders | `StableOrder`, `TxSettles`, `FreshStatus` | rows come in insertion order; what is mined is mined within the receipt timeout; gate and vault check write over a status they could have read |
| Settlement | `OrdersInTime` | an order of a drawing is SUCCESS before a process reads the drawing's last page |
| Ingestion | `NodeServes`, `BurstsFit`, `AttemptsSuffice` | the node serves every transaction it has listed; between two polls no more signatures land than one poll asks for; a ticket job creates its order before its attempts are spent. Without a constant of its own: webhook mark and completed jobs outlast the attempts of both jobs (`Settled`) |
| EpochTransition | `FreshReads`, `TxSettles`, `CleanStops`, `RedisKeeps`, `Servers` | the due-check is not overtaken; transactions land before the next one is sent; no process dies inside a transition and no boot catch-up fails; Redis keeps its data; which processes boot with `startSync` (the API only) |

## 4. Runs

| Run | Instance | Shows |
|---|---|---|
| PayoutLive | 1 wallet, 2 tickets of equal prize, 2 requests up to block 4, 8 blocks, a voucher valid 1 block and buried 1 more | safety of the payout path and its refinement of `PayoutLedger` inside both grace periods, with crashes and truncated and failed sweeps; every row is settled, every landed claim is recorded |
| PayoutRaceMoney (violation) | concurrent requests of one wallet | the landed voucher is attributed to its twin row, the row that paid expires, its tickets are paid again |
| HarvestLive | 3 tickets (one unclaimable), 2 processes, chunks and pages of 2, 2 faults | credit, traceability, quarantine, one claim at a time, and every claimable winner is credited |
| HarvestHostile | 3 claimable tickets, unreliable RPC, slow mempool | the watermark and the one-batch rule hold even so |
| RelaySafe | 3 tickets in chunks of 2 and in one order, 2 jobs, 5 batches, 3 faults, 1 rollover, late receipts | the derived ids make every retry harmless |
| RelayLive | same in any order, 4 batches, 1 fault, rollover anywhere | every NFT was bought for its ticket, every order ends |
| TransitionLive | 2 processes, 3 drawings, 2 faults | paused around a rollover only, never left paused, one process at a time, the program catches up |
| TransitionHostile | 2 drawings, 1 fault, all four facts off | never ahead of Megapot; the flag stores heal |
| SettlementLive | 3 tickets in 2 orders, 2 drawings, 2 processes, pages of one ticket, 1 fault | grades are right, written once and before the watermark, and every ticket gets one |
| IngestionLive | a purchase of two events, then one cut after its first event, one of two buyers or no purchase; 1 request, polls of 2, 2 attempts per job, 2 faults | an order holds each event of its log once, nothing acknowledged is dropped, every purchase the log shows reaches the relay |
| StorefrontBuys | 1 purchase of up to 3 tickets in transactions of 2, 2 administrative calls, 2 epochs | a prefix is bought, under one set of bounds per epoch, and a success is exact in tickets and fee |
| VaultSetters | 2 Megapots with a token each, 2 relayers, referrers and owners, 2 order ids | the allowance follows the two addresses, whatever the order of calls |

**Bounds.** Two requests are needed for every payout race (the second one takes what the first released). With all margins at one block a voucher
handed out at block 1 is valid to block 2 and given up at block 4; a second request may still start at block 4, so that two issued vouchers over
one ticket are within the bounds, and eight blocks leave room for its own expiry and the last row's grace. An expiry that forgets the buffer, or one that
trusts a truncated sweep, breaks the properties about money this way. `RpcLag` is 0 in the run: that a listed transaction is not served yet is left to the theorems.
Chunks of two with three tickets give a full and a partial chunk, and regroupings; four batch names cover two broadcasts of each
chunk, five with three faults a third attempt at one. Two processes or jobs show every pairwise race, two faults a fault during the recovery from another. Three drawings give a rollover
from a state that an earlier rollover left behind. In Settlement pages of one ticket and two pages per pass give a loop, an empty page and
the runaway guard (a page that is short but not empty is left to the proof); the tables hold a matching tier that pays nothing, a
free-ticket tier and an amount on which two ways of rounding differ. In Ingestion two faults against two attempts let a job fail for good; polls of
two signatures let a transaction land while a poll is under way and be overtaken in it; of the kinds of transactions one stands for each way
the code can go (merged, refused, passed over), and the theorems hold for all. In Storefront three tickets in transactions of two give a
full and a partial transaction with every administrative change between them; the fee charged is constant on the page and varies in the program. Editing
stops after the last attempt, and administrative keys come from `Roles`, since nothing after that tells more of them apart. `MaxAttempts`,
`MaxTime`, `LastRequest`, `MaxFaults`, `MaxDrawing`, `MaxSig`, `MaxEpoch`, `MaxVault`, `MaxChanges`, `MaxHolding` are bounds of the
models, named in each module. Symmetry is used in safety runs only.

**Deadlock** is checked in the payout runs, which keep a clock that never stops before the bound. In all others the system
really rests: every ticket is credited or graded, the order has ended, the last drawing is reached, all signatures are handled, the
program and the vault wait for their next caller.

**Fairness.** *Payout*: the confirmer re-arms its own timer and awaits return (weak fairness of `Settle` and of each
handler), blocks keep coming, outages end (`<>[][Healthy]_vars`); nothing obliges a client to ask or to land.
*Harvest*: the poll interval starts ticks again, abandoned locks expire (`EX`), broadcast transactions that were not dropped
are mined, time passes. *Relay*: queue workers take jobs, the reconciler ticks every two minutes, a locked
round is followed by the next. *Transition*: heartbeat every two minutes, a supervisor restarts processes, locks expire,
transactions land, drawings end. *Settlement*: both processes tick every two minutes and their awaits return, Megapot concludes and posts
its drawings; neither backfill nor transition is owed, so the healer alone must do. *Ingestion*: the cron process polls and reconciles, the queue runs
ticket jobs; no webhook is owed, so the backup indexer alone must do. *Storefront*, *BaseVault*: safety only, nobody is obliged
to buy or to administer. Faults are bounded in number, never in place.

## 5. Proofs

All for every value of the constants (any number of tickets, wallets, processes, any timing).

**`PayoutVouchersProofs`**: `TypeCorrect` without assumptions. `PaidAtMostOnce`, `ExpiredRowsNeverLand`, `PaidWasPaid`, `NothingStranded`
and `NeverOverpaid` under `Environmental == SerialRequests /\ TimingMargins`, and under the same `LedgerImplemented`: every
payout run is one of `PayoutLedger`. None of the safety properties is
inductive: that an expired row never lands depends on what the *request* and the *tick's snapshot* know.
`IInv` therefore has six parts: `RequestInv` (what each stage of a request implies for its row),
`RowInv` (status against landing and ceiling), `TicketInv`, `SerialInv` (one busy claim per wallet), `SnapInv` (what a row read
at the start of a tick still says later) and `TickInv` (the tick's times). Two lemmas carry the argument:
`MatchIsOwn`, a landed transaction that matches a row by wallet, amount and time is the row's own; and
`ReleaseIsSafe`, a row past its grace or its ceiling plus buffer has no voucher that could land. Each action
preserves `IInv` by its own lemma. For the refinement, every action but `Land` leaves the ledger as it is, and `Land` is the ledger's payout of the
voucher's tickets: the same invariant says that they are credited and none was paid. That what a wallet has received equals what its paid tickets won
needs sums over sets, which the module proves by induction over finite sets from their well-founded strict subset ordering: a sum is what its
unfolding says, a sum over a disjoint union is the sum of both.

**`EpochTransitionProofs`**: `TypeCorrect` and `NeverAhead` in *every* environment. The strengthening is small: a round
is due only while another can follow (`DueInv`), and no process holds a round Megapot has not opened (`GotInv`), so neither
does a resume in flight. `OneAtATime`, from `RedisKeeps` alone, by `HolderInv`: who is between `SET NX` and `DEL` is
the one Redis names; `CatchHolds` shows that no error carries a process past the lock. The lock's expiry does not break it because
the model renews it where the code does (in the wait loop) and takes each single call to be shorter than 600 s; that is the
assumption to question. `PauseIsTimely` and `ResumeIsComing` hold in the environment `Orderly`: transitions run to their end, transactions land in time, due-checks
are fresh, Redis keeps its data, and *one* process boots with `startSync`. `RolloverInv` says what a process may count on at each
stage (`Busy`): from the lock on it is the only one at work (`Alone`), the cached round is the one it read and is due, the pause in flight is that round's
(`FlightInv`), and after the resume was sent the program runs, or will run, the round this process is about to cache (`EpochInv`). The last hypothesis is
no convenience: the boot catch-up compares an epoch it read earlier, and TLC finds a violation of `PausedOnlyAround` as soon as two servers restart at once, the second one
acting on what it read before the first one resumed.

**`RelayOrdersProofs`**: `TypeCorrect` in every environment; `OneAtATime`, `FinishedForGood`, `SuccessMeansAll` and `NftsWereBought` under
`FreshStatus` *alone*; `BuysOnce` for an order that fits in one chunk in *every* environment, and for a larger one under `StableOrder`. Chunks take 15
tickets, and the storefront sells more than that at once, so that the hypothesis is one a reader has to weigh; what happens without it is
in section 6. None of the theorems asks when a transaction is mined or how the rounds turn. `NftsWereBought` says in any order of rows what the dealing by
position leaves true: a ticket's NFT comes from a purchase whose chunk held the ticket, and no two tickets share one.
The invariant comes in layers, and each theorem uses as few as it can: `ShapeInv` (what each stage's locals are),
`LockInv` (who works on an order whose status is relaying), `WorkInv` (what a job has concluded about the tickets it lists), `PaidInv` (what every receipt and every
stamp goes back to) and `ChunkInv`, which carries the argument about retries. With rows in insertion
order the tickets that lack an NFT are cut into the same consecutive blocks by every attempt, since blocks are stamped whole, so that every chunk
ever planned, by any job at any time, is one of these blocks (`OrderedChunk`), and with one chunk there is but one block (`OnlyChunk`); two chunks that share a ticket are the same
chunk and have the same id (`ChunksRepeat`), and the vault lets an id through once. Without either the blocks differ between attempts, which is how a ticket is bought twice.

**`SettlementProofs`**: `TypeCorrect`, `GradesAreRight` and `GradesAreKept` in every environment, `WatermarksAreComplete` under
`OrdersInTime` (which the invariant carries as a hypothesis). What a process holds was read long before it is used, so the invariant must say what the locals are
worth *whatever the other one did since* (`Good`): the tickets of a page entered the drawing being graded; a page that was not full
still holds all that is left of the drawing; before the watermark nothing is left. That the grade equals what the vault receives
(`GradeRight`) rests on `ShareRounds`, one fact about integer division.

**`IngestionProofs`**: `TypeCorrect`, `OrdersMatch` and `NothingIsDropped` in every environment and for every kind of transaction. `OrdersMatch` says that the
order of a signature, over all its rows, holds each event of its log exactly once, never more than was paid for, and is of one buyer and drawing; not
that it holds all that was paid for, which a cut log prevents (section 6). `SigOK` relates the rows and jobs of one
signature: whoever is done has left a trace of it, which is why BullMQ may forget completed jobs; `Known`, once true of a signature,
stays true (`OneSig`), which is why a mark that comes after row and job is safe although a request reads `seen` three awaits earlier.

**`HarvestProofs`**: `TypeCorrect` in every environment; `OneBatch` and `WatermarkRight` from `LockHolds` alone; `Credited`, `NothingLost`,
`Quarantined` and `OneClaim` under `Sane == LockHolds /\ TxSettles /\ RpcReliable`. The invariant is built in three layers, one per environment.
`TInv`: types, and that a stage which works on a batch has one. `LInv`: whoever is in a tick holds the lock, at most one batch is
submitted, and a winner on a batch is on that one; no stage that builds the next batch coexists with a submitted one. `MInv`: the
tickets of a batch in flight were claimed together or not at all, at most one of its transactions is neither unsent nor dropped, and what each stage
has concluded about them is so (`MStage`: a batch to be released has nothing claimed, one to be finalized has everything claimed). Every action
preserves all three (`Kept`), by its own lemma. The last layer shows where the assumptions bite: `Recover` needs `TxSettles` to conclude
from an empty mempool, and `RpcReliable` to conclude from a throw, that the batch has landed.

**`StorefrontProofs`**: of the program alone, `TypeCorrect`, `EpochsHaveOneBounds` and `RolesAreHandedOver`. Bounds change only while the program is paused, but
the pause does not say that the epoch has no sales yet; the invariant therefore says that while the program sells, what was sold in the current epoch
was sold under the current bounds, and that no sale is of a later epoch. Of browser and program together, `BuysByInstruction` (the composition
implements the program: a purchase with the page's recipient is one the program allows for), `BoundsHoldWhileBought`, `StorefrontTypes`, `PurchasesAreFilledInOrder` and
`SuccessesAreExact`, for any basket, transaction size and number of purchases, without assumptions on the environment. `PurchaseInv` says of each attempt
that the transactions that have landed are `1..n`, with `n` the number confirmed while the attempt is being sent or its last one is in limbo (`AttemptOK`), and
of each sale which slice of which basket it is (`SaleOK`). The rest is arithmetic: `ChunksCover` (rounding up gives enough transactions and no
empty one), `ChunksJoin` (slices follow one another), and what the community modules' `FlattenSeq` and `MapThenSumSet` return, by induction over naturals
and over finite sets.

**`BaseVaultProofs`**: `TypeCorrect`, `AllowanceFollows` and `EachOrderOnce` for any number of Megapots, tokens and ids.

**Induction.** The library's induction theorems take an operator, which no backend can instantiate. Where a sum or a joined sequence has to be computed the modules
use well-foundedness instead (`WFMin`): were the claim false of some number or finite set, it would be false of a smallest one, and the definition, unfolded
once there, contradicts that. This reaches recursive functions and folds.

**Only model-checked**: the liveness properties (`EveryVoucherSettles`, `LandedIsRecorded`, `EveryWinnerHarvested`, `EveryPurchaseRelayed`,
`EveryOrderEnds`, `EveryTicketGraded`, `EpochCatchesUp`, `CacheHeals`): the prover has no rule
for weak fairness, which needs `ENABLED`. `NftIsOwn`, which needs `StableOrder`, is checked and not proved: `NftsWereBought` is the part of it that
holds whatever queries return. The type invariants of relay, ingestion, storefront and harvest, and
`BoughtOnce` and `RolesHandedOver`, are proved and part of no run, to leave the runs to the other properties; they hold in the instances above.

## 6. Disagreements between code and comments

`PayoutRaceMoney` ends in a counterexample to what `payoutConfirmer.ts` 22-24 says must never happen (`PROJECT.json`, `findings`). More
appear when constants of a passing run are changed, one property each:

- `PayoutVouchers` (`PayoutLive.cfg`), `ExpiredNeverLands`: `RouteBudget = 3` (a slow request is released under its feet and hands its
  voucher out), `TickBudget = 3` (a slow tick acts on an unstamped row it read before), `RpcLag = 2`. The first two break `NoTicketPaidTwice` as well, and so do `SweepBudget = 3`, `TickBudget = 3`, `UnsignedGrace = 4`,
  `LastRequest = 6`, `MaxTime = 9` together (a claim lands between sweep and height read).
- `HarvestPipeline`: `TxSettles = FALSE` breaks `NoLostHarvest` (a transaction that is merely slow is sent again and reverts after the first
  landed, so winnings pulled have no batch any more; `harvestWorker.ts` 231 infers the loss from a gas estimate); `RpcReliable = FALSE` breaks
  `CreditedWasClaimed` (the recovery takes every throw for "already claimed") and `QuarantineIsRight` (the bisection takes every throw for
  a revert); `LockHolds = FALSE` breaks `NoLostHarvest`. With `Unclaimable = {t2, t3}` the
  quarantine fills the page of two and the third winner is never harvested, if the database returns those two each time: TLC finds it once
  `EveryWinnerHarvested` is stated without its condition, although `harvestWorker.ts` 93 calls the page's headroom enough to fill a chunk.
- `RelayOrders`: `StableOrder = FALSE` breaks `NftIsOwn` (NFT ids are dealt by position, so that two tickets of one purchase may have each
  other's) and, for orders of more than one chunk, `NoTicketBoughtTwice` (a ticket whose hash was not stored is regrouped and bought again under a
  new chunk id). `NftWasBought` holds even so; it takes `FreshStatus = FALSE` on top to break it, as it breaks `SuccessIsComplete`.
  `fulfillEpoch` has no property: it is the round read at the gate (`baseRelayWorker.ts` 320), and a rollover between two chunks, or between a run that was
  cut short and the one that finishes the order, puts tickets of two drawings under one `fulfillEpoch`, of which settlement grades
  some against the wrong drawing. Nothing in the code rules it out; its pause around a rollover stops new sales, not a relay at work.
- `EpochTransition`, `PausedOnlyAround`: `CleanStops = FALSE` (a crash between the resume landing and the caching of the round makes the
  next process pause the new drawing, and `resume_protocol` wants a larger epoch, so it stays paused to its end; the comment at
  `megapotService.ts` 693-695 says the due-check prevents a mid-epoch pause), `FreshReads = FALSE` (the same by an overtaken due-check),
  `TxSettles = FALSE` (the same by a pause that lands late). `SomeoneResumes`: `CleanStops = FALSE` (a crash before the resume, then a
  restart, leaves the program paused for a drawing). Two `Servers` break `PausedOnlyAround` even when all four facts hold, should the API be
run in two copies. `OneTransition`: `RedisKeeps = FALSE`.
- `Settlement`: `OrdersInTime = FALSE` breaks `WatermarkIsComplete` (an order that becomes SUCCESS behind the last page is never graded, though
  `settlementWorker.ts` 33-34 says the watermark is set only after every ticket left DRAW_PENDING). `NoGaps`, the premise of the
  backfill ("Since the DB has no gaps", `megapotService.ts` 495), is false after any transition that stored its drawing before the
  backfill came to the older ones; only the healer closes the gap, and only for drawings with tickets. A drawing stored with an
  empty table is refused for ever, though `settlementWorker.ts` 142 says that "it retries every tick": a retry reads the same row.
- `Ingestion`: `NodeServes = FALSE` or `BurstsFit = FALSE` breaks `EveryPurchaseRelayed`: the poll's cursor passes what the node did not serve or the
  poll did not list, while `webhookIngestWorker.ts` 63-65 relies on the poll. So does `AttemptsSuffice = FALSE`: a ticket job that failed
  for good before its order was created is kept (`queues.ts` 20) and its id swallows whatever the poll or a webhook adds later.
  `RefusedIsFlagged` is false: a transaction whose events are missing or mixed and that came by the indexer has no inbox row to flag, and one that came by webhook
  may be flagged before `webhookIngestWorker.ts` 98 writes PROCESSED over it. `EveryPurchaseRelayed` is about what a log shows. A log that was cut
  after the first of several events gives an order that is short of tickets that were paid for; `ticketWorker.ts` 50 refuses a log with none only.
  A log cut before the instruction line is passed over as no purchase. And a transaction with purchases of two buyers, which two signers can
  make although `ticketWorker.ts` 62-64 calls it excluded by construction, is refused as a whole: none of the two gets an order.

By reading, without a run: `Home.tsx` 122 passes the program's `admin` as the fee's recipient, while the comment in `buyTickets.ts` 58-59 says
it is derived from the on-chain `fee_recipient`; with the two apart every purchase is rejected. `constants.ts` 46-47 says that a page that quotes
too little makes transactions revert; the program charges its own rates and takes no quote, so the buyer just pays more. After a purchase cut
short (`docs/partner-integration-handoff.md` 307-310 calls it correct but confusing) the basket stays whole, and a second press buys its first
tickets again. Pointing the Base vault at another Megapot strands the unclaimed tickets of the old one until it is pointed back.

## 7. Not modelled

- *Vault monitor and balance cache*: a number read as a circuit breaker; its verdict is a nondeterministic choice in `RelayOrders`.
- *Read-only routes, process plumbing*: no protocol state.
- *Rest of the frontend*: views, layout and the claim page; landing a voucher is `Land` in `PayoutVouchers`.
- *Scripts, mock server; vendored libraries and generated code* (OpenZeppelin, forge-std, their template generators, ABIs and two copies of the program's
  IDL types).

The code modelled here is the part that decides; much of the rest of the repository's lines are presentational components, type declarations generated
from the IDL, operator scripts and the vendored libraries' own generators, for which a specification would have nothing to say. The share of lines covered is
therefore small, although every stateful service of the backend and both contracts are modelled.

Within modelled components: amounts beyond what distinguishes vouchers and grades; wording of errors and alerts; the row state FAILED of
`PayoutClaim`, which no code writes; `GET /summary` and the other reads; the relay catch block's `already_processed` and paused
branches, reachable only through a simulation that a fixed gas limit skips; the base confirmer's own tick, whose status
`BASE_SUBMITTED` no code writes any more; the drawing's ball bounds in `EpochTransition`, which travel with the resume; pauses by an operator;
in `Settlement`, ticks that would find nothing to do and the harvest's own path; in `Ingestion`, the webhook's authorization header; in `SolanaProgram`, rent, bumps, checked
arithmetic far below 2^64 and events other than the purchase's; in `Storefront`, balance checks before the wallet opens; in `BaseVault`, events and views.
