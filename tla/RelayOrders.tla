----------------------------- MODULE RelayOrders -----------------------------
(***************************************************************************)
(* One paid order on its way to Base (workers/baseRelayWorker.ts): jobs of *)
(* the relay queue take the order, cut its tickets into chunks and buy one *)
(* chunk after the other through the vault, each with an id derived from   *)
(* the set of its tickets and a wait for its receipt.  The vault refuses   *)
(* an id it has already fulfilled.  The reconciler (cron/reconciler.ts)    *)
(* resets orders left in PROCESSING and re-queues deferred ones.           *)
(*                                                                         *)
(* A job for the order may arrive whenever its status is relayable: the    *)
(* first job, BullMQ's retries and the reconciler's re-enqueues overlap.   *)
(* StableOrder, TxSettles and FreshStatus are facts about the environment; *)
(* the code enforces none of them.                                         *)
(***************************************************************************)
EXTENDS Naturals, FiniteSets

CONSTANTS
    Tickets,     \* the order's tickets, numbered as they were inserted
    Jobs,        \* worker slots that may hold a job of this order
    Batches,     \* RelayBatch ids; a batch is broadcast at most once
    NoBatch,     \* relayBatchId = null
    NoNft,       \* megapotNftId = null
    ChunkSize,   \* config.relay.baseTicketChunkSize
    MaxDrawing,  \* bound: Megapot's drawings are 1..MaxDrawing
    MaxFaults,   \* bound: crashes, failed calls, lost and slow transactions
    StableOrder, \* environment: queries return the tickets in insertion order
    TxSettles,   \* environment: what is mined is mined within RECEIPT_TIMEOUT_MS
    FreshStatus  \* environment: a job at the gate or the vault check writes a
                 \* status only over one it could have read

ASSUME RelayConstants ==
    /\ Tickets \subseteq Nat /\ IsFiniteSet(Tickets)
    /\ NoBatch \notin Batches /\ NoNft \notin Batches \X Tickets
    /\ ChunkSize \in Nat \ {0} /\ MaxDrawing \in Nat \ {0} /\ MaxFaults \in Nat
    /\ {StableOrder, TxSettles, FreshStatus} \subseteq BOOLEAN

VARIABLES
    status,        \* RelayOrder.status
    fulfillEpoch,  \* RelayOrder.fulfillEpoch, 0 for null
    ticket,        \* Ticket rows: megapotNftId and relayBatchId
    batch,         \* RelayBatch rows: status and whether txHash is stored
    job,           \* each slot: where its job stands, and its locals
    tx,            \* the buyTickets transaction of each batch
    drawing,       \* Megapot's current drawing
    round,         \* the round cached in Redis
    locked,        \* the cached round is locked or the protocol is paused
    faults         \* faults so far

vars == <<status, fulfillEpoch, ticket, batch, job, tx, drawing, round, locked, faults>>
order == <<status, fulfillEpoch>>
rows == <<ticket, batch>>
megapot == <<drawing, round, locked>>

(* Mutant: finished orders too. *)
RelayableAgain == {"QUEUED", "RETRY_PENDING", "DEFERRED", "SUCCESS"}

Relayable == {"QUEUED", "RETRY_PENDING", "DEFERRED"}
Asleep == [pc |-> "idle", round |-> 0, stuck |-> {}, todo |-> {},
           chunk |-> {}, batch |-> NoBatch]
NoSend == [chunk |-> {}, state |-> "none"]

Init ==
    /\ status = "QUEUED" /\ fulfillEpoch = 0
    /\ ticket = [t \in Tickets |-> [nft |-> NoNft, batch |-> NoBatch]]
    /\ batch = [b \in Batches |-> [status |-> "absent", hash |-> FALSE]]
    /\ job = [j \in Jobs |-> Asleep]
    /\ tx = [b \in Batches |-> NoSend]
    /\ drawing = 1 /\ round = 1 /\ locked = FALSE
    /\ faults = 0

Fault == faults < MaxFaults /\ faults' = faults + 1

(***************************************************************************)
(* Base and Megapot.                                                       *)
(***************************************************************************)
(* The vault's isOrderFulfilled, and the event findExistingFulfillment     *)
(* looks for.                                                              *)
Fulfilled(chunk) == \E b \in Batches : tx[b].state = "mined" /\ tx[b].chunk = chunk
Fulfiller(chunk) == CHOOSE b \in Batches : tx[b].state = "mined" /\ tx[b].chunk = chunk
Purchases(t) == {b \in Batches : tx[b].state = "mined" /\ t \in tx[b].chunk}

(* Mutant: the vault forgets the CHECK. *)
MineUnguarded(b) ==
    /\ tx[b].state = "mempool"
    /\ tx' = [tx EXCEPT ![b].state = "mined"]
    /\ UNCHANGED <<order, rows, job, megapot, faults>>

Mine(b) ==
    /\ tx[b].state = "mempool"
    /\ tx' = [tx EXCEPT ![b].state = IF Fulfilled(tx[b].chunk) THEN "reverted" ELSE "mined"]
    /\ UNCHANGED <<order, rows, job, megapot, faults>>

(* A transaction is lost, or reverts for a reason of Megapot's.            *)
Spoil(b, how) ==
    /\ Fault
    /\ tx[b].state = "mempool"
    /\ tx' = [tx EXCEPT ![b].state = how]
    /\ UNCHANGED <<order, rows, job, megapot>>

(* The round locks and the protocol is paused before its drawing ends;     *)
(* the transition caches the next round and resumes.                       *)
LockRound ==
    /\ ~locked /\ drawing < MaxDrawing
    /\ locked' = TRUE
    /\ UNCHANGED <<order, rows, job, tx, drawing, round, faults>>

Rollover ==
    /\ locked /\ round = drawing
    /\ drawing' = drawing + 1
    /\ UNCHANGED <<order, rows, job, tx, round, locked, faults>>

NewRound ==
    /\ round < drawing
    /\ round' = drawing /\ locked' = FALSE
    /\ UNCHANGED <<order, rows, job, tx, drawing, faults>>

(***************************************************************************)
(* The job: read, gate, vault check, optimistic lock.                      *)
(***************************************************************************)
At(j, stage) == job[j].pc = stage
Goto(j, stage) == job' = [job EXCEPT ![j].pc = stage]
Rest(j) == job' = [job EXCEPT ![j] = Asleep]
Working(j) == job[j].pc \notin {"idle", "gate", "vault"}

Take(j) ==
    /\ At(j, "idle")
    /\ status \in Relayable
    /\ Goto(j, "gate")
    /\ UNCHANGED <<order, rows, tx, megapot, faults>>

(* The writes of the gate and of the vault check name the hash alone: they *)
(* overwrite whatever status the order has by then.                        *)
Defer(j) ==
    /\ At(j, "gate") /\ locked
    /\ FreshStatus => status \in Relayable
    /\ status' = "DEFERRED"
    /\ Rest(j)
    /\ UNCHANGED <<fulfillEpoch, rows, tx, megapot, faults>>

PassGate(j) ==
    /\ At(j, "gate") /\ ~locked
    /\ job' = [job EXCEPT ![j].pc = "vault", ![j].round = round]
    /\ UNCHANGED <<order, rows, tx, megapot, faults>>

Underfunded(j) ==
    /\ Fault
    /\ At(j, "vault")
    /\ FreshStatus => status \in Relayable
    /\ status' = "RETRY_PENDING"
    /\ Rest(j)
    /\ UNCHANGED <<fulfillEpoch, rows, tx, megapot>>

(* Mutant: the lock does not look at the status. *)
LockAlways(j) ==
    /\ At(j, "vault")
    /\ status' = "PROCESSING" /\ Goto(j, "list")
    /\ UNCHANGED <<fulfillEpoch, rows, tx, megapot, faults>>

Lock(j) ==
    /\ At(j, "vault")
    /\ IF status \in Relayable
       THEN status' = "PROCESSING" /\ Goto(j, "list")
       ELSE UNCHANGED status /\ Rest(j)
    /\ UNCHANGED <<fulfillEpoch, rows, tx, megapot, faults>>

(***************************************************************************)
(* Settling a batch: finalizeChunkSuccess and releaseChunk, each one       *)
(* database transaction.  An NFT is named by the batch whose transaction   *)
(* minted it and the ticket whose numbers it carries.                      *)
(***************************************************************************)
(* The event lists NFT ids in the order of the purchase; they are dealt    *)
(* out by position to tickets in the order of a later query.               *)
Stamps(b, ids) ==
    {f \in [ids -> tx[b].chunk] :
        /\ \A t, u \in ids : f[t] = f[u] => t = u
        /\ StableOrder => \A t \in ids : f[t] = t}

Finalize(b, ids, by, stamp) ==
    /\ ticket' = [t \in Tickets |-> IF t \in ids
                                    THEN [ticket[t] EXCEPT !.nft = <<by, stamp[t]>>]
                                    ELSE ticket[t]]
    /\ batch' = [batch EXCEPT ![b].status = "CONFIRMED"]

Release(b, ids) ==
    /\ ticket' = [t \in Tickets |-> IF t \in ids
                                    THEN [ticket[t] EXCEPT !.batch = NoBatch]
                                    ELSE ticket[t]]
    /\ batch' = [batch EXCEPT ![b].status = "FAILED"]

(* resolveInFlightBatches: the list of SUBMITTED batches with their        *)
(* tickets, read once.                                                     *)
ListStuck(j) ==
    /\ At(j, "list")
    /\ job' = [job EXCEPT ![j].pc = "resolve", ![j].stuck =
                  {[batch |-> b, ids |-> {t \in Tickets : ticket[t].batch = b},
                    hash |-> batch[b].hash] :
                       b \in {c \in Batches : batch[c].status = "SUBMITTED"}}]
    /\ UNCHANGED <<order, rows, tx, megapot, faults>>

ReleaseUnsent(j, s) ==
    /\ At(j, "resolve") /\ s \in job[j].stuck /\ ~s.hash
    /\ Release(s.batch, s.ids)
    /\ job' = [job EXCEPT ![j].stuck = @ \ {s}]
    /\ UNCHANGED <<order, tx, megapot, faults>>

(* The batches whose receipt the job waits for: a stuck one with a hash,   *)
(* or its own.                                                             *)
Watched(j) ==
    IF At(j, "await")
    THEN {[batch |-> job[j].batch, ids |-> job[j].chunk, hash |-> TRUE]}
    ELSE {s \in job[j].stuck : s.hash /\ At(j, "resolve")}

Onward(j, s) ==
    IF At(j, "await")
    THEN job' = [job EXCEPT ![j].pc = "chunk", ![j].todo = @ \ s.ids,
                            ![j].chunk = {}, ![j].batch = NoBatch]
    ELSE job' = [job EXCEPT ![j].stuck = @ \ {s}]

(* Mutant: a chunk that failed does not end the run. *)
SetbackSwallowed(j, s) ==
    IF At(j, "await")
    THEN job' = [job EXCEPT ![j].pc = "chunk", ![j].todo = @ \ s.ids,
                            ![j].chunk = {}, ![j].batch = NoBatch]
    ELSE job' = [job EXCEPT ![j].stuck = @ \ {s}]

(* A stuck batch is released and the next one looked at; the job's own     *)
(* chunk throws.                                                           *)
Setback(j, s) ==
    IF At(j, "await")
    THEN Goto(j, "throw")
    ELSE job' = [job EXCEPT ![j].stuck = @ \ {s}]

(* The receipt of a success.  The job's own chunk still is in the order it *)
(* was sent in.                                                            *)
Confirm(j, s, stamp) ==
    /\ s \in Watched(j)
    /\ tx[s.batch].state = "mined"
    /\ stamp \in Stamps(s.batch, s.ids)
    /\ At(j, "await") => \A t \in s.ids : stamp[t] = t
    /\ Finalize(s.batch, s.ids, s.batch, stamp)
    /\ Onward(j, s)
    /\ UNCHANGED <<order, tx, megapot, faults>>

(* handleChunkRevert: the re-simulation says the chunk's id is fulfilled   *)
(* and the event of its purchase is found.                                 *)
Recoverable(s) ==
    /\ tx[s.batch].state = "reverted"
    /\ Fulfilled(tx[s.batch].chunk) /\ Fulfilled(s.ids)

(* Mutant: the tickets are stamped with the reverted transaction's NFTs.   *)
RecoverOwn(j, s, stamp) ==
    /\ s \in Watched(j)
    /\ Recoverable(s)
    /\ stamp \in Stamps(Fulfiller(s.ids), s.ids)
    /\ Finalize(s.batch, s.ids, s.batch, stamp)
    /\ Onward(j, s)
    /\ UNCHANGED <<order, tx, megapot, faults>>

Recover(j, s, stamp) ==
    /\ s \in Watched(j)
    /\ Recoverable(s)
    /\ stamp \in Stamps(Fulfiller(s.ids), s.ids)
    /\ Finalize(s.batch, s.ids, Fulfiller(s.ids), stamp)
    /\ Onward(j, s)
    /\ UNCHANGED <<order, tx, megapot, faults>>

(* Any other revert, and one whose reason or event could not be fetched.   *)
GiveUpReverted(j, s) ==
    /\ s \in Watched(j)
    /\ tx[s.batch].state = "reverted"
    /\ IF Recoverable(s) THEN Fault ELSE UNCHANGED faults
    /\ Release(s.batch, s.ids)
    /\ Setback(j, s)
    /\ UNCHANGED <<order, tx, megapot>>

(* waitForReceipt returns null.                                            *)
GiveUpWaiting(j, s) ==
    /\ s \in Watched(j)
    /\ \/ tx[s.batch].state = "dropped" /\ UNCHANGED faults
       \/ tx[s.batch].state = "mempool" /\ ~TxSettles /\ Fault
    /\ Release(s.batch, s.ids)
    /\ Setback(j, s)
    /\ UNCHANGED <<order, tx, megapot>>

(***************************************************************************)
(* The chunk loop.                                                         *)
(***************************************************************************)

Plan(j) ==
    /\ At(j, "resolve") /\ job[j].stuck = {}
    /\ job' = [job EXCEPT ![j].pc = "chunk",
                  ![j].todo = {t \in Tickets : ticket[t].nft = NoNft /\ ticket[t].batch = NoBatch}]
    /\ UNCHANGED <<order, rows, tx, megapot, faults>>

(* The next chunk of a list that has no ORDER BY.                          *)
IsChunk(c, todo) ==
    /\ c \subseteq todo /\ c # {}
    /\ Cardinality(c) <= ChunkSize
    /\ Cardinality(c) < ChunkSize => c = todo
    /\ StableOrder => \A t \in c, u \in todo \ c : t < u

CreateBatch(j, b, c) ==
    /\ At(j, "chunk")
    /\ IsChunk(c, job[j].todo)
    /\ batch[b].status = "absent"
    /\ batch' = [batch EXCEPT ![b].status = "SUBMITTED"]
    /\ job' = [job EXCEPT ![j].pc = "bind", ![j].chunk = c, ![j].batch = b]
    /\ UNCHANGED <<order, ticket, tx, megapot, faults>>

Bind(j) ==
    /\ At(j, "bind")
    /\ ticket' = [t \in Tickets |-> IF t \in job[j].chunk
                                    THEN [ticket[t] EXCEPT !.batch = job[j].batch]
                                    ELSE ticket[t]]
    /\ Goto(j, "send")
    /\ UNCHANGED <<order, batch, tx, megapot, faults>>

Broadcast(j) ==
    tx' = [tx EXCEPT ![job[j].batch] = [chunk |-> job[j].chunk, state |-> "mempool"]]

Send(j) ==
    /\ At(j, "send")
    /\ Broadcast(j)
    /\ Goto(j, "store")
    /\ UNCHANGED <<order, rows, megapot, faults>>

(* The broadcast throws: the transaction may have left all the same.       *)
SendThrows(j) ==
    /\ Fault
    /\ At(j, "send")
    /\ Broadcast(j) \/ UNCHANGED tx
    /\ Goto(j, "throw")
    /\ UNCHANGED <<order, rows, megapot>>

(* A node refuses it with an error the patterns call permanent.            *)
SendRefused(j) ==
    /\ Fault
    /\ At(j, "send")
    /\ Goto(j, "refused")
    /\ UNCHANGED <<order, rows, tx, megapot>>

Store(j) ==
    /\ At(j, "store")
    /\ batch' = [batch EXCEPT ![job[j].batch].hash = TRUE]
    /\ Goto(j, "await")
    /\ UNCHANGED <<order, ticket, tx, megapot, faults>>

(* The last write of a run, unconditional; the round is the one the gate   *)
(* read.                                                                   *)
Done(j) ==
    /\ At(j, "chunk") /\ job[j].todo = {}
    /\ status' = "SUCCESS" /\ fulfillEpoch' = job[j].round
    /\ Rest(j)
    /\ UNCHANGED <<rows, tx, megapot, faults>>

(* The catch block. *)
Fail(j) ==
    /\ job[j].pc \in {"throw", "refused"}
    /\ status' = IF At(j, "refused") THEN "FAILED_PERMANENT" ELSE "RETRY_PENDING"
    /\ Rest(j)
    /\ UNCHANGED <<fulfillEpoch, rows, tx, megapot, faults>>

Crash(j) ==
    /\ Fault
    /\ ~At(j, "idle")
    /\ Rest(j)
    /\ UNCHANGED <<order, rows, tx, megapot>>

(***************************************************************************)
(* The reconciler.  processingTimeoutMs is longer than any job's run.      *)
(***************************************************************************)
(* Mutant: only rows that recorded a batch are reset. *)
ResetStuckBatched ==
    /\ status = "PROCESSING" /\ \A j \in Jobs : ~Working(j)
    /\ \E b \in Batches : batch[b].status = "SUBMITTED"
    /\ status' = "RETRY_PENDING"
    /\ UNCHANGED <<fulfillEpoch, rows, job, tx, megapot, faults>>

ResetStuck ==
    /\ status = "PROCESSING" /\ \A j \in Jobs : ~Working(j)
    /\ status' = "RETRY_PENDING"
    /\ UNCHANGED <<fulfillEpoch, rows, job, tx, megapot, faults>>

Requeue ==
    /\ status = "DEFERRED" /\ ~locked
    /\ status' = "QUEUED"
    /\ UNCHANGED <<fulfillEpoch, rows, job, tx, megapot, faults>>

-----------------------------------------------------------------------------
Run(j) ==
    \/ Take(j) \/ Defer(j) \/ PassGate(j) \/ Lock(j) \/ ListStuck(j)
    \/ Plan(j) \/ Bind(j) \/ Send(j) \/ Store(j) \/ Done(j) \/ Fail(j)
    \/ \E s \in job[j].stuck : ReleaseUnsent(j, s)
    \/ \E b \in Batches, c \in SUBSET Tickets : CreateBatch(j, b, c)
    \/ \E s \in Watched(j) :
         \/ GiveUpReverted(j, s) \/ GiveUpWaiting(j, s)
         \/ \E f \in Stamps(s.batch, s.ids) : Confirm(j, s, f)
         \/ Recoverable(s) /\ \E f \in Stamps(Fulfiller(s.ids), s.ids) : Recover(j, s, f)

Misfortune(j) == Underfunded(j) \/ SendThrows(j) \/ SendRefused(j) \/ Crash(j)

Reconciler == ResetStuck \/ Requeue

Environment ==
    \/ LockRound \/ Rollover \/ NewRound
    \/ \E b \in Batches : Mine(b) \/ Spoil(b, "dropped") \/ Spoil(b, "reverted")

Next == Environment \/ Reconciler \/ \E j \in Jobs : Run(j) \/ Misfortune(j)

Spec == Init /\ [][Next]_vars

(* Queue workers keep running jobs, awaits return, the reconciler ticks    *)
(* every two minutes, blocks are mined and a locked round is followed by   *)
(* the next one.                                                           *)
LiveSpec ==
    /\ Spec
    /\ \A j \in Jobs : WF_vars(Run(j))
    /\ WF_vars(Reconciler)
    /\ \A b \in Batches : WF_vars(Mine(b))
    /\ WF_vars(Rollover) /\ WF_vars(NewRound)

-----------------------------------------------------------------------------
Statuses == {"QUEUED", "RETRY_PENDING", "DEFERRED", "PROCESSING", "SUCCESS",
             "FAILED_PERMANENT"}
Stages == {"idle", "gate", "vault", "list", "resolve", "chunk", "bind", "send",
           "store", "await", "throw", "refused"}
TicketRows == [nft : {NoNft} \cup (Batches \X Tickets), batch : Batches \cup {NoBatch}]
BatchRows == [status : {"absent", "SUBMITTED", "CONFIRMED", "FAILED"}, hash : BOOLEAN]
StuckRows == [batch : Batches, ids : SUBSET Tickets, hash : BOOLEAN]
Locals == [pc : Stages, round : 0..MaxDrawing, stuck : SUBSET StuckRows,
           todo : SUBSET Tickets, chunk : SUBSET Tickets, batch : Batches \cup {NoBatch}]
Sends == [chunk : SUBSET Tickets,
          state : {"none", "mempool", "mined", "reverted", "dropped"}]

(* Rows, job locals and transactions keep their shape (schema.prisma       *)
(* RelayOrder, Ticket and RelayBatch).                                     *)
TypeOK ==
    /\ status \in Statuses /\ fulfillEpoch \in 0..MaxDrawing
    /\ ticket \in [Tickets -> TicketRows]
    /\ batch \in [Batches -> BatchRows]
    /\ job \in [Jobs -> Locals]
    /\ tx \in [Batches -> Sends]
    /\ drawing \in 1..MaxDrawing /\ round \in 1..MaxDrawing /\ locked \in BOOLEAN
    /\ faults \in 0..MaxFaults

(* The buyer's USDC buys each ticket once, whatever is retried: chunks     *)
(* released after a timeout or without a hash may have landed.             *)
NoTicketBoughtTwice == \A t \in Tickets : Cardinality(Purchases(t)) <= 1

(* finalizeChunkSuccess, handleChunkRevert: whatever is recovered from     *)
(* which receipt, and in whatever order the rows come back, a ticket's     *)
(* megapotNftId was minted by a purchase that paid for it, and no two      *)
(* tickets share one: winnings are harvested by that id.                   *)
NftWasBought ==
    /\ \A t \in Tickets : ticket[t].nft # NoNft => ticket[t].nft[1] \in Purchases(t)
    /\ \A t, u \in Tickets : ticket[t].nft = ticket[u].nft /\ ticket[t].nft # NoNft => t = u

(* A ticket's megapotNftId is an NFT that was bought for it and carries    *)
(* its numbers.                                                            *)
NftIsOwn ==
    \A t \in Tickets : ticket[t].nft # NoNft =>
        /\ ticket[t].nft[2] = t
        /\ ticket[t].nft[1] \in Purchases(t)

(* An order is reported SUCCESS only with every ticket bought and stamped. *)
SuccessIsComplete ==
    status = "SUCCESS" => \A t \in Tickets : ticket[t].nft # NoNft

(* The optimistic lock lets one job at a time work on an order.            *)
OneWorker == \A j, k \in Jobs : Working(j) /\ Working(k) => j = k

(* A finished order stays finished.                                        *)
SuccessIsFinal == [][status = "SUCCESS" => UNCHANGED <<status, fulfillEpoch>>]_vars

(* Through crashes, lost transactions, deferrals and reverts every order   *)
(* ends, with all tickets stamped or refused for good.                     *)
EveryOrderEnds == <>[](status \in {"SUCCESS", "FAILED_PERMANENT"})
=============================================================================
