--------------------------- MODULE HarvestPipeline ---------------------------
(***************************************************************************)
(* The harvest worker (workers/harvestWorker.ts) for one graded epoch: it  *)
(* groups the epoch's winning tickets into HarvestBatch rows, broadcasts   *)
(* one claimWinnings transaction per batch to Base, and marks the tickets  *)
(* CLAIMED_ON_BASE once the transaction is mined.  Several processes may   *)
(* run the worker; a Redis lock with a time to live keeps them apart.      *)
(* Megapot's claim is all or nothing, so a rehearsal (estimateGas) first   *)
(* bisects the ids, and those it rejects are quarantined for an operator.  *)
(*                                                                         *)
(* TxSettles, RpcReliable and LockHolds are the environment under which    *)
(* the worker's deductions are right; the code enforces none of them.      *)
(***************************************************************************)
EXTENDS Naturals, FiniteSets

CONSTANTS
    Tickets,      \* the epoch's winning tickets
    Unclaimable,  \* tickets whose id Megapot will not pay
    NoNft,        \* tickets without a megapotNftId
    Processes,    \* backend processes running the worker
    Batches,      \* HarvestBatch ids
    Nobody,       \* the lock is free
    NoBatch,      \* harvestBatchId = null
    NoTx,         \* txHash = null
    Recovered,    \* txHash = 'UNKNOWN-recovered-see-alert'
    ChunkSize,    \* CHUNK_SIZE
    PageSize,     \* CHUNK_SIZE * 2, the take of findHarvestableTickets
    MaxAttempts,  \* bound: transactions broadcast for one batch
    MaxFaults,    \* bound: throws, crashes and dropped transactions in a run
    TxSettles,    \* environment: a transaction whose hash was not stored is
                  \* mined or gone for good before a tick finds its batch old
    RpcReliable,  \* environment: a rehearsal throws only if it would revert,
                  \* and the recovery's other calls do not throw
    LockHolds     \* environment: a tick ends within LOCK_TTL_SEC

ASSUME HarvestConstants ==
    /\ Unclaimable \subseteq Tickets /\ NoNft \subseteq Tickets
    /\ NoBatch \notin Batches /\ Nobody \notin Processes
    /\ ChunkSize \in Nat \ {0} /\ PageSize \in Nat /\ ChunkSize <= PageSize
    /\ MaxAttempts \in Nat \ {0} /\ MaxFaults \in Nat
    /\ {TxSettles, RpcReliable, LockHolds} \subseteq BOOLEAN

VARIABLES
    ticket,      \* Ticket rows: winStatus and harvestBatchId
    batch,       \* HarvestBatch rows: status and txHash
    aged,        \* batches older than PENDING_TIMEOUT_MS
    quarantine,  \* the Redis set of quarantined tickets
    watermark,   \* ticketsHarvestedAt is set
    lock,        \* the Redis lock
    me,          \* each process's tick: where it stands and its locals
    tx,          \* harvest transactions broadcast to Base
    claimed,     \* tickets whose winnings are in the Base vault
    faults       \* faults so far

vars == <<ticket, batch, aged, quarantine, watermark, lock, me, tx, claimed, faults>>
database == <<ticket, batch, quarantine, watermark>>
base == <<tx, claimed>>

Txs == Batches \X (1..MaxAttempts)
NoSend == [ids |-> {}, state |-> "none"]
Asleep == [pc |-> "idle", batch |-> NoBatch, ids |-> {}, tx |-> NoTx]

Bound(b) == {t \in Tickets : ticket[t].batch = b}
InFlight == {b \in Batches : batch[b].status = "SUBMITTED"}
Harvestable == {t \in Tickets : /\ ticket[t].win = "WON"
                                /\ ticket[t].batch = NoBatch}

Init ==
    /\ ticket = [t \in Tickets |-> [win |-> "WON", batch |-> NoBatch]]
    /\ batch = [b \in Batches |-> [status |-> "absent", tx |-> NoTx]]
    /\ aged = {} /\ quarantine = {} /\ watermark = FALSE
    /\ lock = Nobody
    /\ me = [p \in Processes |-> Asleep]
    /\ tx = [x \in Txs |-> NoSend]
    /\ claimed = {} /\ faults = 0

(***************************************************************************)
(* Base: mempool, blocks, and the vault's claimWinnings.                   *)
(***************************************************************************)
(* An empty id list reverts too (NoTicketsToClaim). *)
Claimable(ids) == ids # {} /\ ids \cap (claimed \cup Unclaimable \cup NoNft) = {}

Mine(x) ==
    /\ \/ tx[x].state = "mempool"
       \/ tx[x].state = "dropped" /\ ~TxSettles
    /\ IF Claimable(tx[x].ids)
       THEN /\ tx' = [tx EXCEPT ![x].state = "mined"]
            /\ claimed' = claimed \cup tx[x].ids
       ELSE /\ tx' = [tx EXCEPT ![x].state = "reverted"]
            /\ UNCHANGED claimed
    /\ UNCHANGED <<database, aged, lock, me, faults>>

Drop(x) ==
    /\ faults < MaxFaults
    /\ tx[x].state = "mempool"
    /\ tx' = [tx EXCEPT ![x].state = "dropped"]
    /\ faults' = faults + 1
    /\ UNCHANGED <<database, aged, lock, me, claimed>>

BatchAges(b) ==
    /\ b \in InFlight \ aged
    /\ aged' = aged \cup {b}
    /\ UNCHANGED <<database, lock, me, base, faults>>

(***************************************************************************)
(* One tick of process p.                                                  *)
(***************************************************************************)
At(p, stage) == me[p].pc = stage
Goto(p, stage) == me' = [me EXCEPT ![p].pc = stage]
GotoWith(p, stage, b, ids, x) ==
    me' = [me EXCEPT ![p] = [pc |-> stage, batch |-> b, ids |-> ids, tx |-> x]]

(* SET NX, then the list of graded epochs not harvested yet. *)
Acquire(p) ==
    /\ At(p, "idle")
    /\ lock = Nobody
    /\ ~watermark
    /\ lock' = p
    /\ Goto(p, "resolve")
    /\ UNCHANGED <<database, aged, base, faults>>

(* The lock's time to live runs out: under LockHolds only after its holder *)
(* died.                                                                   *)
LockExpires ==
    /\ lock # Nobody
    /\ LockHolds => At(lock, "idle")
    /\ lock' = Nobody
    /\ UNCHANGED <<database, aged, me, base, faults>>

(* DEL, whoever holds the lock by now. *)
Unlock(p) ==
    /\ At(p, "unlock")
    /\ lock' = Nobody
    /\ me' = [me EXCEPT ![p] = Asleep]
    /\ UNCHANGED <<database, aged, base, faults>>

(* resolveInFlightBatch: any SUBMITTED batch of the epoch comes first. *)
(* Mutant: a batch without a hash is no reason to wait. *)
FindNoneBroadcast(p) ==
    /\ At(p, "resolve")
    /\ \A b \in InFlight : batch[b].tx = NoTx
    /\ Goto(p, "scan")
    /\ UNCHANGED <<database, aged, lock, base, faults>>

FindNone(p) ==
    /\ At(p, "resolve")
    /\ InFlight = {}
    /\ Goto(p, "scan")
    /\ UNCHANGED <<database, aged, lock, base, faults>>

Settled(b) == \A x \in Txs : x[1] = b => tx[x].state # "mempool"

FindBatch(p, b) ==
    /\ At(p, "resolve")
    /\ b \in InFlight
    /\ IF batch[b].tx # NoTx THEN GotoWith(p, "receipt", b, {}, batch[b].tx)
       ELSE IF b \in aged THEN /\ TxSettles => Settled(b)
                               /\ GotoWith(p, "recover", b, {}, NoTx)
       ELSE Goto(p, "unlock")
    /\ UNCHANGED <<database, aged, lock, base, faults>>

(* Mutant: a failed rehearsal releases the lost batch. *)
RecoverByRelease(p) ==
    /\ At(p, "recover")
    /\ LET ids == Bound(me[p].batch)
       IN GotoWith(p, IF Claimable(ids) THEN "resubmit" ELSE "release",
                   me[p].batch, ids, NoTx)
    /\ UNCHANGED <<database, aged, lock, base, faults>>

(* The rehearsal of a lost batch: a throw is read as "it landed". *)
Recover(p) ==
    /\ At(p, "recover")
    /\ LET ids == Bound(me[p].batch)
       IN \/ Claimable(ids) /\ GotoWith(p, "resubmit", me[p].batch, ids, NoTx)
          \/ /\ Claimable(ids) => ~RpcReliable
             /\ GotoWith(p, "finalize", me[p].batch, {}, Recovered)
    /\ UNCHANGED <<database, aged, lock, base, faults>>

NextTx(b, x) == /\ x[1] = b
                /\ tx[x].state = "none"
                /\ \A n \in 1..(x[2] - 1) : tx[<<b, n>>].state # "none"

Broadcast(p, x, stage) ==
    /\ NextTx(me[p].batch, x)
    /\ tx' = [tx EXCEPT ![x] = [ids |-> me[p].ids, state |-> "mempool"]]
    /\ GotoWith(p, stage, me[p].batch, me[p].ids, x)
    /\ UNCHANGED <<database, aged, lock, claimed, faults>>

Resubmit(p, x) ==
    /\ At(p, "resubmit")
    /\ Claimable(me[p].ids)
    /\ Broadcast(p, x, "restore")

(* The broadcast, or storing its hash, throws inside the recovery. *)
ResubmitThrows(p) ==
    /\ \/ At(p, "resubmit") /\ (~Claimable(me[p].ids) \/ ~RpcReliable)
       \/ At(p, "restore") /\ ~RpcReliable
    /\ GotoWith(p, "finalize", me[p].batch, {}, Recovered)
    /\ UNCHANGED <<database, aged, lock, base, faults>>

StoreTx(p) ==
    /\ me[p].pc \in {"restore", "store"}
    /\ batch' = IF batch[me[p].batch].status = "absent" THEN batch
                ELSE [batch EXCEPT ![me[p].batch].tx = me[p].tx]
    /\ Goto(p, "unlock")
    /\ UNCHANGED <<ticket, quarantine, watermark, aged, lock, base, faults>>

(* The receipt, and for an old batch without one, the mempool. *)
ReadReceipt(p) ==
    /\ At(p, "receipt")
    /\ Goto(p, CASE tx[me[p].tx].state = "mined" -> "finalize"
                 [] tx[me[p].tx].state = "reverted" -> "release"
                 [] OTHER -> IF me[p].batch \in aged THEN "lookup" ELSE "unlock")
    /\ UNCHANGED <<database, aged, lock, base, faults>>

(* Mutants: a vanished transaction is taken for a landed one; a slow one   *)
(* for a vanished one.                                                     *)
LookUpOptimist(p) ==
    /\ At(p, "lookup")
    /\ Goto(p, IF tx[me[p].tx].state = "dropped" THEN "finalize" ELSE "unlock")
    /\ UNCHANGED <<database, aged, lock, base, faults>>
LookUpHasty(p) ==
    /\ At(p, "lookup")
    /\ Goto(p, "release")
    /\ UNCHANGED <<database, aged, lock, base, faults>>

LookUp(p) ==
    /\ At(p, "lookup")
    /\ Goto(p, IF tx[me[p].tx].state = "dropped" THEN "release" ELSE "unlock")
    /\ UNCHANGED <<database, aged, lock, base, faults>>

(* finalizeBatchSuccess: one database transaction. *)
Finalize(p) ==
    /\ At(p, "finalize")
    /\ ticket' = [t \in Tickets |-> IF t \in Bound(me[p].batch)
                                    THEN [ticket[t] EXCEPT !.win = "CLAIMED_ON_BASE"]
                                    ELSE ticket[t]]
    /\ batch' = [batch EXCEPT ![me[p].batch] = [status |-> "CONFIRMED", tx |-> me[p].tx]]
    /\ Goto(p, "unlock")
    /\ UNCHANGED <<quarantine, watermark, aged, lock, base, faults>>

(* Mutant: tickets left on the batch. *)
ReleaseRowOnly(p) ==
    /\ At(p, "release")
    /\ batch' = [batch EXCEPT ![me[p].batch].status = "FAILED"]
    /\ Goto(p, "unlock")
    /\ UNCHANGED <<ticket, quarantine, watermark, aged, lock, base, faults>>

(* releaseBatch: one database transaction. *)
Release(p) ==
    /\ At(p, "release")
    /\ ticket' = [t \in Tickets |-> IF t \in Bound(me[p].batch)
                                    THEN [ticket[t] EXCEPT !.batch = NoBatch]
                                    ELSE ticket[t]]
    /\ batch' = [batch EXCEPT ![me[p].batch].status = "FAILED"]
    /\ Goto(p, "unlock")
    /\ UNCHANGED <<quarantine, watermark, aged, lock, base, faults>>

(* At most n rows of S, in no order the code asks for. *)
Take(n, S) == {R \in SUBSET S : \/ Cardinality(R) = n
                                \/ R = S /\ Cardinality(S) < n}

(* A page of harvestable rows is read first and the quarantined ones are   *)
(* dropped from that page; a chunk of the rest goes on.  A page that holds *)
(* nothing but quarantined rows ends the tick, whatever lies behind it.    *)
Scan(p, ids) ==
    /\ At(p, "scan")
    /\ \E rows \in Take(PageSize, Harvestable \ NoNft) :
          ids \in Take(ChunkSize, rows \ quarantine)
    /\ GotoWith(p, IF ids = {} THEN "owed" ELSE "rehearse", NoBatch, ids, NoTx)
    /\ UNCHANGED <<database, aged, lock, base, faults>>

(* Mutant: the filtered list decides. *)
CheckOwedFiltered(p) ==
    /\ At(p, "owed")
    /\ Goto(p, IF Harvestable \subseteq quarantine \cup NoNft THEN "mark" ELSE "unlock")
    /\ UNCHANGED <<database, aged, lock, base, faults>>

(* Nothing to do: the watermark is due unless a winner is still unbatched, *)
(* quarantined or without an nft id.                                       *)
CheckOwed(p) ==
    /\ At(p, "owed")
    /\ Goto(p, IF Harvestable = {} THEN "mark" ELSE "unlock")
    /\ UNCHANGED <<database, aged, lock, base, faults>>

SetWatermark(p) ==
    /\ At(p, "mark")
    /\ watermark' = TRUE
    /\ Goto(p, "unlock")
    /\ UNCHANGED <<ticket, batch, quarantine, aged, lock, base, faults>>

(* Mutant: no bisection, one bad id condemns the chunk. *)
RehearseWhole(p, good) ==
    /\ At(p, "rehearse")
    /\ good = IF Claimable(me[p].ids) THEN me[p].ids ELSE {}
    /\ quarantine' = quarantine \cup (me[p].ids \ good)
    /\ GotoWith(p, IF good = {} THEN "unlock" ELSE "create", NoBatch, good, NoTx)
    /\ UNCHANGED <<ticket, batch, watermark, aged, lock, base, faults>>

(* bisectClaimable, and SADD of what it rejects. *)
Rehearse(p, good) ==
    /\ At(p, "rehearse")
    /\ LET pass == {t \in me[p].ids : Claimable({t})}
       IN IF RpcReliable THEN good = pass ELSE good \subseteq pass
    /\ quarantine' = quarantine \cup (me[p].ids \ good)
    /\ GotoWith(p, IF good = {} THEN "unlock" ELSE "create", NoBatch, good, NoTx)
    /\ UNCHANGED <<ticket, batch, watermark, aged, lock, base, faults>>

CreateBatch(p, b) ==
    /\ At(p, "create")
    /\ batch[b].status = "absent" /\ \A q \in Processes : me[q].batch # b
    /\ batch' = [batch EXCEPT ![b] = [status |-> "SUBMITTED", tx |-> NoTx]]
    /\ GotoWith(p, "bind", b, me[p].ids, NoTx)
    /\ UNCHANGED <<ticket, quarantine, watermark, aged, lock, base, faults>>

(* A batch that could bind nothing is deleted again. *)
BindBatch(p) ==
    /\ At(p, "bind")
    /\ LET free == {t \in me[p].ids : ticket[t].batch = NoBatch}
       IN IF free = {}
          THEN /\ batch' = [batch EXCEPT ![me[p].batch].status = "absent"]
               /\ Goto(p, "unlock")
               /\ UNCHANGED ticket
          ELSE /\ ticket' = [t \in Tickets |-> IF t \in free
                               THEN [ticket[t] EXCEPT !.batch = me[p].batch]
                               ELSE ticket[t]]
               /\ Goto(p, "submit")
               /\ UNCHANGED batch
    /\ UNCHANGED <<quarantine, watermark, aged, lock, base, faults>>

(* What is broadcast is the rehearsed list, not what could be bound. *)
Submit(p, x) ==
    /\ At(p, "submit")
    /\ Claimable(me[p].ids)
    /\ Broadcast(p, x, "store")

(* The gas estimate of the submission itself reverts and ends the tick. *)
SubmitReverts(p) ==
    /\ At(p, "submit")
    /\ ~Claimable(me[p].ids)
    /\ Goto(p, "unlock")
    /\ UNCHANGED <<database, aged, lock, base, faults>>

(* A call throws: the tick ends, and the lock is deleted on the way out.   *)
(* (The recovery's own try block is left to ResubmitThrows.)               *)
Throw(p) ==
    /\ faults < MaxFaults
    /\ me[p].pc \notin {"idle", "unlock", "resubmit", "restore"}
    /\ Goto(p, "unlock")
    /\ faults' = faults + 1
    /\ UNCHANGED <<database, aged, lock, base>>

(* The process dies and restarts; its lock stays behind. *)
Crash(p) ==
    /\ faults < MaxFaults
    /\ ~At(p, "idle")
    /\ me' = [me EXCEPT ![p] = Asleep]
    /\ faults' = faults + 1
    /\ UNCHANGED <<database, aged, lock, base>>

-----------------------------------------------------------------------------
Tick(p) ==
    \/ Unlock(p) \/ FindNone(p) \/ Recover(p) \/ ResubmitThrows(p) \/ StoreTx(p)
    \/ ReadReceipt(p) \/ LookUp(p) \/ Finalize(p) \/ Release(p)
    \/ CheckOwed(p) \/ SetWatermark(p) \/ BindBatch(p) \/ SubmitReverts(p)
    \/ \E b \in Batches : FindBatch(p, b) \/ CreateBatch(p, b)
    \/ \E x \in Txs : Resubmit(p, x) \/ Submit(p, x)
    \/ \E ids \in SUBSET Tickets : Scan(p, ids) \/ Rehearse(p, ids)

Environment ==
    \/ LockExpires
    \/ \E x \in Txs : Mine(x) \/ Drop(x)
    \/ \E b \in Batches : BatchAges(b)

Next ==
    \/ Environment
    \/ \E p \in Processes : Acquire(p) \/ Tick(p) \/ Throw(p) \/ Crash(p)

Spec == Init /\ [][Next]_vars

(* The poll interval starts ticks again and again, awaits return, blocks   *)
(* are mined, time passes and an abandoned lock expires.                   *)
LiveSpec ==
    /\ Spec
    /\ \A p \in Processes : WF_vars(Tick(p))
    /\ WF_vars(\E p \in Processes : Acquire(p))
    /\ WF_vars(LockExpires)
    /\ \A x \in Txs : WF_vars(Mine(x))
    /\ \A b \in Batches : WF_vars(BatchAges(b))

-----------------------------------------------------------------------------
Stages == {"idle", "resolve", "scan", "owed", "mark", "rehearse", "create", "bind",
           "submit", "store", "recover", "resubmit", "restore", "receipt", "lookup",
           "finalize", "release", "unlock"}
Names == Batches \cup {NoBatch}
Hashes == Txs \cup {NoTx, Recovered}
Locals == [pc : Stages, batch : Names, ids : SUBSET Tickets, tx : Hashes]
TicketSet == [win : {"WON", "CLAIMED_ON_BASE"}, batch : Names]
Statuses == {"absent", "SUBMITTED", "CONFIRMED", "FAILED"}
BatchSet == [status : Statuses, tx : Hashes]
TxSet == [ids : SUBSET Tickets, state : {"none", "mempool", "mined", "reverted", "dropped"}]

(* The values the variables take. *)
TypeOK ==
    /\ ticket \in [Tickets -> TicketSet] /\ batch \in [Batches -> BatchSet]
    /\ aged \subseteq Batches /\ quarantine \subseteq Tickets /\ watermark \in BOOLEAN
    /\ lock \in Processes \cup {Nobody}
    /\ me \in [Processes -> Locals] /\ tx \in [Txs -> TxSet]
    /\ claimed \subseteq Tickets /\ faults \in 0..MaxFaults

(* A ticket is credited to its winner only once its winnings are in the    *)
(* vault: also when finalizeBatchSuccess acts on an inference.             *)
CreditedWasClaimed ==
    \A t \in Tickets : ticket[t].win = "CLAIMED_ON_BASE" => t \in claimed

(* Money pulled from Megapot stays traceable to its tickets: each is       *)
(* credited or on a batch that is still to be resolved.                    *)
NoLostHarvest ==
    \A t \in claimed : \/ ticket[t].win = "CLAIMED_ON_BASE"
                       \/ ticket[t].batch \in InFlight

(* ticketsHarvestedAt takes the epoch off the worker's list for good, so   *)
(* it must not be set while a winner is uncredited.                        *)
WatermarkIsRight ==
    watermark => \A t \in Tickets : ticket[t].win = "CLAIMED_ON_BASE"

(* Quarantine blocks a ticket until an operator steps in: only tickets     *)
(* Megapot really refuses may get there.                                   *)
QuarantineIsRight == quarantine \subseteq Unclaimable

(* No two transactions that may still be mined claim the same ticket.      *)
OneClaimAtATime ==
    \A x, y \in {z \in Txs : tx[z].state = "mempool"} :
        x # y => tx[x].ids \cap tx[y].ids = {}

(* resolveInFlightBatch looks at one SUBMITTED batch and holds up the next *)
(* build, so the epoch never has two.                                      *)
OneBatchInFlight == Cardinality(InFlight) <= 1

(* Every claimable winner is credited, whatever crashed or was dropped on  *)
(* the way and whatever page the database returns, as long as the refused  *)
(* tickets do not fill a page: the code's headroom is what it takes.       *)
EveryWinnerHarvested ==
    Cardinality(Unclaimable \ NoNft) < PageSize =>
      \A t \in Tickets \ (Unclaimable \cup NoNft) : <>(ticket[t].win = "CLAIMED_ON_BASE")
=============================================================================
