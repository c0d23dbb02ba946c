-------------------------- MODULE RelayOrdersProofs --------------------------
(***************************************************************************)
(* Proofs about RelayOrders, for every number of tickets, jobs, batches,   *)
(* drawings and faults.                                                    *)
(*                                                                         *)
(* The invariant comes in layers, and each theorem uses the ones it needs: *)
(* the shape of the locals, the lock, what rows and jobs know of each      *)
(* other, and which purchase a stamped ticket was paid by.  That no ticket *)
(* is bought twice rests on none of them, but on the blocks the order is   *)
(* cut into: whoever plans a chunk plans one of the same blocks, and the   *)
(* vault buys a block once.                                                *)
(***************************************************************************)
EXTENDS RelayOrders, FiniteSetTheorems, TLAPS

Holding == {"bind", "send", "store", "await"}

(* The cached round lags only while it is locked, and the bound on         *)
(* drawings is respected; a job in the middle of a chunk holds a batch.    *)
RoundInv ==
    /\ round <= drawing
    /\ ~locked => round = drawing
    /\ locked /\ round = drawing => drawing < MaxDrawing
IdleInv == \A j \in Jobs : job[j].pc = "idle" => job[j] = Asleep
BatchInv == \A j \in Jobs : job[j].pc \in Holding => job[j].batch \in Batches
ShapeInv == TypeOK /\ RoundInv /\ IdleInv /\ BatchInv

(* The lock: an order is PROCESSING as long as a job works on it.          *)
LockInv == OneWorker /\ \A j \in Jobs : Working(j) => status = "PROCESSING"

(* The tickets still to be bought, and those that hang on a batch.         *)
Unstamped == {t \in Tickets : ticket[t].nft = NoNft}
BoundTo(b) == {t \in Tickets : ticket[t].batch = b}
Submitted == {b \in Batches : batch[b].status = "SUBMITTED"}

(* What the rows say together: a bound ticket without an NFT hangs on a    *)
(* SUBMITTED batch, one with an NFT on a CONFIRMED batch, and there is at  *)
(* most one SUBMITTED batch.                                               *)
RowsInv ==
    /\ \A t \in Tickets :
         /\ ticket[t].nft = NoNft /\ ticket[t].batch # NoBatch
              => ticket[t].batch \in Submitted
         /\ ticket[t].nft # NoNft
              => ticket[t].batch # NoBatch /\ batch[ticket[t].batch].status = "CONFIRMED"
    /\ \A b, d \in Submitted : b = d
    /\ \A b \in Batches : batch[b].status = "absent" => tx[b].state = "none"
    /\ status = "SUCCESS" => Unstamped = {}

(* What a job's locals say of the rows, stage by stage. *)
ListInv(j) ==
    job[j].pc = "resolve" =>
      /\ \A s \in job[j].stuck : s.batch \in Submitted /\ s.ids = BoundTo(s.batch)
      /\ \A s, r \in job[j].stuck : s = r
      /\ \A b \in Submitted : \E s \in job[j].stuck : s.batch = b
RunInv(j) ==
    /\ job[j].pc = "chunk" => Submitted = {}
    /\ job[j].pc \in Holding \cup {"chunk"} => job[j].todo = Unstamped
    /\ job[j].pc \in Holding => /\ job[j].batch \in Submitted
                                /\ job[j].chunk \subseteq Unstamped
    /\ job[j].pc = "bind" => BoundTo(job[j].batch) = {}
    /\ job[j].pc \in Holding \ {"bind"} => BoundTo(job[j].batch) = job[j].chunk
    /\ job[j].pc \in {"bind", "send"} => tx[job[j].batch].state = "none"
WorkInv == RowsInv /\ \A j \in Jobs : ListInv(j) /\ RunInv(j)

Sent == {b \in Batches : tx[b].state # "none"}
MinedOnes == {b \in Batches : tx[b].state = "mined"}

(* Who paid: a stamped ticket was in a mined purchase none of whose        *)
(* tickets is still to be bought, its NFT is no other ticket's, and what   *)
(* was sent for a SUBMITTED batch is what hangs on it.                     *)
PaidInv ==
    /\ \A t \in Tickets \ Unstamped :
         /\ ticket[t].nft[1] \in Purchases(t)
         /\ tx[ticket[t].nft[1]].chunk \cap Unstamped = {}
    /\ \A t, u \in Tickets \ Unstamped : ticket[t].nft = ticket[u].nft => t = u
    /\ \A b \in Submitted \cap Sent : tx[b].chunk = BoundTo(b)

-----------------------------------------------------------------------------
(* The locals of a well-typed job.                                         *)
LEMMA LocalFields ==
    ASSUME TypeOK, NEW j \in Jobs
    PROVE  /\ job[j] \in Locals
           /\ job[j].pc \in Stages /\ job[j].round \in 0..MaxDrawing
           /\ job[j].stuck \subseteq StuckRows
           /\ job[j].todo \subseteq Tickets /\ job[j].chunk \subseteq Tickets
           /\ job[j].batch \in Batches \cup {NoBatch}
<1>1. job[j] \in Locals
  BY DEF TypeOK
<1> QED
  BY <1>1 DEF Locals

(* A job at rest has the locals of an empty worker slot.                   *)
LEMMA AsleepType == Asleep \in Locals /\ Asleep.pc = "idle"
<1>1. {} \in SUBSET StuckRows /\ {} \in SUBSET Tickets
  OBVIOUS
<1>2. 0 \in 0..MaxDrawing
  BY RelayConstants
<1>3. "idle" \in Stages
  BY DEF Stages
<1> QED
  BY <1>1, <1>2, <1>3 DEF Asleep, Locals

(* What a step of job j leaves alone: the locals of the other jobs.        *)
Others(j) == \A k \in Jobs : k # j => job'[k] = job[k]

(* One job moves and the rows keep their types.                            *)
LEMMA JobMoves ==
    ASSUME ShapeInv, NEW j \in Jobs, NEW r \in Locals, job' = [job EXCEPT ![j] = r],
           r.pc = "idle" => r = Asleep,
           r.pc \in Holding => r.batch \in Batches,
           UNCHANGED megapot,
           status' \in Statuses, fulfillEpoch' \in 0..MaxDrawing,
           ticket' \in [Tickets -> TicketRows], batch' \in [Batches -> BatchRows],
           tx' \in [Batches -> Sends], faults' \in 0..MaxFaults
    PROVE  ShapeInv' /\ job'[j] = r /\ Others(j)
<1>1. job \in [Jobs -> Locals]
  BY DEF ShapeInv, TypeOK
<1>2. job' \in [Jobs -> Locals] /\ job'[j] = r /\ Others(j)
  BY <1>1 DEF Others
<1>3. TypeOK'
  BY <1>2 DEF ShapeInv, TypeOK, megapot
<1>4. RoundInv'
  BY DEF ShapeInv, RoundInv, megapot
<1>5. IdleInv'
  <2> SUFFICES ASSUME NEW k \in Jobs
               PROVE  job'[k].pc = "idle" => job'[k] = Asleep
    BY DEF IdleInv
  <2> QED
    BY <1>2 DEF ShapeInv, IdleInv, Others
<1>6. BatchInv'
  <2> SUFFICES ASSUME NEW k \in Jobs
               PROVE  job'[k].pc \in Holding => job'[k].batch \in Batches
    BY DEF BatchInv
  <2> QED
    BY <1>2 DEF ShapeInv, BatchInv, Others
<1> QED
  BY <1>2, <1>3, <1>4, <1>5, <1>6 DEF ShapeInv

(* A fault is counted against the bound.                                   *)
LEMMA FaultType ==
    ASSUME ShapeInv, Fault \/ UNCHANGED faults
    PROVE  faults' \in 0..MaxFaults
<1>1. MaxFaults \in Nat /\ faults \in 0..MaxFaults
  BY RelayConstants DEF ShapeInv, TypeOK
<1> QED
  BY <1>1 DEF Fault

(* A job goes back to sleep.                                               *)
LEMMA RestEffect ==
    ASSUME ShapeInv, NEW j \in Jobs, Rest(j), UNCHANGED <<rows, tx, megapot>>,
           status' \in Statuses, fulfillEpoch' \in 0..MaxDrawing,
           Fault \/ UNCHANGED faults
    PROVE  ShapeInv' /\ job'[j] = Asleep /\ Others(j)
<1>1. ticket' \in [Tickets -> TicketRows] /\ batch' \in [Batches -> BatchRows]
      /\ tx' \in [Batches -> Sends]
  BY DEF rows, ShapeInv, TypeOK
<1>2. UNCHANGED megapot
  OBVIOUS
<1>3. Asleep.pc \notin Holding
  BY AsleepType DEF Holding
<1> QED
  BY <1>1, <1>2, <1>3, FaultType, AsleepType, JobMoves DEF Rest

(* A job goes on to another stage and keeps its locals.                    *)
LEMMA GotoEffect ==
    ASSUME ShapeInv, NEW j \in Jobs, NEW p \in Stages, p # "idle",
           p \in Holding => job[j].pc \in Holding, Goto(j, p),
           UNCHANGED megapot,
           status' \in Statuses, fulfillEpoch' \in 0..MaxDrawing,
           ticket' \in [Tickets -> TicketRows], batch' \in [Batches -> BatchRows],
           tx' \in [Batches -> Sends], Fault \/ UNCHANGED faults
    PROVE  /\ ShapeInv' /\ Others(j)
           /\ job'[j].pc = p /\ job'[j].round = job[j].round
           /\ job'[j].todo = job[j].todo /\ job'[j].chunk = job[j].chunk
           /\ job'[j].batch = job[j].batch
<1> DEFINE r == [job[j] EXCEPT !.pc = p]
<1>1. job[j] \in Locals
  BY LocalFields DEF ShapeInv
<1>2. /\ r \in Locals /\ r.pc = p /\ r.round = job[j].round
      /\ r.todo = job[j].todo /\ r.chunk = job[j].chunk /\ r.batch = job[j].batch
  BY <1>1 DEF Locals
<1>3. job' = [job EXCEPT ![j] = r]
  BY DEF Goto
<1>4. r.pc \in Holding => r.batch \in Batches
  BY <1>2 DEF ShapeInv, BatchInv
<1> HIDE DEF r
<1>5. ShapeInv' /\ job'[j] = r /\ Others(j)
  BY <1>2, <1>3, <1>4, FaultType, JobMoves
<1> QED
  BY <1>2, <1>5

(* Rows, order and transactions that a step leaves alone keep their types. *)
LEMMA KeptTypes ==
    ASSUME ShapeInv
    PROVE  /\ UNCHANGED order => status' \in Statuses /\ fulfillEpoch' \in 0..MaxDrawing
           /\ UNCHANGED fulfillEpoch => fulfillEpoch' \in 0..MaxDrawing
           /\ UNCHANGED rows => /\ ticket' \in [Tickets -> TicketRows]
                                /\ batch' \in [Batches -> BatchRows]
           /\ UNCHANGED ticket => ticket' \in [Tickets -> TicketRows]
           /\ UNCHANGED batch => batch' \in [Batches -> BatchRows]
           /\ UNCHANGED tx => tx' \in [Batches -> Sends]
  BY DEF ShapeInv, TypeOK, order, rows

(* The words of the status column and of the stages.                       *)
LEMMA Words ==
    /\ "QUEUED" \in Statuses /\ "RETRY_PENDING" \in Statuses /\ "DEFERRED" \in Statuses
    /\ "PROCESSING" \in Statuses /\ "SUCCESS" \in Statuses
    /\ "FAILED_PERMANENT" \in Statuses
    /\ Stages = {"idle", "gate", "vault", "list", "resolve", "chunk", "bind", "send",
                 "store", "await", "throw", "refused"}
  BY DEF Statuses, Stages

(* baseRelayWorker up to the optimistic lock: the job is taken, deferred,     *)
(* passed through the gate, held back for want of funds, or locks the      *)
(* order.                                                                  *)
LEMMA TakeEffect ==
    ASSUME ShapeInv, NEW j \in Jobs, Take(j)
    PROVE  /\ ShapeInv' /\ Others(j) /\ UNCHANGED <<order, rows, tx, megapot>>
           /\ job[j].pc = "idle" /\ job'[j].pc = "gate"
<1>1. UNCHANGED <<order, rows, tx, megapot, faults>> /\ Goto(j, "gate") /\ job[j].pc = "idle"
  BY DEF Take, At
<1>2. "gate" \in Stages /\ "gate" \notin Holding
  BY Words DEF Holding
<1>3. ShapeInv' /\ Others(j) /\ job'[j].pc = "gate"
  BY <1>1, <1>2, KeptTypes, GotoEffect
<1> QED
  BY <1>1, <1>3

(* A job that is deferred or held back for want of funds goes to sleep.    *)
LEMMA HoldBackEffect ==
    ASSUME ShapeInv, NEW j \in Jobs, Defer(j) \/ Underfunded(j)
    PROVE  /\ ShapeInv' /\ Others(j) /\ UNCHANGED <<fulfillEpoch, rows, tx, megapot>>
           /\ job'[j] = Asleep /\ job[j].pc \in {"gate", "vault"}
           /\ FreshStatus => status \in Relayable
           /\ status' \in {"DEFERRED", "RETRY_PENDING"}
<1>1. /\ UNCHANGED <<fulfillEpoch, rows, tx, megapot>> /\ Rest(j)
      /\ Fault \/ UNCHANGED faults
      /\ job[j].pc \in {"gate", "vault"}
      /\ FreshStatus => status \in Relayable
      /\ status' \in {"DEFERRED", "RETRY_PENDING"}
  BY DEF Defer, Underfunded, At
<1>2. status' \in Statuses
  BY <1>1, Words
<1>3. ShapeInv' /\ Others(j) /\ job'[j] = Asleep
  BY <1>1, <1>2, KeptTypes, RestEffect
<1> QED
  BY <1>1, <1>3

(* The gate is passed with the round cached at that moment.                *)
LEMMA PassGateEffect ==
    ASSUME ShapeInv, NEW j \in Jobs, PassGate(j)
    PROVE  /\ ShapeInv' /\ Others(j) /\ UNCHANGED <<order, rows, tx, megapot>>
           /\ job[j].pc = "gate" /\ job'[j].pc = "vault" /\ ~locked
           /\ job'[j].round = round
<1> DEFINE r == [job[j] EXCEPT !.pc = "vault", !.round = round]
<1>1. /\ UNCHANGED <<order, rows, tx, megapot, faults>> /\ job[j].pc = "gate" /\ ~locked
      /\ job' = [job EXCEPT ![j] = r]
  BY DEF PassGate, At
<1>2. job[j] \in Locals /\ "vault" \in Stages
  BY LocalFields, Words DEF ShapeInv
<1>3. round \in 0..MaxDrawing
  BY RelayConstants DEF ShapeInv, TypeOK
<1>4. r \in Locals /\ r.pc = "vault" /\ r.round = round
  BY <1>2, <1>3 DEF Locals
<1> HIDE DEF r
<1>5. r.pc \notin Holding
  BY <1>4 DEF Holding
<1>6. ShapeInv' /\ job'[j] = r /\ Others(j)
  BY <1>1, <1>4, <1>5, KeptTypes, FaultType, JobMoves
<1> QED
  BY <1>1, <1>4, <1>6

(* The optimistic lock: taken, or the job goes to sleep.                   *)
LEMMA LockEffect ==
    ASSUME ShapeInv, NEW j \in Jobs, Lock(j)
    PROVE  /\ ShapeInv' /\ Others(j) /\ UNCHANGED <<fulfillEpoch, rows, tx, megapot>>
           /\ job[j].pc = "vault"
           /\ \/ /\ status \in Relayable /\ status' = "PROCESSING"
                 /\ job'[j].pc = "list" /\ job'[j].round = job[j].round
              \/ UNCHANGED status /\ job'[j] = Asleep
<1>1. /\ UNCHANGED <<fulfillEpoch, rows, tx, megapot, faults>> /\ job[j].pc = "vault"
      /\ \/ status \in Relayable /\ status' = "PROCESSING" /\ Goto(j, "list")
         \/ UNCHANGED status /\ Rest(j)
  BY DEF Lock, At
<1>2. "list" \in Stages /\ "list" \notin Holding
  BY Words DEF Holding
<1>3. status \in Statuses
  BY DEF ShapeInv, TypeOK
<1>4. CASE status \in Relayable /\ status' = "PROCESSING" /\ Goto(j, "list")
  <2>1. ShapeInv' /\ Others(j) /\ job'[j].pc = "list" /\ job'[j].round = job[j].round
    BY <1>1, <1>2, <1>4, Words, KeptTypes, GotoEffect
  <2> QED
    BY <1>1, <1>4, <2>1
<1>5. CASE UNCHANGED status /\ Rest(j)
  <2>1. ShapeInv' /\ Others(j) /\ job'[j] = Asleep
    BY <1>1, <1>3, <1>5, KeptTypes, RestEffect
  <2> QED
    BY <1>1, <1>5, <2>1
<1> QED
  BY <1>1, <1>4, <1>5

(* resolveInFlightBatches reads the SUBMITTED batches and their tickets.   *)
LEMMA ListStuckEffect ==
    ASSUME ShapeInv, NEW j \in Jobs, ListStuck(j)
    PROVE  /\ ShapeInv' /\ Others(j) /\ UNCHANGED <<order, rows, tx, megapot>>
           /\ job[j].pc = "list" /\ job'[j].pc = "resolve"
           /\ job'[j].round = job[j].round
           /\ job'[j].stuck = {[batch |-> b, ids |-> BoundTo(b), hash |-> batch[b].hash] :
                                 b \in Submitted}
<1> DEFINE L == {[batch |-> b, ids |-> BoundTo(b), hash |-> batch[b].hash] : b \in Submitted}
           r == [job[j] EXCEPT !.pc = "resolve", !.stuck = L]
<1>1. /\ UNCHANGED <<order, rows, tx, megapot, faults>> /\ job[j].pc = "list"
      /\ job' = [job EXCEPT ![j] = r]
  BY DEF ListStuck, At, BoundTo, Submitted
<1>2. job[j] \in Locals /\ "resolve" \in Stages
  BY LocalFields, Words DEF ShapeInv
<1>3. L \subseteq StuckRows
  <2>1. \A b \in Submitted : b \in Batches /\ batch[b] \in BatchRows
    BY DEF Submitted, ShapeInv, TypeOK
  <2>2. \A b \in Submitted : BoundTo(b) \in SUBSET Tickets
    BY DEF BoundTo
  <2> QED
    BY <2>1, <2>2 DEF StuckRows, BatchRows
<1> HIDE DEF L
<1>4. r \in Locals /\ r.pc = "resolve" /\ r.round = job[j].round /\ r.stuck = L
  BY <1>2, <1>3 DEF Locals
<1> HIDE DEF r
<1>5. r.pc \notin Holding
  BY <1>4 DEF Holding
<1>6. ShapeInv' /\ job'[j] = r /\ Others(j)
  BY <1>1, <1>4, <1>5, KeptTypes, FaultType, JobMoves
<1> QED
  BY <1>1, <1>4, <1>6 DEF L

(* The chunk loop: the tickets to buy are read, a batch row is created for *)
(* the next chunk, its tickets are bound, it is sent and its hash stored.  *)
LEMMA PlanEffect ==
    ASSUME ShapeInv, NEW j \in Jobs, Plan(j)
    PROVE  /\ ShapeInv' /\ Others(j) /\ UNCHANGED <<order, rows, tx, megapot>>
           /\ job[j].pc = "resolve" /\ job[j].stuck = {} /\ job'[j].pc = "chunk"
           /\ job'[j].round = job[j].round
           /\ job'[j].todo = {t \in Tickets : ticket[t].nft = NoNft /\ ticket[t].batch = NoBatch}
<1> DEFINE T == {t \in Tickets : ticket[t].nft = NoNft /\ ticket[t].batch = NoBatch}
           r == [job[j] EXCEPT !.pc = "chunk", !.todo = T]
<1>1. /\ UNCHANGED <<order, rows, tx, megapot, faults>>
      /\ job[j].pc = "resolve" /\ job[j].stuck = {}
      /\ job' = [job EXCEPT ![j] = r]
  BY DEF Plan, At
<1>2. job[j] \in Locals /\ "chunk" \in Stages /\ T \in SUBSET Tickets
  BY LocalFields, Words DEF ShapeInv
<1> HIDE DEF T
<1>4. r \in Locals /\ r.pc = "chunk" /\ r.round = job[j].round /\ r.todo = T
  BY <1>2 DEF Locals
<1> HIDE DEF r
<1>5. r.pc \notin Holding
  BY <1>4 DEF Holding
<1>6. ShapeInv' /\ job'[j] = r /\ Others(j)
  BY <1>1, <1>4, <1>5, KeptTypes, FaultType, JobMoves
<1> QED
  BY <1>1, <1>4, <1>6 DEF T

(* A row for the next chunk.                                               *)
LEMMA CreateBatchEffect ==
    ASSUME ShapeInv, NEW j \in Jobs, NEW b \in Batches, NEW c \in SUBSET Tickets,
           CreateBatch(j, b, c)
    PROVE  /\ ShapeInv' /\ Others(j) /\ UNCHANGED <<order, ticket, tx, megapot>>
           /\ job[j].pc = "chunk" /\ IsChunk(c, job[j].todo) /\ batch[b].status = "absent"
           /\ job'[j].pc = "bind" /\ job'[j].round = job[j].round
           /\ job'[j].todo = job[j].todo /\ job'[j].chunk = c /\ job'[j].batch = b
           /\ batch'[b].status = "SUBMITTED"
           /\ \A d \in Batches : d # b => batch'[d] = batch[d]
<1> DEFINE r == [job[j] EXCEPT !.pc = "bind", !.chunk = c, !.batch = b]
           v == [batch[b] EXCEPT !.status = "SUBMITTED"]
<1>1. /\ UNCHANGED <<order, ticket, tx, megapot, faults>>
      /\ job[j].pc = "chunk" /\ IsChunk(c, job[j].todo) /\ batch[b].status = "absent"
      /\ job' = [job EXCEPT ![j] = r] /\ batch' = [batch EXCEPT ![b] = v]
  BY DEF CreateBatch, At
<1>2. job[j] \in Locals /\ "bind" \in Stages /\ batch \in [Batches -> BatchRows]
  BY LocalFields, Words DEF ShapeInv, TypeOK
<1>3. /\ r \in Locals /\ r.pc = "bind" /\ r.round = job[j].round
      /\ r.todo = job[j].todo /\ r.chunk = c /\ r.batch = b
  BY <1>2 DEF Locals
<1>4. v \in BatchRows /\ v.status = "SUBMITTED"
  BY <1>2 DEF BatchRows
<1> HIDE DEF r, v
<1>5. /\ batch' \in [Batches -> BatchRows] /\ batch'[b].status = "SUBMITTED"
      /\ \A d \in Batches : d # b => batch'[d] = batch[d]
  BY <1>1, <1>2, <1>4
<1>6. ShapeInv' /\ job'[j] = r /\ Others(j)
  BY <1>1, <1>3, <1>5, KeptTypes, FaultType, JobMoves
<1> QED
  BY <1>1, <1>3, <1>5, <1>6

(* The chunk's tickets are bound to it.                                    *)
LEMMA BindEffect ==
    ASSUME ShapeInv, NEW j \in Jobs, Bind(j)
    PROVE  /\ ShapeInv' /\ Others(j) /\ UNCHANGED <<order, batch, tx, megapot>>
           /\ job[j].pc = "bind" /\ job'[j].pc = "send" /\ job'[j].round = job[j].round
           /\ job'[j].todo = job[j].todo /\ job'[j].chunk = job[j].chunk
           /\ job'[j].batch = job[j].batch
           /\ \A t \in Tickets :
                /\ ticket'[t].nft = ticket[t].nft
                /\ ticket'[t].batch = IF t \in job[j].chunk THEN job[j].batch
                                      ELSE ticket[t].batch
<1>1. /\ UNCHANGED <<order, batch, tx, megapot, faults>> /\ job[j].pc = "bind"
      /\ Goto(j, "send")
      /\ ticket' = [t \in Tickets |-> IF t \in job[j].chunk
                                      THEN [ticket[t] EXCEPT !.batch = job[j].batch]
                                      ELSE ticket[t]]
  BY DEF Bind, At
<1>2. job[j].batch \in Batches \cup {NoBatch} /\ \A t \in Tickets : ticket[t] \in TicketRows
  BY LocalFields DEF ShapeInv, TypeOK
<1>3. \A t \in Tickets :
        /\ [ticket[t] EXCEPT !.batch = job[j].batch] \in TicketRows
        /\ [ticket[t] EXCEPT !.batch = job[j].batch].nft = ticket[t].nft
        /\ [ticket[t] EXCEPT !.batch = job[j].batch].batch = job[j].batch
  BY <1>2 DEF TicketRows
<1>4. ticket' \in [Tickets -> TicketRows]
  BY <1>1, <1>2, <1>3
<1>5. \A t \in Tickets :
        /\ ticket'[t].nft = ticket[t].nft
        /\ ticket'[t].batch = IF t \in job[j].chunk THEN job[j].batch ELSE ticket[t].batch
  BY <1>1, <1>3
<1>6. "send" \in Stages /\ "bind" \in Holding
  BY Words DEF Holding
<1>7. /\ ShapeInv' /\ Others(j) /\ job'[j].pc = "send" /\ job'[j].round = job[j].round
      /\ job'[j].todo = job[j].todo /\ job'[j].chunk = job[j].chunk
      /\ job'[j].batch = job[j].batch
  BY <1>1, <1>4, <1>6, KeptTypes, GotoEffect
<1> QED
  BY <1>1, <1>5, <1>7

(* A transaction leaves for the mempool. *)
Leaves(b, c) ==
    /\ tx'[b] = [chunk |-> c, state |-> "mempool"]
    /\ \A d \in Batches : d # b => tx'[d] = tx[d]

(* What submitBuyTickets hands to the node.                                *)
LEMMA BroadcastEffect ==
    ASSUME ShapeInv, NEW j \in Jobs, job[j].pc \in Holding, Broadcast(j)
    PROVE  tx' \in [Batches -> Sends] /\ Leaves(job[j].batch, job[j].chunk)
<1> DEFINE v == [chunk |-> job[j].chunk, state |-> "mempool"]
<1>1. job[j].batch \in Batches /\ job[j].chunk \in SUBSET Tickets
  BY LocalFields DEF ShapeInv, BatchInv
<1>2. tx' = [tx EXCEPT ![job[j].batch] = v] /\ tx \in [Batches -> Sends]
  BY DEF Broadcast, ShapeInv, TypeOK
<1>4. v \in Sends
  BY <1>1 DEF Sends
<1> HIDE DEF v
<1>5. tx' \in [Batches -> Sends] /\ tx'[job[j].batch] = v
      /\ \A d \in Batches : d # job[j].batch => tx'[d] = tx[d]
  BY <1>1, <1>2, <1>4
<1> QED
  BY <1>5 DEF v, Leaves

(* The chunk is sent,                                                      *)
LEMMA SendEffect ==
    ASSUME ShapeInv, NEW j \in Jobs, Send(j)
    PROVE  /\ ShapeInv' /\ Others(j) /\ UNCHANGED <<order, rows, megapot>>
           /\ job[j].pc = "send" /\ job'[j].pc = "store" /\ job'[j].round = job[j].round
           /\ job'[j].todo = job[j].todo /\ job'[j].chunk = job[j].chunk
           /\ job'[j].batch = job[j].batch
           /\ Leaves(job[j].batch, job[j].chunk)
<1>1. /\ UNCHANGED <<order, rows, megapot, faults>> /\ job[j].pc = "send"
      /\ Goto(j, "store") /\ Broadcast(j)
  BY DEF Send, At
<1>2. "store" \in Stages /\ "send" \in Holding
  BY Words DEF Holding
<1>3. tx' \in [Batches -> Sends] /\ Leaves(job[j].batch, job[j].chunk)
  BY <1>1, <1>2, BroadcastEffect
<1>4. /\ ShapeInv' /\ Others(j) /\ job'[j].pc = "store" /\ job'[j].round = job[j].round
      /\ job'[j].todo = job[j].todo /\ job'[j].chunk = job[j].chunk
      /\ job'[j].batch = job[j].batch
  BY <1>1, <1>2, <1>3, KeptTypes, GotoEffect
<1> QED
  BY <1>1, <1>3, <1>4

(* or the node throws, with or without the transaction on its way,         *)
LEMMA SendFailsEffect ==
    ASSUME ShapeInv, NEW j \in Jobs, SendThrows(j) \/ SendRefused(j)
    PROVE  /\ ShapeInv' /\ Others(j) /\ UNCHANGED <<order, rows, megapot>>
           /\ job[j].pc = "send" /\ job'[j].pc \in {"throw", "refused"}
           /\ job'[j].round = job[j].round
           /\ Leaves(job[j].batch, job[j].chunk) \/ UNCHANGED tx
<1>1. /\ UNCHANGED <<order, rows, megapot>> /\ job[j].pc = "send" /\ Fault
      /\ Goto(j, "throw") \/ Goto(j, "refused")
      /\ Broadcast(j) \/ UNCHANGED tx
  BY DEF SendThrows, SendRefused, At
<1>2. /\ "throw" \in Stages /\ "refused" \in Stages /\ "send" \in Holding
      /\ "throw" \notin Holding /\ "refused" \notin Holding
  BY Words DEF Holding
<1>3. /\ tx' \in [Batches -> Sends]
      /\ Leaves(job[j].batch, job[j].chunk) \/ UNCHANGED tx
  BY <1>1, <1>2, BroadcastEffect, KeptTypes
<1>4. ASSUME NEW p \in {"throw", "refused"}, Goto(j, p)
      PROVE  /\ ShapeInv' /\ Others(j) /\ job'[j].pc \in {"throw", "refused"}
             /\ job'[j].round = job[j].round
  <2>1. p \in Stages /\ p # "idle" /\ p \notin Holding
    BY <1>2
  <2>2. ShapeInv' /\ Others(j) /\ job'[j].pc = p /\ job'[j].round = job[j].round
    BY <1>1, <1>3, <1>4, <2>1, KeptTypes, GotoEffect
  <2> QED
    BY <2>2
<1> QED
  BY <1>1, <1>3, <1>4

(* and its hash is stored.                                                 *)
LEMMA StoreEffect ==
    ASSUME ShapeInv, NEW j \in Jobs, Store(j)
    PROVE  /\ ShapeInv' /\ Others(j) /\ UNCHANGED <<order, ticket, tx, megapot>>
           /\ job[j].pc = "store" /\ job'[j].pc = "await" /\ job'[j].round = job[j].round
           /\ job'[j].todo = job[j].todo /\ job'[j].chunk = job[j].chunk
           /\ job'[j].batch = job[j].batch
           /\ \A d \in Batches : batch'[d].status = batch[d].status
<1>1. /\ UNCHANGED <<order, ticket, tx, megapot, faults>> /\ job[j].pc = "store"
      /\ Goto(j, "await")
      /\ batch' = [batch EXCEPT ![job[j].batch].hash = TRUE]
  BY DEF Store, At
<1>2. "await" \in Stages /\ "store" \in Holding
  BY Words DEF Holding
<1>3. \A d \in Batches : batch[d] \in BatchRows
  BY DEF ShapeInv, TypeOK
<1>4. batch \in [Batches -> BatchRows]
  BY DEF ShapeInv, TypeOK
<1>5. \A d \in Batches : /\ [batch[d] EXCEPT !.hash = TRUE] \in BatchRows
                         /\ [batch[d] EXCEPT !.hash = TRUE].status = batch[d].status
  BY <1>3 DEF BatchRows
<1>6. batch' \in [Batches -> BatchRows] /\ \A d \in Batches : batch'[d].status = batch[d].status
  BY <1>1, <1>4, <1>5
<1>7. /\ ShapeInv' /\ Others(j) /\ job'[j].pc = "await" /\ job'[j].round = job[j].round
      /\ job'[j].todo = job[j].todo /\ job'[j].chunk = job[j].chunk
      /\ job'[j].batch = job[j].batch
  BY <1>1, <1>2, <1>6, KeptTypes, GotoEffect
<1> QED
  BY <1>1, <1>6, <1>7

(* The end of a run: every ticket bought, an error caught, or the process  *)
(* dead.                                                                   *)
LEMMA DoneEffect ==
    ASSUME ShapeInv, NEW j \in Jobs, Done(j)
    PROVE  /\ ShapeInv' /\ Others(j) /\ UNCHANGED <<rows, tx, megapot>>
           /\ job[j].pc = "chunk" /\ job[j].todo = {} /\ job'[j] = Asleep
           /\ status' = "SUCCESS" /\ fulfillEpoch' = job[j].round
<1>1. /\ UNCHANGED <<rows, tx, megapot, faults>> /\ job[j].pc = "chunk" /\ job[j].todo = {}
      /\ Rest(j) /\ status' = "SUCCESS" /\ fulfillEpoch' = job[j].round
  BY DEF Done, At
<1>2. job[j].round \in 0..MaxDrawing
  BY LocalFields DEF ShapeInv
<1>3. ShapeInv' /\ Others(j) /\ job'[j] = Asleep
  BY <1>1, <1>2, Words, RestEffect
<1> QED
  BY <1>1, <1>3

(* The catch block writes no SUCCESS.                                      *)
LEMMA FailEffect ==
    ASSUME ShapeInv, NEW j \in Jobs, Fail(j)
    PROVE  /\ ShapeInv' /\ Others(j) /\ UNCHANGED <<fulfillEpoch, rows, tx, megapot>>
           /\ job[j].pc \in {"throw", "refused"} /\ job'[j] = Asleep
           /\ status' \in {"FAILED_PERMANENT", "RETRY_PENDING"}
<1>1. /\ UNCHANGED <<fulfillEpoch, rows, tx, megapot, faults>> /\ Rest(j)
      /\ job[j].pc \in {"throw", "refused"}
      /\ status' \in {"FAILED_PERMANENT", "RETRY_PENDING"}
  BY DEF Fail
<1>2. status' \in Statuses
  BY <1>1, Words
<1>3. ShapeInv' /\ Others(j) /\ job'[j] = Asleep
  BY <1>1, <1>2, KeptTypes, RestEffect
<1> QED
  BY <1>1, <1>3

(* A crash leaves rows and transactions as they are.                       *)
LEMMA CrashEffect ==
    ASSUME ShapeInv, NEW j \in Jobs, Crash(j)
    PROVE  /\ ShapeInv' /\ Others(j) /\ UNCHANGED <<order, rows, tx, megapot>>
           /\ job'[j] = Asleep
<1>1. UNCHANGED <<order, rows, tx, megapot>> /\ Rest(j) /\ Fault
  BY DEF Crash
<1>2. ShapeInv' /\ Others(j) /\ job'[j] = Asleep
  BY <1>1, KeptTypes, RestEffect
<1> QED
  BY <1>1, <1>2

(* Job j settles batch row s: its own one, or one it found SUBMITTED.      *)
Settles(j, s) ==
    \/ job[j].pc = "await" /\ s = [batch |-> job[j].batch, ids |-> job[j].chunk, hash |-> TRUE]
    \/ job[j].pc = "resolve" /\ s \in job[j].stuck

(* The row names a batch and tickets of the order.                         *)
LEMMA SettledType ==
    ASSUME ShapeInv, NEW j \in Jobs, NEW s, Settles(j, s)
    PROVE  s.batch \in Batches /\ s.ids \in SUBSET Tickets
<1>1. CASE job[j].pc = "await" /\ s = [batch |-> job[j].batch, ids |-> job[j].chunk, hash |-> TRUE]
  <2>1. "await" \in Holding
    BY DEF Holding
  <2> QED
    BY <1>1, <2>1, LocalFields DEF ShapeInv, BatchInv
<1>2. CASE job[j].pc = "resolve" /\ s \in job[j].stuck
  <2>1. s \in StuckRows
    BY <1>2, LocalFields DEF ShapeInv
  <2> QED
    BY <2>1 DEF StuckRows
<1> QED
  BY <1>1, <1>2 DEF Settles

(* The batches a job waits for are among those it settles.                 *)
LEMMA WatchedSettles ==
    ASSUME NEW j \in Jobs, NEW s \in Watched(j)
    PROVE  Settles(j, s)
<1>1. CASE At(j, "await")
  BY <1>1 DEF Watched, At, Settles
<1>2. CASE ~At(j, "await")
  BY <1>2 DEF Watched, At, Settles
<1> QED
  BY <1>1, <1>2

(* Where the job goes after the row is settled.                            *)
Moves(j, s) ==
    /\ job'[j].round = job[j].round
    /\ job[j].pc = "resolve" => job'[j].pc = "resolve" /\ job'[j].stuck = job[j].stuck \ {s}
    /\ job[j].pc = "await" =>
         \/ job'[j].pc = "chunk" /\ job'[j].todo = job[j].todo \ s.ids
         \/ job'[j].pc = "throw"

(* finalizeChunkSuccess or releaseChunk, as far as the job is concerned.   *)
LEMMA MovesEffect ==
    ASSUME ShapeInv, NEW j \in Jobs, NEW s, Settles(j, s),
           \/ Onward(j, s) \/ Setback(j, s)
           \/ job[j].pc = "resolve" /\ job' = [job EXCEPT ![j].stuck = @ \ {s}],
           UNCHANGED <<order, tx, megapot>>,
           ticket' \in [Tickets -> TicketRows], batch' \in [Batches -> BatchRows],
           Fault \/ UNCHANGED faults
    PROVE  ShapeInv' /\ Others(j) /\ Moves(j, s)
           /\ (job[j].pc = "await" /\ Onward(j, s) => job'[j].pc = "chunk")
           /\ (job[j].pc = "await" /\ Setback(j, s) => job'[j].pc = "throw")
<1> DEFINE go == [job[j] EXCEPT !.pc = "chunk", !.todo = @ \ s.ids, !.chunk = {}, !.batch = NoBatch]
           thr == [job[j] EXCEPT !.pc = "throw"]
           nxt == [job[j] EXCEPT !.stuck = @ \ {s}]
<1>1. job[j] \in Locals /\ "chunk" \in Stages /\ "throw" \in Stages /\ {} \in SUBSET Tickets
  BY LocalFields, Words DEF ShapeInv
<1>2. /\ go \in Locals /\ go.pc = "chunk" /\ go.todo = job[j].todo \ s.ids
      /\ go.round = job[j].round
  BY <1>1 DEF Locals
<1>3. thr \in Locals /\ thr.pc = "throw" /\ thr.round = job[j].round
  BY <1>1 DEF Locals
<1>4. /\ nxt \in Locals /\ nxt.pc = job[j].pc /\ nxt.stuck = job[j].stuck \ {s}
      /\ nxt.round = job[j].round
  BY <1>1 DEF Locals
<1>5. CASE job[j].pc = "await"
  <2>1. /\ Onward(j, s) => job' = [job EXCEPT ![j] = go]
        /\ Setback(j, s) => job' = [job EXCEPT ![j] = thr]
    <3>1. ASSUME Onward(j, s)
          PROVE  job' = [job EXCEPT ![j] = go]
      BY <1>5, <3>1 DEF Onward, At
    <3>2. ASSUME Setback(j, s)
          PROVE  job' = [job EXCEPT ![j] = thr]
      BY <1>5, <3>2 DEF Setback, At, Goto
    <3> QED
      BY <3>1, <3>2
  <2>2. Onward(j, s) \/ Setback(j, s)
    BY <1>5
  <2> HIDE DEF go, thr, nxt
  <2>3. ASSUME Onward(j, s)
        PROVE  ShapeInv' /\ Others(j) /\ Moves(j, s) /\ job'[j].pc = "chunk"
    <3>1. go.pc \notin Holding /\ go.pc # "idle"
      BY <1>2 DEF Holding
    <3>2. ShapeInv' /\ job'[j] = go /\ Others(j)
      BY <1>2, <2>1, <2>3, <3>1, KeptTypes, FaultType, JobMoves
    <3> QED
      BY <1>2, <1>5, <3>2 DEF Moves
  <2>4. ASSUME Setback(j, s)
        PROVE  ShapeInv' /\ Others(j) /\ Moves(j, s) /\ job'[j].pc = "throw"
    <3>1. thr.pc \notin Holding /\ thr.pc # "idle"
      BY <1>3 DEF Holding
    <3>2. ShapeInv' /\ job'[j] = thr /\ Others(j)
      BY <1>3, <2>1, <2>4, <3>1, KeptTypes, FaultType, JobMoves
    <3> QED
      BY <1>3, <1>5, <3>2 DEF Moves
  <2> QED
    BY <2>2, <2>3, <2>4
<1>6. CASE job[j].pc # "await"
  <2>1. job[j].pc = "resolve"
    BY <1>6 DEF Settles
  <2>2. job' = [job EXCEPT ![j] = nxt]
    BY <1>6 DEF Onward, Setback, At
  <2> HIDE DEF nxt
  <2>3. nxt.pc \notin Holding /\ nxt.pc # "idle"
    BY <1>4, <2>1 DEF Holding
  <2>4. ShapeInv' /\ job'[j] = nxt /\ Others(j)
    BY <1>4, <2>2, <2>3, KeptTypes, FaultType, JobMoves
  <2> QED
    BY <1>4, <1>6, <2>1, <2>4 DEF Moves
<1> QED
  BY <1>5, <1>6

(* finalizeChunkSuccess on the rows: the tickets get the NFTs of the       *)
(* purchase by, the batch is CONFIRMED.                                    *)
Stamped(b, ids, by, stamp) ==
    /\ \A t \in Tickets : /\ ticket'[t].batch = ticket[t].batch
                          /\ t \in ids => ticket'[t].nft = <<by, stamp[t]>>
                          /\ t \notin ids => ticket'[t].nft = ticket[t].nft
    /\ batch'[b].status = "CONFIRMED"
    /\ \A d \in Batches : d # b => batch'[d] = batch[d]

(* finalizeChunkSuccess does just that.                                    *)
LEMMA FinalizeEffect ==
    ASSUME ShapeInv, NEW b \in Batches, NEW ids \in SUBSET Tickets, NEW by \in Batches,
           NEW stamp \in [ids -> Tickets], Finalize(b, ids, by, stamp)
    PROVE  /\ ticket' \in [Tickets -> TicketRows] /\ batch' \in [Batches -> BatchRows]
           /\ Stamped(b, ids, by, stamp)
<1>1. batch \in [Batches -> BatchRows] /\ \A t \in Tickets : ticket[t] \in TicketRows
  BY DEF ShapeInv, TypeOK
<1>2. \A t \in ids : <<by, stamp[t]>> \in Batches \X Tickets
  OBVIOUS
<1>3. \A t \in Tickets : t \in ids =>
        /\ [ticket[t] EXCEPT !.nft = <<by, stamp[t]>>] \in TicketRows
        /\ [ticket[t] EXCEPT !.nft = <<by, stamp[t]>>].nft = <<by, stamp[t]>>
        /\ [ticket[t] EXCEPT !.nft = <<by, stamp[t]>>].batch = ticket[t].batch
  BY <1>1, <1>2 DEF TicketRows
<1>4. ticket' = [t \in Tickets |-> IF t \in ids
                                   THEN [ticket[t] EXCEPT !.nft = <<by, stamp[t]>>]
                                   ELSE ticket[t]]
  BY DEF Finalize
<1>5. ticket' \in [Tickets -> TicketRows]
  BY <1>1, <1>3, <1>4
<1>6. \A t \in Tickets : /\ ticket'[t].batch = ticket[t].batch
                         /\ t \in ids => ticket'[t].nft = <<by, stamp[t]>>
                         /\ t \notin ids => ticket'[t].nft = ticket[t].nft
  BY <1>3, <1>4
<1> DEFINE v == [batch[b] EXCEPT !.status = "CONFIRMED"]
<1>7. v \in BatchRows /\ v.status = "CONFIRMED"
  BY <1>1 DEF BatchRows
<1>8. batch' = [batch EXCEPT ![b] = v]
  BY DEF Finalize
<1> HIDE DEF v
<1>9. /\ batch' \in [Batches -> BatchRows] /\ batch'[b].status = "CONFIRMED"
      /\ \A d \in Batches : d # b => batch'[d] = batch[d]
  BY <1>1, <1>7, <1>8
<1> QED
  BY <1>5, <1>6, <1>9 DEF Stamped

(* releaseChunk on the rows: the tickets are unbound, the batch FAILED.    *)
Unbinds(b, ids) ==
    /\ \A t \in Tickets : /\ ticket'[t].nft = ticket[t].nft
                          /\ ticket'[t].batch = IF t \in ids THEN NoBatch ELSE ticket[t].batch
    /\ batch'[b].status = "FAILED"
    /\ \A d \in Batches : d # b => batch'[d] = batch[d]

(* releaseChunk does just that.                                            *)
LEMMA ReleaseEffect ==
    ASSUME ShapeInv, NEW b \in Batches, NEW ids \in SUBSET Tickets, Release(b, ids)
    PROVE  /\ ticket' \in [Tickets -> TicketRows] /\ batch' \in [Batches -> BatchRows]
           /\ Unbinds(b, ids)
<1>1. batch \in [Batches -> BatchRows] /\ \A t \in Tickets : ticket[t] \in TicketRows
  BY DEF ShapeInv, TypeOK
<1>3. \A t \in Tickets :
        /\ [ticket[t] EXCEPT !.batch = NoBatch] \in TicketRows
        /\ [ticket[t] EXCEPT !.batch = NoBatch].nft = ticket[t].nft
        /\ [ticket[t] EXCEPT !.batch = NoBatch].batch = NoBatch
  BY <1>1 DEF TicketRows
<1>4. ticket' = [t \in Tickets |-> IF t \in ids
                                   THEN [ticket[t] EXCEPT !.batch = NoBatch]
                                   ELSE ticket[t]]
  BY DEF Release
<1>5. ticket' \in [Tickets -> TicketRows]
  BY <1>1, <1>3, <1>4
<1>6. \A t \in Tickets : /\ ticket'[t].nft = ticket[t].nft
                         /\ ticket'[t].batch = IF t \in ids THEN NoBatch ELSE ticket[t].batch
  BY <1>3, <1>4
<1> DEFINE v == [batch[b] EXCEPT !.status = "FAILED"]
<1>7. v \in BatchRows /\ v.status = "FAILED"
  BY <1>1 DEF BatchRows
<1>8. batch' = [batch EXCEPT ![b] = v]
  BY DEF Release
<1> HIDE DEF v
<1>9. /\ batch' \in [Batches -> BatchRows] /\ batch'[b].status = "FAILED"
      /\ \A d \in Batches : d # b => batch'[d] = batch[d]
  BY <1>1, <1>7, <1>8
<1> QED
  BY <1>5, <1>6, <1>9 DEF Unbinds

(* A batch whose success was seen, by its receipt or by the event that     *)
(* fulfilled its id.                                                       *)
LEMMA StampEffect ==
    ASSUME ShapeInv, NEW j \in Jobs, NEW s, NEW stamp, Confirm(j, s, stamp) \/ Recover(j, s, stamp)
    PROVE  /\ ShapeInv' /\ Others(j) /\ UNCHANGED <<order, tx, megapot>>
           /\ Settles(j, s) /\ Moves(j, s) /\ job'[j].pc # "throw"
           /\ \E by \in MinedOnes :
                /\ stamp \in [s.ids -> tx[by].chunk]
                /\ \A t, u \in s.ids : stamp[t] = stamp[u] => t = u
                /\ by = s.batch \/ tx[by].chunk = s.ids
                /\ Stamped(s.batch, s.ids, by, stamp)
<1>1. /\ UNCHANGED <<order, tx, megapot, faults>> /\ s \in Watched(j) /\ Onward(j, s)
      /\ \E by \in MinedOnes : /\ by = s.batch \/ tx[by].chunk = s.ids
                               /\ stamp \in Stamps(by, s.ids)
                               /\ Finalize(s.batch, s.ids, by, stamp)
  <2>1. Settles(j, s)
    BY WatchedSettles DEF Confirm, Recover
  <2>2. s.batch \in Batches
    BY <2>1, SettledType
  <2>3. CASE Confirm(j, s, stamp)
    BY <2>2, <2>3 DEF Confirm, MinedOnes
  <2>4. CASE Recover(j, s, stamp)
    <3>1. Fulfilled(s.ids)
      BY <2>4 DEF Recover, Recoverable
    <3>2. Fulfiller(s.ids) \in MinedOnes /\ tx[Fulfiller(s.ids)].chunk = s.ids
      BY <3>1 DEF Fulfilled, Fulfiller, MinedOnes
    <3> QED
      BY <2>4, <3>2 DEF Recover
  <2> QED
    BY <2>3, <2>4
<1>2. Settles(j, s)
  BY <1>1, WatchedSettles
<1>3. s.batch \in Batches /\ s.ids \in SUBSET Tickets
  BY <1>2, SettledType
<1>4. PICK by \in MinedOnes : /\ by = s.batch \/ tx[by].chunk = s.ids
                              /\ stamp \in Stamps(by, s.ids)
                              /\ Finalize(s.batch, s.ids, by, stamp)
  BY <1>1
<1>5. /\ stamp \in [s.ids -> tx[by].chunk]
      /\ \A t, u \in s.ids : stamp[t] = stamp[u] => t = u
  BY <1>4 DEF Stamps
<1>6. by \in Batches /\ tx[by].chunk \in SUBSET Tickets
  BY DEF MinedOnes, ShapeInv, TypeOK, Sends
<1>7. stamp \in [s.ids -> Tickets]
  BY <1>5, <1>6
<1>8. /\ ticket' \in [Tickets -> TicketRows] /\ batch' \in [Batches -> BatchRows]
      /\ Stamped(s.batch, s.ids, by, stamp)
  BY <1>3, <1>4, <1>6, <1>7, FinalizeEffect
<1>9. /\ ShapeInv' /\ Others(j) /\ Moves(j, s)
      /\ (job[j].pc = "await" => job'[j].pc = "chunk")
  BY <1>1, <1>2, <1>8, MovesEffect
<1>10. job'[j].pc # "throw"
  BY <1>2, <1>9 DEF Settles, Moves
<1> QED
  BY <1>1, <1>2, <1>4, <1>5, <1>8, <1>9, <1>10

(* A batch that is given up: never sent, reverted, or not mined in time.   *)
LEMMA GiveUpEffect ==
    ASSUME ShapeInv, NEW j \in Jobs, NEW s,
           ReleaseUnsent(j, s) \/ GiveUpReverted(j, s) \/ GiveUpWaiting(j, s)
    PROVE  /\ ShapeInv' /\ Others(j) /\ UNCHANGED <<order, tx, megapot>>
           /\ Settles(j, s) /\ Moves(j, s) /\ job'[j].pc # "chunk"
           /\ Unbinds(s.batch, s.ids)
<1>1. /\ UNCHANGED <<order, tx, megapot>> /\ Settles(j, s) /\ Release(s.batch, s.ids)
      /\ Fault \/ UNCHANGED faults
      /\ \/ Setback(j, s)
         \/ job[j].pc = "resolve" /\ job' = [job EXCEPT ![j].stuck = @ \ {s}]
  <2>1. CASE ReleaseUnsent(j, s)
    BY <2>1 DEF ReleaseUnsent, At, Settles
  <2>2. CASE GiveUpReverted(j, s)
    BY <2>2, WatchedSettles DEF GiveUpReverted
  <2>3. CASE GiveUpWaiting(j, s)
    BY <2>3, WatchedSettles DEF GiveUpWaiting
  <2> QED
    BY <2>1, <2>2, <2>3
<1>2. s.batch \in Batches /\ s.ids \in SUBSET Tickets
  BY <1>1, SettledType
<1>3. /\ ticket' \in [Tickets -> TicketRows] /\ batch' \in [Batches -> BatchRows]
      /\ Unbinds(s.batch, s.ids)
  BY <1>1, <1>2, ReleaseEffect
<1>4. /\ ShapeInv' /\ Others(j) /\ Moves(j, s)
      /\ (job[j].pc = "await" /\ Setback(j, s) => job'[j].pc = "throw")
  BY <1>1, <1>3, MovesEffect
<1>5. job'[j].pc # "chunk"
  BY <1>1, <1>4 DEF Settles, Moves
<1> QED
  BY <1>1, <1>3, <1>4, <1>5

(* A transaction leaves the mempool.                                       *)
Turned(b, how) ==
    /\ tx[b].state = "mempool"
    /\ tx'[b].state = how /\ tx'[b].chunk = tx[b].chunk
    /\ \A d \in Batches : d # b => tx'[d] = tx[d]

(* Base mines, reverts or loses a transaction.                             *)
LEMMA ChainEffect ==
    ASSUME ShapeInv, NEW b \in Batches,
           Mine(b) \/ Spoil(b, "dropped") \/ Spoil(b, "reverted")
    PROVE  /\ ShapeInv' /\ UNCHANGED <<order, rows, job, megapot>>
           /\ \/ Turned(b, "mined") /\ ~Fulfilled(tx[b].chunk)
              \/ Turned(b, "dropped")
              \/ Turned(b, "reverted")
<1> DEFINE bad == [tx[b] EXCEPT !.state = "reverted"]
           lost == [tx[b] EXCEPT !.state = "dropped"]
           good == [tx[b] EXCEPT !.state = "mined"]
<1>1. /\ UNCHANGED <<order, rows, job, megapot>> /\ tx[b].state = "mempool"
      /\ Fault \/ UNCHANGED faults
      /\ \/ tx' = [tx EXCEPT ![b] = bad]
         \/ tx' = [tx EXCEPT ![b] = lost]
         \/ tx' = [tx EXCEPT ![b] = good] /\ ~Fulfilled(tx[b].chunk)
  <2>1. CASE Mine(b)
    BY <2>1 DEF Mine
  <2>2. CASE Spoil(b, "dropped")
    BY <2>2 DEF Spoil
  <2>3. CASE Spoil(b, "reverted")
    BY <2>3 DEF Spoil
  <2> QED
    BY <2>1, <2>2, <2>3
<1>2. tx \in [Batches -> Sends] /\ tx[b] \in Sends
  BY DEF ShapeInv, TypeOK
<1>3. /\ bad \in Sends /\ bad.state = "reverted" /\ bad.chunk = tx[b].chunk
      /\ lost \in Sends /\ lost.state = "dropped" /\ lost.chunk = tx[b].chunk
      /\ good \in Sends /\ good.state = "mined" /\ good.chunk = tx[b].chunk
  BY <1>2 DEF Sends
<1> HIDE DEF bad, lost, good
<1>4. /\ tx' \in [Batches -> Sends]
      /\ \/ Turned(b, "mined") /\ ~Fulfilled(tx[b].chunk)
         \/ Turned(b, "dropped")
         \/ Turned(b, "reverted")
  <2>1. CASE tx' = [tx EXCEPT ![b] = bad]
    BY <1>1, <1>2, <1>3, <2>1 DEF Turned
  <2>2. CASE tx' = [tx EXCEPT ![b] = lost]
    BY <1>1, <1>2, <1>3, <2>2 DEF Turned
  <2>3. CASE tx' = [tx EXCEPT ![b] = good] /\ ~Fulfilled(tx[b].chunk)
    BY <1>1, <1>2, <1>3, <2>3 DEF Turned
  <2> QED
    BY <1>1, <2>1, <2>2, <2>3
<1>5. faults' \in 0..MaxFaults
  BY <1>1, FaultType
<1>6. TypeOK'
  BY <1>1, <1>4, <1>5 DEF ShapeInv, TypeOK, order, rows, megapot
<1>7. RoundInv' /\ IdleInv' /\ BatchInv'
  BY <1>1 DEF ShapeInv, RoundInv, IdleInv, BatchInv, megapot
<1> QED
  BY <1>1, <1>4, <1>6, <1>7 DEF ShapeInv

(* Megapot's round locks, rolls over, and is cached again.                 *)
LEMMA CalendarEffect ==
    ASSUME ShapeInv, LockRound \/ Rollover \/ NewRound
    PROVE  ShapeInv' /\ UNCHANGED <<order, rows, job, tx, faults>>
<1>1. UNCHANGED <<order, rows, job, tx, faults>>
  BY DEF LockRound, Rollover, NewRound
<1>2. MaxDrawing \in Nat /\ drawing \in 1..MaxDrawing /\ round \in 1..MaxDrawing
      /\ locked \in BOOLEAN
  BY RelayConstants DEF ShapeInv, TypeOK
<1>3. /\ drawing' \in 1..MaxDrawing /\ round' \in 1..MaxDrawing /\ locked' \in BOOLEAN
      /\ RoundInv'
  <2>1. round <= drawing /\ (locked /\ round = drawing => drawing < MaxDrawing)
    BY DEF ShapeInv, RoundInv
  <2>2. CASE LockRound
    BY <1>2, <2>2, <2>1 DEF LockRound, RoundInv
  <2>3. CASE Rollover
    <3>1. locked' = locked /\ locked /\ drawing' = drawing + 1 /\ round' = round /\ round = drawing
      BY <2>3 DEF Rollover
    <3> QED
      BY <1>2, <2>1, <3>1 DEF RoundInv
  <2>4. CASE NewRound
    <3>1. locked' = FALSE /\ drawing' = drawing /\ round' = drawing
      BY <2>4 DEF NewRound
    <3>2. RoundInv'
      BY <1>2, <3>1 DEF RoundInv
    <3> QED
      BY <1>2, <3>1, <3>2
  <2> QED
    BY <2>2, <2>3, <2>4
<1>4. TypeOK'
  BY <1>1, <1>3 DEF ShapeInv, TypeOK, order, rows
<1>5. IdleInv' /\ BatchInv'
  BY <1>1 DEF ShapeInv, IdleInv, BatchInv
<1> QED
  BY <1>1, <1>3, <1>4, <1>5 DEF ShapeInv

(* The reconciler changes the status alone.                                *)
LEMMA ReconcilerEffect ==
    ASSUME ShapeInv, Reconciler
    PROVE  /\ ShapeInv' /\ UNCHANGED <<fulfillEpoch, rows, job, tx, megapot>>
           /\ \/ status = "PROCESSING" /\ (\A j \in Jobs : ~Working(j)) /\ status' = "RETRY_PENDING"
              \/ status = "DEFERRED" /\ status' = "QUEUED"
<1>1. /\ UNCHANGED <<fulfillEpoch, rows, job, tx, megapot, faults>>
      /\ \/ status = "PROCESSING" /\ (\A j \in Jobs : ~Working(j)) /\ status' = "RETRY_PENDING"
         \/ status = "DEFERRED" /\ status' = "QUEUED"
  BY DEF Reconciler, ResetStuck, Requeue
<1>2. TypeOK'
  BY <1>1, Words DEF ShapeInv, TypeOK, rows, megapot
<1>3. RoundInv' /\ IdleInv' /\ BatchInv'
  BY <1>1 DEF ShapeInv, RoundInv, IdleInv, BatchInv, megapot
<1> QED
  BY <1>1, <1>2, <1>3 DEF ShapeInv

-----------------------------------------------------------------------------
(* The first rows of the relay are well formed.                            *)
LEMMA ShapeInit == Init => ShapeInv
<1> SUFFICES ASSUME Init
             PROVE  ShapeInv
  OBVIOUS
<1>1. MaxDrawing \in Nat \ {0} /\ MaxFaults \in Nat
  BY RelayConstants
<1>2. job \in [Jobs -> Locals] /\ \A j \in Jobs : job[j] = Asleep
  BY AsleepType DEF Init
<1>3. ticket \in [Tickets -> TicketRows]
  BY DEF Init, TicketRows
<1>4. batch \in [Batches -> BatchRows]
  BY DEF Init, BatchRows
<1>5. tx \in [Batches -> Sends]
  <2>1. {} \in SUBSET Tickets /\ 0 \in 0..MaxDrawing
    BY <1>1
  <2>2. NoSend \in Sends
    BY <2>1 DEF NoSend, Sends
  <2> QED
    BY <2>2 DEF Init
<1>6. status \in Statuses /\ fulfillEpoch \in 0..MaxDrawing
  BY <1>1, Words DEF Init
<1>7. drawing \in 1..MaxDrawing /\ round \in 1..MaxDrawing /\ locked \in BOOLEAN
      /\ faults \in 0..MaxFaults
  <2>1. 1 \in 1..MaxDrawing
    BY <1>1
  <2>2. 0 \in 0..MaxFaults
    BY <1>1
  <2> QED
    BY <2>1, <2>2 DEF Init
<1>8. RoundInv
  BY DEF Init, RoundInv
<1>9. IdleInv /\ BatchInv
  BY <1>2, AsleepType DEF IdleInv, BatchInv, Holding
<1> QED
  BY <1>2, <1>3, <1>4, <1>5, <1>6, <1>7, <1>8, <1>9 DEF ShapeInv, TypeOK

(* The steps of a job, by what they do.                                    *)
LEMMA JobSteps ==
    ASSUME NEW j \in Jobs, Run(j) \/ Misfortune(j)
    PROVE  \/ Take(j) \/ Defer(j) \/ Underfunded(j) \/ PassGate(j) \/ Lock(j)
           \/ ListStuck(j) \/ Plan(j) \/ Bind(j) \/ Send(j) \/ Store(j)
           \/ \E b \in Batches, c \in SUBSET Tickets : CreateBatch(j, b, c)
           \/ SendThrows(j) \/ SendRefused(j) \/ Done(j) \/ Fail(j) \/ Crash(j)
           \/ \E s, stamp : Confirm(j, s, stamp) \/ Recover(j, s, stamp)
           \/ \E s : ReleaseUnsent(j, s) \/ GiveUpReverted(j, s) \/ GiveUpWaiting(j, s)
<1>1. CASE Misfortune(j)
  BY <1>1 DEF Misfortune
<1>2. CASE Run(j)
  <2>1. ASSUME NEW s \in Watched(j),
               \/ GiveUpReverted(j, s) \/ GiveUpWaiting(j, s)
               \/ \E f \in Stamps(s.batch, s.ids) : Confirm(j, s, f)
               \/ Recoverable(s) /\ \E f \in Stamps(Fulfiller(s.ids), s.ids) : Recover(j, s, f)
        PROVE  \/ \E q, stamp : Confirm(j, q, stamp) \/ Recover(j, q, stamp)
               \/ \E q : ReleaseUnsent(j, q) \/ GiveUpReverted(j, q) \/ GiveUpWaiting(j, q)
    BY <2>1
  <2> QED
    BY <1>2, <2>1 DEF Run
<1> QED
  BY <1>1, <1>2

(* Every step keeps the types.                                             *)
LEMMA ShapeStep == ShapeInv /\ [Next]_vars => ShapeInv'
<1> SUFFICES ASSUME ShapeInv, [Next]_vars
             PROVE  ShapeInv'
  OBVIOUS
<1>1. CASE Environment
  BY <1>1, ChainEffect, CalendarEffect DEF Environment
<1>2. CASE Reconciler
  BY <1>2, ReconcilerEffect
<1>3. ASSUME NEW j \in Jobs, Run(j) \/ Misfortune(j)
      PROVE  ShapeInv'
  <2>1. CASE Take(j) \/ Defer(j) \/ Underfunded(j) \/ PassGate(j) \/ Lock(j) \/ ListStuck(j)
    BY <2>1, TakeEffect, HoldBackEffect, PassGateEffect, LockEffect, ListStuckEffect
  <2>2. CASE Plan(j) \/ Bind(j) \/ Send(j) \/ Store(j) \/ SendThrows(j) \/ SendRefused(j)
    BY <2>2, PlanEffect, BindEffect, SendEffect, StoreEffect, SendFailsEffect
  <2>3. CASE Done(j) \/ Fail(j) \/ Crash(j)
    BY <2>3, DoneEffect, FailEffect, CrashEffect
  <2>4. ASSUME NEW b \in Batches, NEW c \in SUBSET Tickets, CreateBatch(j, b, c)
        PROVE  ShapeInv'
    BY <2>4, CreateBatchEffect
  <2>5. ASSUME NEW s, NEW stamp, Confirm(j, s, stamp) \/ Recover(j, s, stamp)
        PROVE  ShapeInv'
    BY <2>5, StampEffect
  <2>6. ASSUME NEW s, ReleaseUnsent(j, s) \/ GiveUpReverted(j, s) \/ GiveUpWaiting(j, s)
        PROVE  ShapeInv'
    BY <2>6, GiveUpEffect
  <2> QED
    BY <1>3, <2>1, <2>2, <2>3, <2>4, <2>5, <2>6, JobSteps
<1>4. CASE UNCHANGED vars
  BY <1>4 DEF vars, order, rows, megapot, ShapeInv, TypeOK, RoundInv, IdleInv, BatchInv
<1> QED
  BY <1>1, <1>2, <1>3, <1>4 DEF Next

(* Rows, job locals and transactions keep their shape, whatever the        *)
(* environment does.                                                       *)
THEOREM TypeCorrect == Spec => []TypeOK
<1>1. ShapeInv => TypeOK
  BY DEF ShapeInv
<1> QED
  BY <1>1, ShapeInit, ShapeStep, PTL DEF Spec

-----------------------------------------------------------------------------
(* Nobody works on an order that is not PROCESSING.                        *)
LEMMA NobodyWorks ==
    ASSUME LockInv, status # "PROCESSING"
    PROVE  \A k \in Jobs : ~Working(k)
  BY DEF LockInv

(* One job works on an order that is.                                      *)
LEMMA AloneAtWork ==
    ASSUME LockInv, NEW j \in Jobs, Working(j)
    PROVE  status = "PROCESSING" /\ \A k \in Jobs : k # j => ~Working(k)
  BY DEF LockInv, OneWorker

(* What a job's step does to the lock: nothing, or it takes a free one, or *)
(* it leaves it free.  The gate and the vault check are why FreshStatus is *)
(* needed: their writes name the hash alone.                               *)
LEMMA JobLock ==
    ASSUME FreshStatus, ShapeInv, LockInv, NEW j \in Jobs, Run(j) \/ Misfortune(j)
    PROVE  /\ Others(j)
           /\ \/ UNCHANGED order /\ (Working(j)' => Working(j))
              \/ /\ status \in Relayable /\ status' = "PROCESSING"
                 /\ \A k \in Jobs : ~Working(k)
              \/ /\ status # "SUCCESS" /\ ~Working(j)'
                 /\ \A k \in Jobs : k # j => ~Working(k)
<1>1. Asleep.pc = "idle"
  BY AsleepType
<1>2. status \in Relayable => status # "SUCCESS" /\ \A k \in Jobs : ~Working(k)
  BY NobodyWorks DEF Relayable
<1>3. CASE Take(j)
  BY <1>3, TakeEffect DEF Working
<1>4. CASE Defer(j) \/ Underfunded(j)
  BY <1>1, <1>2, <1>4, HoldBackEffect DEF Working
<1>5. CASE PassGate(j)
  BY <1>5, PassGateEffect DEF Working
<1>6. CASE Lock(j)
  BY <1>1, <1>2, <1>6, LockEffect DEF Working, order
<1>7. CASE ListStuck(j) \/ Plan(j) \/ Bind(j)
  BY <1>7, ListStuckEffect, PlanEffect, BindEffect DEF Working
<1>8. CASE Send(j) \/ Store(j) \/ SendThrows(j) \/ SendRefused(j)
  BY <1>8, SendEffect, StoreEffect, SendFailsEffect DEF Working
<1>9. ASSUME NEW b \in Batches, NEW c \in SUBSET Tickets, CreateBatch(j, b, c)
      PROVE  Others(j) /\ UNCHANGED order /\ Working(j)
  BY <1>9, CreateBatchEffect DEF Working
<1>10. ASSUME NEW s, NEW stamp, Confirm(j, s, stamp) \/ Recover(j, s, stamp)
       PROVE  Others(j) /\ UNCHANGED order /\ Working(j)
  BY <1>10, StampEffect DEF Working, Settles
<1>11. ASSUME NEW s, ReleaseUnsent(j, s) \/ GiveUpReverted(j, s) \/ GiveUpWaiting(j, s)
       PROVE  Others(j) /\ UNCHANGED order /\ Working(j)
  BY <1>11, GiveUpEffect DEF Working, Settles
<1>12. CASE Done(j) \/ Fail(j)
  <2>1. Others(j) /\ Working(j) /\ ~Working(j)'
    BY <1>1, <1>12, DoneEffect, FailEffect DEF Working
  <2> QED
    BY <2>1, AloneAtWork
<1>13. CASE Crash(j)
  BY <1>1, <1>13, CrashEffect DEF Working
<1> QED
  BY <1>3, <1>4, <1>5, <1>6, <1>7, <1>8, <1>9, <1>10, <1>11, <1>12, <1>13, JobSteps

(* The lock starts free.                                                   *)
LEMMA LockInit == Init => LockInv
  BY AsleepType DEF Init, LockInv, OneWorker, Working

(* Every step keeps the lock.                                              *)
LEMMA LockStep ==
    ASSUME FreshStatus, ShapeInv, LockInv, [Next]_vars
    PROVE  LockInv'
<1>1. CASE Environment
  <2>1. UNCHANGED <<order, job>>
    BY <1>1, ChainEffect, CalendarEffect DEF Environment
  <2> QED
    BY <2>1 DEF LockInv, OneWorker, Working, order
<1>2. CASE Reconciler
  <2>1. UNCHANGED job /\ \A k \in Jobs : ~Working(k)
    BY <1>2, ReconcilerEffect, NobodyWorks
  <2> QED
    BY <2>1 DEF LockInv, OneWorker, Working
<1>3. ASSUME NEW j \in Jobs, Run(j) \/ Misfortune(j)
      PROVE  LockInv'
  <2>1. Others(j) /\ \A k \in Jobs : k # j => (Working(k)' <=> Working(k))
    BY <1>3, JobLock DEF Others, Working
  <2>2. CASE UNCHANGED order /\ (Working(j)' => Working(j))
    <3>1. \A k \in Jobs : Working(k)' => Working(k)
      BY <2>1, <2>2
    <3> QED
      BY <2>2, <3>1 DEF LockInv, OneWorker, order
  <2>3. CASE status' = "PROCESSING" /\ \A k \in Jobs : ~Working(k)
    BY <2>1, <2>3 DEF LockInv, OneWorker
  <2>4. CASE ~Working(j)' /\ \A k \in Jobs : k # j => ~Working(k)
    BY <2>1, <2>4 DEF LockInv, OneWorker
  <2> QED
    BY <1>3, <2>2, <2>3, <2>4, JobLock
<1>4. CASE UNCHANGED vars
  BY <1>4 DEF vars, LockInv, OneWorker, Working
<1> QED
  BY <1>1, <1>2, <1>3, <1>4 DEF Next

(* A finished order is not touched by any step.                            *)
LEMMA FinalStep ==
    ASSUME FreshStatus, ShapeInv, LockInv, [Next]_vars, status = "SUCCESS"
    PROVE  UNCHANGED <<status, fulfillEpoch>>
<1>1. CASE Environment
  BY <1>1, ChainEffect, CalendarEffect DEF Environment, order
<1>2. CASE Reconciler
  BY <1>2, ReconcilerEffect
<1>3. ASSUME NEW j \in Jobs, Run(j) \/ Misfortune(j)
      PROVE  UNCHANGED order
  BY <1>3, JobLock DEF Relayable
<1>4. CASE UNCHANGED vars
  BY <1>4 DEF vars
<1> QED
  BY <1>1, <1>2, <1>3, <1>4 DEF Next, order

(* The optimistic lock of baseRelayWorker lets one job at a time work on an       *)
(* order, provided the unguarded writes before it are not stale.           *)
THEOREM OneAtATime == ASSUME FreshStatus PROVE Spec => []OneWorker
<1>1. Init => ShapeInv /\ LockInv
  BY ShapeInit, LockInit
<1>2. ShapeInv /\ LockInv /\ [Next]_vars => ShapeInv' /\ LockInv'
  BY ShapeStep, LockStep
<1>3. ShapeInv /\ LockInv => OneWorker
  BY DEF LockInv
<1> QED
  BY <1>1, <1>2, <1>3, PTL DEF Spec

(* A finished order stays finished, under the same proviso.                *)
THEOREM FinishedForGood == ASSUME FreshStatus PROVE Spec => SuccessIsFinal
<1>1. Init => ShapeInv /\ LockInv
  BY ShapeInit, LockInit
<1>2. ShapeInv /\ LockInv /\ [Next]_vars => ShapeInv' /\ LockInv'
  BY ShapeStep, LockStep
<1>3. ShapeInv /\ LockInv /\ [Next]_vars
        => [status = "SUCCESS" => UNCHANGED <<status, fulfillEpoch>>]_vars
  BY FinalStep
<1> QED
  BY <1>1, <1>2, <1>3, PTL DEF Spec, SuccessIsFinal

-----------------------------------------------------------------------------
(* A job that does not work has no claim on the rows.                      *)
LEMMA NoClaim ==
    ASSUME NEW k \in Jobs, ~Working(k)
    PROVE  ListInv(k) /\ RunInv(k)
<1>1. job[k].pc \in {"idle", "gate", "vault"}
  BY DEF Working
<1> QED
  BY <1>1 DEF ListInv, RunInv, Holding

(* Only the job that moves has to be looked at.                            *)
LEMMA OneClaim ==
    ASSUME NEW j \in Jobs, Others(j), \A k \in Jobs : k # j => ~Working(k),
           RowsInv', ListInv(j)', RunInv(j)'
    PROVE  WorkInv'
<1>1. ASSUME NEW k \in Jobs, k # j
      PROVE  ListInv(k)' /\ RunInv(k)'
  <2>1. job'[k].pc \in {"idle", "gate", "vault"}
    BY <1>1 DEF Others, Working
  <2> QED
    BY <2>1 DEF ListInv, RunInv, Holding
<1> QED
  BY <1>1 DEF WorkInv

(* The row being settled is the one SUBMITTED batch, with all its tickets. *)
LEMMA SettledRow ==
    ASSUME ShapeInv, WorkInv, NEW j \in Jobs, NEW s, Settles(j, s)
    PROVE  /\ s.batch \in Batches /\ s.ids \in SUBSET Tickets
           /\ Submitted = {s.batch} /\ s.ids = BoundTo(s.batch)
<1>1. s.batch \in Submitted /\ s.ids = BoundTo(s.batch)
  <2>1. CASE job[j].pc = "await" /\ s = [batch |-> job[j].batch, ids |-> job[j].chunk, hash |-> TRUE]
    BY <2>1 DEF WorkInv, RunInv, Holding
  <2>2. CASE job[j].pc = "resolve" /\ s \in job[j].stuck
    BY <2>2 DEF WorkInv, ListInv
  <2> QED
    BY <2>1, <2>2 DEF Settles
<1>2. Submitted = {s.batch}
  BY <1>1 DEF WorkInv, RowsInv
<1> QED
  BY <1>1, <1>2, SettledType

(* The rows keep their relation when neither tickets nor batches change.   *)
LEMMA RowsKept ==
    ASSUME ShapeInv, RowsInv, UNCHANGED ticket,
           \A b \in Batches : batch'[b].status = batch[b].status,
           \A b \in Batches : tx[b].state = "none" /\ batch[b].status = "absent"
                                => tx'[b].state = "none",
           status' = "SUCCESS" => Unstamped = {}
    PROVE  /\ RowsInv' /\ Unstamped' = Unstamped /\ Submitted' = Submitted
           /\ \A b \in Batches : BoundTo(b)' = BoundTo(b)
<1>1. /\ Unstamped' = Unstamped /\ Submitted' = Submitted
      /\ \A b \in Batches : BoundTo(b)' = BoundTo(b)
  BY DEF Unstamped, Submitted, BoundTo
<1>2. ASSUME NEW t \in Tickets, ticket[t].nft # NoNft
      PROVE  ticket[t].batch # NoBatch /\ batch'[ticket[t].batch].status = "CONFIRMED"
  <2>1. ticket[t].batch # NoBatch /\ batch[ticket[t].batch].status = "CONFIRMED"
    BY <1>2 DEF RowsInv
  <2>2. ticket[t].batch \in Batches
    BY <2>1 DEF ShapeInv, TypeOK, TicketRows
  <2> QED
    BY <2>1, <2>2
<1>3. \A t \in Tickets : ticket[t].nft = NoNft /\ ticket[t].batch # NoBatch
                           => ticket[t].batch \in Submitted'
  BY <1>1 DEF RowsInv
<1>4. \A b \in Batches : batch'[b].status = "absent" => tx'[b].state = "none"
  BY DEF RowsInv
<1>5. /\ \A b, d \in Submitted' : b = d
      /\ status' = "SUCCESS" => Unstamped' = {}
  BY <1>1 DEF RowsInv
<1> QED
  BY <1>1, <1>2, <1>3, <1>4, <1>5 DEF RowsInv

(* A job that stays where it is keeps its claim while the rows stay.       *)
LEMMA ClaimKept ==
    ASSUME ShapeInv, NEW k \in Jobs, ListInv(k), RunInv(k), job'[k] = job[k],
           Unstamped' = Unstamped, Submitted' = Submitted,
           \A b \in Batches : BoundTo(b)' = BoundTo(b),
           \A b \in Batches : tx[b].state = "none" => tx'[b].state = "none"
    PROVE  ListInv(k)' /\ RunInv(k)'
<1>1. ListInv(k)'
  <2> SUFFICES ASSUME job[k].pc = "resolve"
               PROVE  /\ \A s \in job[k].stuck : s.batch \in Submitted /\ s.ids = BoundTo(s.batch)'
                      /\ \A s, r \in job[k].stuck : s = r
                      /\ \A b \in Submitted : \E s \in job[k].stuck : s.batch = b
    BY DEF ListInv
  <2>1. \A s \in job[k].stuck : s.batch \in Batches
    BY DEF ListInv, Submitted
  <2> QED
    BY <2>1 DEF ListInv
<1>2. RunInv(k)'
  <2>1. CASE job[k].pc \in Holding
    <3>1. job[k].batch \in Batches
      BY <2>1 DEF ShapeInv, BatchInv
    <3> QED
      BY <2>1, <3>1 DEF RunInv, Holding
  <2>2. CASE job[k].pc \notin Holding
    BY <2>2 DEF RunInv, Holding
  <2> QED
    BY <2>1, <2>2
<1> QED
  BY <1>1, <1>2

(* A job that takes up, passes the gate, locks, lists nothing yet, fails   *)
(* or goes to sleep touches neither rows nor transactions and claims       *)
(* nothing of them.                                                        *)
LEMMA QuietMove ==
    ASSUME ShapeInv, WorkInv, NEW j \in Jobs, Others(j), UNCHANGED <<rows, tx>>,
           job'[j].pc \in {"idle", "gate", "vault", "list", "throw", "refused"},
           status' = "SUCCESS" => Unstamped = {}
    PROVE  WorkInv'
<1>1. /\ RowsInv' /\ Unstamped' = Unstamped /\ Submitted' = Submitted
      /\ \A b \in Batches : BoundTo(b)' = BoundTo(b)
  BY RowsKept DEF WorkInv, rows
<1>2. ListInv(j)' /\ RunInv(j)'
  BY DEF ListInv, RunInv, Holding
<1>3. ASSUME NEW k \in Jobs, k # j
      PROVE  ListInv(k)' /\ RunInv(k)'
  <2>1. ListInv(k) /\ RunInv(k) /\ job'[k] = job[k]
    BY <1>3 DEF WorkInv, Others
  <2>2. UNCHANGED tx
    OBVIOUS
  <2> QED
    BY <1>1, <2>1, <2>2, ClaimKept
<1> QED
  BY <1>1, <1>2, <1>3 DEF WorkInv

(* The list of stuck batches is complete when it is made.                  *)
LEMMA ListWork ==
    ASSUME ShapeInv, LockInv, WorkInv, NEW j \in Jobs, ListStuck(j)
    PROVE  WorkInv'
<1>1. /\ Others(j) /\ UNCHANGED <<order, rows, tx>>
      /\ job[j].pc = "list" /\ job'[j].pc = "resolve"
      /\ job'[j].stuck = {[batch |-> b, ids |-> BoundTo(b), hash |-> batch[b].hash] : b \in Submitted}
  BY ListStuckEffect
<1>2. /\ RowsInv' /\ Unstamped' = Unstamped /\ Submitted' = Submitted
      /\ \A b \in Batches : BoundTo(b)' = BoundTo(b)
  BY <1>1, RowsKept DEF WorkInv, RowsInv, order, rows
<1>3. \A k \in Jobs : k # j => ~Working(k)
  BY <1>1, AloneAtWork DEF Working
<1>4. RunInv(j)'
  BY <1>1 DEF RunInv, Holding
<1>5. Submitted \subseteq Batches /\ \A b, d \in Submitted : b = d
  BY DEF Submitted, WorkInv, RowsInv
<1>6. ListInv(j)'
  <2>1. \A s \in job'[j].stuck : s.batch \in Submitted /\ s.ids = BoundTo(s.batch)'
    BY <1>1, <1>2, <1>5
  <2>2. \A s, r \in job'[j].stuck : s = r
    BY <1>1, <1>5
  <2>3. ASSUME NEW b \in Submitted
        PROVE  \E s \in job'[j].stuck : s.batch = b
    <3> DEFINE q == [batch |-> b, ids |-> BoundTo(b), hash |-> batch[b].hash]
    <3>1. q \in job'[j].stuck /\ q.batch = b
      BY <1>1
    <3> QED
      BY <3>1
  <2> QED
    BY <1>2, <2>1, <2>2, <2>3 DEF ListInv
<1> QED
  BY <1>1, <1>2, <1>3, <1>4, <1>6, OneClaim

(* The plan holds every ticket still to be bought: the stuck batches are   *)
(* settled, and nobody else binds tickets meanwhile.                       *)
LEMMA PlanWork ==
    ASSUME ShapeInv, LockInv, WorkInv, NEW j \in Jobs, Plan(j)
    PROVE  WorkInv'
<1>1. /\ Others(j) /\ UNCHANGED <<order, rows, tx>>
      /\ job[j].pc = "resolve" /\ job[j].stuck = {} /\ job'[j].pc = "chunk"
      /\ job'[j].todo = {t \in Tickets : ticket[t].nft = NoNft /\ ticket[t].batch = NoBatch}
  BY PlanEffect
<1>2. /\ RowsInv' /\ Unstamped' = Unstamped /\ Submitted' = Submitted
  BY <1>1, RowsKept DEF WorkInv, RowsInv, order, rows
<1>3. \A k \in Jobs : k # j => ~Working(k)
  BY <1>1, AloneAtWork DEF Working
<1>4. Submitted = {}
  BY <1>1 DEF WorkInv, ListInv
<1>5. job'[j].todo = Unstamped
  BY <1>1, <1>4 DEF WorkInv, RowsInv, Unstamped
<1>6. ListInv(j)' /\ RunInv(j)'
  BY <1>1, <1>2, <1>4, <1>5 DEF ListInv, RunInv, Holding
<1> QED
  BY <1>1, <1>2, <1>3, <1>6, OneClaim

(* A new batch starts with no ticket bound to it and nothing sent.         *)
LEMMA CreateWork ==
    ASSUME ShapeInv, LockInv, WorkInv, NEW j \in Jobs, NEW b \in Batches,
           NEW c \in SUBSET Tickets, CreateBatch(j, b, c)
    PROVE  WorkInv'
<1>1. /\ Others(j) /\ UNCHANGED <<order, ticket, tx>>
      /\ job[j].pc = "chunk" /\ IsChunk(c, job[j].todo) /\ batch[b].status = "absent"
      /\ job'[j].pc = "bind" /\ job'[j].todo = job[j].todo
      /\ job'[j].chunk = c /\ job'[j].batch = b
      /\ batch'[b].status = "SUBMITTED"
      /\ \A d \in Batches : d # b => batch'[d] = batch[d]
  BY CreateBatchEffect
<1>2. \A k \in Jobs : k # j => ~Working(k)
  BY <1>1, AloneAtWork DEF Working
<1>3. Submitted = {} /\ job[j].todo = Unstamped /\ RowsInv
  BY <1>1 DEF WorkInv, RunInv
<1>4. Submitted' = {b} /\ Unstamped' = Unstamped
  BY <1>1, <1>3 DEF Submitted, Unstamped
<1>5. \A t \in Tickets :
        /\ ticket[t].nft = NoNft => ticket[t].batch = NoBatch
        /\ ticket[t].nft # NoNft => /\ ticket[t].batch \in Batches
                                    /\ batch[ticket[t].batch].status = "CONFIRMED"
  BY <1>3 DEF RowsInv, ShapeInv, TypeOK, TicketRows
<1>6. BoundTo(b)' = {}
  BY <1>1, <1>5, RelayConstants DEF BoundTo
<1>7. tx'[b].state = "none"
  BY <1>1, <1>3 DEF RowsInv
<1>8. RowsInv'
  <2>1. \A t \in Tickets :
          /\ ticket'[t].nft = NoNft => ticket'[t].batch = NoBatch
          /\ ticket'[t].nft # NoNft => /\ ticket'[t].batch # NoBatch
                                       /\ batch'[ticket'[t].batch].status = "CONFIRMED"
    BY <1>1, <1>5, RelayConstants
  <2>2. \A d \in Batches : batch'[d].status = "absent" => tx'[d].state = "none"
    BY <1>1, <1>3 DEF RowsInv
  <2>3. status' = "SUCCESS" => Unstamped' = {}
    BY <1>1, <1>3, <1>4 DEF RowsInv, order
  <2> QED
    BY <1>4, <2>1, <2>2, <2>3 DEF RowsInv
<1>9. ListInv(j)' /\ RunInv(j)'
  BY <1>1, <1>3, <1>4, <1>6, <1>7 DEF ListInv, RunInv, Holding, IsChunk
<1> QED
  BY <1>1, <1>2, <1>8, <1>9, OneClaim

(* The chunk is bound to a batch that had no ticket.                       *)
LEMMA BindWork ==
    ASSUME ShapeInv, LockInv, WorkInv, NEW j \in Jobs, Bind(j)
    PROVE  WorkInv'
<1>1. /\ Others(j) /\ UNCHANGED <<order, batch, tx>>
      /\ job[j].pc = "bind" /\ job'[j].pc = "send"
      /\ job'[j].todo = job[j].todo /\ job'[j].chunk = job[j].chunk
      /\ job'[j].batch = job[j].batch
      /\ \A t \in Tickets :
           /\ ticket'[t].nft = ticket[t].nft
           /\ ticket'[t].batch = IF t \in job[j].chunk THEN job[j].batch ELSE ticket[t].batch
  BY BindEffect
<1>2. \A k \in Jobs : k # j => ~Working(k)
  BY <1>1, AloneAtWork DEF Working
<1>3. /\ job[j].batch \in Submitted /\ job[j].chunk \subseteq Unstamped
      /\ job[j].todo = Unstamped /\ BoundTo(job[j].batch) = {}
      /\ tx[job[j].batch].state = "none" /\ RowsInv
  BY <1>1 DEF WorkInv, RunInv, Holding
<1>4. Submitted' = Submitted /\ Unstamped' = Unstamped
  BY <1>1 DEF Submitted, Unstamped
<1>5. BoundTo(job[j].batch)' = job[j].chunk
  BY <1>1, <1>3 DEF BoundTo, Unstamped
<1>6. RowsInv'
  <2>1. ASSUME NEW t \in Tickets, ticket'[t].nft = NoNft, ticket'[t].batch # NoBatch
        PROVE  ticket'[t].batch \in Submitted
    BY <1>1, <1>3, <2>1 DEF RowsInv
  <2>2. ASSUME NEW t \in Tickets, ticket'[t].nft # NoNft
        PROVE  ticket'[t].batch # NoBatch /\ batch'[ticket'[t].batch].status = "CONFIRMED"
    BY <1>1, <1>3, <2>2 DEF RowsInv, Unstamped
  <2>3. /\ \A b, d \in Submitted : b = d
        /\ \A b \in Batches : batch'[b].status = "absent" => tx'[b].state = "none"
        /\ status' = "SUCCESS" => Unstamped = {}
    BY <1>1, <1>3 DEF RowsInv, order
  <2> QED
    BY <1>4, <2>1, <2>2, <2>3 DEF RowsInv
<1>7. ListInv(j)' /\ RunInv(j)'
  BY <1>1, <1>3, <1>4, <1>5 DEF ListInv, RunInv, Holding
<1> QED
  BY <1>1, <1>2, <1>6, <1>7, OneClaim

(* Sending touches the transaction of the job's own batch, and storing the *)
(* hash no status.                                                         *)
LEMMA SendWork ==
    ASSUME ShapeInv, LockInv, WorkInv, NEW j \in Jobs,
           Send(j) \/ SendThrows(j) \/ SendRefused(j) \/ Store(j)
    PROVE  WorkInv'
<1>1. /\ Others(j) /\ UNCHANGED <<order, ticket>>
      /\ \A d \in Batches : batch'[d].status = batch[d].status
      /\ job[j].pc \in {"send", "store"}
      /\ Leaves(job[j].batch, job[j].chunk) \/ UNCHANGED tx
      /\ \/ job'[j].pc \in {"throw", "refused"}
         \/ /\ job'[j].pc \in {"store", "await"} /\ job'[j].todo = job[j].todo
            /\ job'[j].chunk = job[j].chunk /\ job'[j].batch = job[j].batch
  <2>1. CASE Send(j) \/ SendThrows(j) \/ SendRefused(j)
    BY <2>1, SendEffect, SendFailsEffect DEF rows
  <2>2. CASE Store(j)
    BY <2>2, StoreEffect
  <2> QED
    BY <2>1, <2>2
<1>2. \A k \in Jobs : k # j => ~Working(k)
  BY <1>1, AloneAtWork DEF Working
<1>3. /\ job[j].batch \in Submitted /\ job[j].batch \in Batches
      /\ job[j].chunk \subseteq Unstamped
      /\ job[j].todo = Unstamped /\ BoundTo(job[j].batch) = job[j].chunk
  BY <1>1 DEF WorkInv, RunInv, Holding, Submitted
<1>4. \A b \in Batches : tx[b].state = "none" /\ batch[b].status = "absent"
                           => tx'[b].state = "none"
  BY <1>1, <1>3 DEF Submitted, Leaves
<1>5. /\ RowsInv' /\ Unstamped' = Unstamped /\ Submitted' = Submitted
      /\ \A b \in Batches : BoundTo(b)' = BoundTo(b)
  BY <1>1, <1>4, RowsKept DEF WorkInv, RowsInv, order
<1>6. ListInv(j)' /\ RunInv(j)'
  BY <1>1, <1>3, <1>5 DEF ListInv, RunInv, Holding
<1> QED
  BY <1>1, <1>2, <1>5, <1>6, OneClaim

(* A stamped batch was the only one in flight, and all its tickets leave   *)
(* the list.                                                               *)
LEMMA StampWork ==
    ASSUME ShapeInv, LockInv, WorkInv, NEW j \in Jobs, NEW s, NEW stamp,
           Confirm(j, s, stamp) \/ Recover(j, s, stamp)
    PROVE  /\ WorkInv' /\ Unstamped' = Unstamped \ s.ids /\ Submitted' = {}
<1>1. /\ Others(j) /\ UNCHANGED <<order, tx>> /\ Settles(j, s) /\ Moves(j, s)
      /\ job'[j].pc # "throw"
  BY StampEffect
<1>2. PICK by \in MinedOnes : /\ stamp \in [s.ids -> tx[by].chunk]
                              /\ Stamped(s.batch, s.ids, by, stamp)
  BY StampEffect
<1>3. /\ s.batch \in Batches /\ s.ids \in SUBSET Tickets
      /\ Submitted = {s.batch} /\ s.ids = BoundTo(s.batch)
  BY <1>1, SettledRow
<1>4. status = "PROCESSING" /\ \A k \in Jobs : k # j => ~Working(k)
  BY <1>1, AloneAtWork DEF Working, Settles
<1>5. ASSUME NEW t \in s.ids
      PROVE  ticket'[t].nft # NoNft
  <2>1. by \in Batches /\ tx[by].chunk \in SUBSET Tickets
    BY DEF MinedOnes, ShapeInv, TypeOK, Sends
  <2>2. stamp[t] \in Tickets
    BY <1>2, <2>1
  <2>3. ticket'[t].nft = <<by, stamp[t]>>
    BY <1>2, <1>3 DEF Stamped
  <2>4. <<by, stamp[t]>> \in Batches \X Tickets
    BY <2>1, <2>2
  <2> QED
    BY <2>3, <2>4, RelayConstants
<1>6. Unstamped' = Unstamped \ s.ids
  BY <1>2, <1>5 DEF Unstamped, Stamped
<1>7. Submitted' = {}
  BY <1>2, <1>3 DEF Submitted, Stamped
<1>8. RowsInv'
  <2>1. ASSUME NEW t \in Tickets, ticket'[t].nft = NoNft, ticket'[t].batch # NoBatch
        PROVE  FALSE
    BY <1>2, <1>3, <1>5, <2>1 DEF WorkInv, RowsInv, Stamped, BoundTo
  <2>2. ASSUME NEW t \in Tickets, ticket'[t].nft # NoNft
        PROVE  ticket'[t].batch # NoBatch /\ batch'[ticket'[t].batch].status = "CONFIRMED"
    <3>1. CASE t \in s.ids
      BY <1>2, <1>3, <3>1, RelayConstants DEF Stamped, BoundTo
    <3>2. CASE t \notin s.ids
      <4>1. ticket[t].batch # NoBatch /\ batch[ticket[t].batch].status = "CONFIRMED"
        BY <1>2, <2>2, <3>2 DEF WorkInv, RowsInv, Stamped
      <4>2. ticket[t].batch \in Batches
        BY <4>1 DEF ShapeInv, TypeOK, TicketRows
      <4>3. ticket[t].batch # s.batch
        BY <1>3, <4>1 DEF Submitted
      <4> QED
        BY <1>2, <4>1, <4>2, <4>3 DEF Stamped
    <3> QED
      BY <3>1, <3>2
  <2>3. \A b \in Batches : batch'[b].status = "absent" => tx'[b].state = "none"
    BY <1>1, <1>2 DEF WorkInv, RowsInv, Stamped
  <2>4. status' # "SUCCESS"
    BY <1>1, <1>4 DEF order
  <2> QED
    BY <1>7, <2>1, <2>2, <2>3, <2>4 DEF RowsInv
<1>9. ListInv(j)' /\ RunInv(j)'
  <2>1. CASE job[j].pc = "resolve"
    <3>1. job'[j].pc = "resolve" /\ job'[j].stuck = {}
      BY <1>1, <2>1 DEF Moves, Settles, WorkInv, ListInv
    <3> QED
      BY <1>7, <3>1 DEF ListInv, RunInv, Holding
  <2>2. CASE job[j].pc = "await"
    <3>1. job'[j].pc = "chunk" /\ job'[j].todo = Unstamped \ s.ids
      BY <1>1, <2>2 DEF Moves, WorkInv, RunInv, Holding
    <3> QED
      BY <1>6, <1>7, <3>1 DEF ListInv, RunInv, Holding
  <2> QED
    BY <1>1, <2>1, <2>2 DEF Settles
<1> QED
  BY <1>1, <1>4, <1>6, <1>7, <1>8, <1>9, OneClaim

(* A released batch was the only one in flight, and none of its tickets    *)
(* had an NFT.                                                             *)
LEMMA GiveUpWork ==
    ASSUME ShapeInv, LockInv, WorkInv, NEW j \in Jobs, NEW s,
           ReleaseUnsent(j, s) \/ GiveUpReverted(j, s) \/ GiveUpWaiting(j, s)
    PROVE  WorkInv'
<1>1. /\ Others(j) /\ UNCHANGED <<order, tx>> /\ Settles(j, s) /\ Moves(j, s)
      /\ job'[j].pc # "chunk" /\ Unbinds(s.batch, s.ids)
  BY GiveUpEffect
<1>3. /\ s.batch \in Batches /\ s.ids \in SUBSET Tickets
      /\ Submitted = {s.batch} /\ s.ids = BoundTo(s.batch)
  BY <1>1, SettledRow
<1>4. status = "PROCESSING" /\ \A k \in Jobs : k # j => ~Working(k)
  BY <1>1, AloneAtWork DEF Working, Settles
<1>7. Submitted' = {}
  BY <1>1, <1>3 DEF Submitted, Unbinds
<1>8. RowsInv'
  <2>1. ASSUME NEW t \in Tickets, ticket'[t].nft = NoNft, ticket'[t].batch # NoBatch
        PROVE  FALSE
    BY <1>1, <1>3, <2>1 DEF WorkInv, RowsInv, Unbinds, BoundTo
  <2>2. ASSUME NEW t \in Tickets, ticket'[t].nft # NoNft
        PROVE  ticket'[t].batch # NoBatch /\ batch'[ticket'[t].batch].status = "CONFIRMED"
    <3>1. ticket[t].batch # NoBatch /\ batch[ticket[t].batch].status = "CONFIRMED"
      BY <1>1, <2>2 DEF WorkInv, RowsInv, Unbinds
    <3>2. ticket[t].batch \in Batches
      BY <3>1 DEF ShapeInv, TypeOK, TicketRows
    <3>3. ticket[t].batch # s.batch
      BY <1>3, <3>1 DEF Submitted
    <3>4. t \notin s.ids
      BY <1>3, <3>3 DEF BoundTo
    <3> QED
      BY <1>1, <3>1, <3>2, <3>3, <3>4 DEF Unbinds
  <2>3. \A b \in Batches : batch'[b].status = "absent" => tx'[b].state = "none"
    BY <1>1 DEF WorkInv, RowsInv, Unbinds
  <2>4. status' # "SUCCESS"
    BY <1>1, <1>4 DEF order
  <2> QED
    BY <1>7, <2>1, <2>2, <2>3, <2>4 DEF RowsInv
<1>9. ListInv(j)' /\ RunInv(j)'
  <2>1. CASE job[j].pc = "resolve"
    <3>1. job'[j].pc = "resolve" /\ job'[j].stuck = {}
      BY <1>1, <2>1 DEF Moves, Settles, WorkInv, ListInv
    <3> QED
      BY <1>7, <3>1 DEF ListInv, RunInv, Holding
  <2>2. CASE job[j].pc = "await"
    <3>1. job'[j].pc = "throw"
      BY <1>1, <2>2 DEF Moves
    <3> QED
      BY <3>1 DEF ListInv, RunInv, Holding
  <2> QED
    BY <1>1, <2>1, <2>2 DEF Settles
<1> QED
  BY <1>1, <1>4, <1>8, <1>9, OneClaim

(* The first rows agree.                                                   *)
LEMMA WorkInit == Init => WorkInv
<1> SUFFICES ASSUME Init
             PROVE  WorkInv
  OBVIOUS
<1>1. \A t \in Tickets : ticket[t].nft = NoNft /\ ticket[t].batch = NoBatch
  BY DEF Init
<1>2. \A b \in Batches : batch[b].status = "absent" /\ tx[b].state = "none"
  BY DEF Init, NoSend
<1>3. \A k \in Jobs : ~Working(k)
  BY AsleepType DEF Init, Working
<1>4. RowsInv
  BY <1>1, <1>2 DEF Init, RowsInv, Submitted
<1> QED
  BY <1>3, <1>4, NoClaim DEF WorkInv

(* Base's transactions and Megapot's calendar do not touch the rows.       *)
LEMMA EnvironmentWork ==
    ASSUME ShapeInv, WorkInv, Environment
    PROVE  WorkInv'
<1>1. /\ UNCHANGED <<order, rows, job>>
      /\ \A b \in Batches : tx[b].state = "none" => tx'[b].state = "none"
  <2>1. CASE LockRound \/ Rollover \/ NewRound
    BY <2>1, CalendarEffect
  <2>2. ASSUME NEW b \in Batches, Mine(b) \/ Spoil(b, "dropped") \/ Spoil(b, "reverted")
        PROVE  /\ UNCHANGED <<order, rows, job>>
               /\ \A d \in Batches : tx[d].state = "none" => tx'[d].state = "none"
    BY <2>2, ChainEffect DEF Turned
  <2> QED
    BY <2>1, <2>2 DEF Environment
<1>2. /\ RowsInv' /\ Unstamped' = Unstamped /\ Submitted' = Submitted
      /\ \A b \in Batches : BoundTo(b)' = BoundTo(b)
  BY <1>1, RowsKept DEF WorkInv, RowsInv, order, rows
<1>3. ASSUME NEW k \in Jobs
      PROVE  ListInv(k)' /\ RunInv(k)'
  <2>1. ListInv(k) /\ RunInv(k) /\ job'[k] = job[k]
    BY <1>1 DEF WorkInv
  <2> QED
    BY <1>1, <1>2, <2>1, ClaimKept
<1> QED
  BY <1>2, <1>3 DEF WorkInv

(* The reconciler writes a status that is not SUCCESS.                     *)
LEMMA ReconcilerWork ==
    ASSUME ShapeInv, WorkInv, Reconciler
    PROVE  WorkInv'
<1>1. UNCHANGED <<rows, job, tx>> /\ status' # "SUCCESS"
  BY ReconcilerEffect
<1>2. /\ RowsInv' /\ Unstamped' = Unstamped /\ Submitted' = Submitted
      /\ \A b \in Batches : BoundTo(b)' = BoundTo(b)
  BY <1>1, RowsKept DEF WorkInv, rows
<1>3. ASSUME NEW k \in Jobs
      PROVE  ListInv(k)' /\ RunInv(k)'
  <2>1. ListInv(k) /\ RunInv(k) /\ job'[k] = job[k] /\ UNCHANGED tx
    BY <1>1 DEF WorkInv
  <2> QED
    BY <1>2, <2>1, ClaimKept
<1> QED
  BY <1>2, <1>3 DEF WorkInv

(* Every step keeps rows and claims together.                              *)
LEMMA WorkStep ==
    ASSUME FreshStatus, ShapeInv, LockInv, WorkInv, [Next]_vars
    PROVE  WorkInv'
<1>1. CASE Environment
  BY <1>1, EnvironmentWork
<1>2. CASE Reconciler
  BY <1>2, ReconcilerWork
<1>3. ASSUME NEW j \in Jobs, Run(j) \/ Misfortune(j)
      PROVE  WorkInv'
  <2>1. status = "SUCCESS" => Unstamped = {}
    BY DEF WorkInv, RowsInv
  <2>2. CASE Take(j) \/ PassGate(j) \/ Crash(j)
    <3>1. /\ Others(j) /\ UNCHANGED <<rows, tx>> /\ status' = status
          /\ job'[j].pc \in {"idle", "gate", "vault"}
      BY <2>2, TakeEffect, PassGateEffect, CrashEffect, AsleepType DEF order
    <3> QED
      BY <2>1, <3>1, QuietMove
  <2>3. CASE Defer(j) \/ Underfunded(j) \/ Fail(j)
    <3>1. /\ Others(j) /\ UNCHANGED <<rows, tx>> /\ status' # "SUCCESS"
          /\ job'[j].pc = "idle"
      BY <2>3, HoldBackEffect, FailEffect, AsleepType
    <3> QED
      BY <3>1, QuietMove
  <2>4. CASE Lock(j)
    <3>1. /\ Others(j) /\ UNCHANGED <<rows, tx>> /\ status' \in {status, "PROCESSING"}
          /\ job'[j].pc \in {"idle", "list"}
      BY <2>4, LockEffect, AsleepType
    <3> QED
      BY <2>1, <3>1, QuietMove
  <2>5. CASE Done(j)
    <3>1. /\ Others(j) /\ UNCHANGED <<rows, tx>> /\ job'[j].pc = "idle"
          /\ job[j].pc = "chunk" /\ job[j].todo = {}
      BY <2>5, DoneEffect, AsleepType
    <3>2. Unstamped = {}
      BY <3>1 DEF WorkInv, RunInv
    <3> QED
      BY <3>1, <3>2, QuietMove
  <2>6. CASE ListStuck(j) \/ Plan(j) \/ Bind(j)
    BY <2>6, ListWork, PlanWork, BindWork
  <2>7. CASE Send(j) \/ SendThrows(j) \/ SendRefused(j) \/ Store(j)
    BY <2>7, SendWork
  <2>8. ASSUME NEW b \in Batches, NEW c \in SUBSET Tickets, CreateBatch(j, b, c)
        PROVE  WorkInv'
    BY <2>8, CreateWork
  <2>9. ASSUME NEW s, NEW stamp, Confirm(j, s, stamp) \/ Recover(j, s, stamp)
        PROVE  WorkInv'
    BY <2>9, StampWork
  <2>10. ASSUME NEW s, ReleaseUnsent(j, s) \/ GiveUpReverted(j, s) \/ GiveUpWaiting(j, s)
         PROVE  WorkInv'
    BY <2>10, GiveUpWork
  <2> QED
    BY <1>3, <2>2, <2>3, <2>4, <2>5, <2>6, <2>7, <2>8, <2>9, <2>10, JobSteps
<1>4. CASE UNCHANGED vars
  BY <1>4 DEF vars, WorkInv, RowsInv, ListInv, RunInv, Unstamped, Submitted, BoundTo
<1> QED
  BY <1>1, <1>2, <1>3, <1>4 DEF Next

(* An order is reported SUCCESS only with every ticket bought and stamped, *)
(* whatever crashes, is lost or reverts: the job that reports it works     *)
(* alone, and its list holds what the rows say is still to be bought.      *)
THEOREM SuccessMeansAll == ASSUME FreshStatus PROVE Spec => []SuccessIsComplete
<1> DEFINE IInv == ShapeInv /\ LockInv /\ WorkInv
<1>1. Init => IInv
  BY ShapeInit, LockInit, WorkInit
<1>2. IInv /\ [Next]_vars => IInv'
  BY ShapeStep, LockStep, WorkStep
<1>3. IInv => SuccessIsComplete
  BY DEF WorkInv, RowsInv, SuccessIsComplete, Unstamped
<1> QED
  BY <1>1, <1>2, <1>3, PTL DEF Spec

-----------------------------------------------------------------------------
(* The purchases of stamped tickets stay what they are when no ticket is   *)
(* stamped and no purchase is taken back.                                  *)
LEMMA PaidKept ==
    ASSUME ShapeInv, PaidInv, \A t \in Tickets : ticket'[t].nft = ticket[t].nft,
           \A b \in MinedOnes : tx'[b] = tx[b],
           \A b \in (Submitted \cap Sent)' : tx'[b].chunk = BoundTo(b)'
    PROVE  PaidInv'
<1>1. Unstamped' = Unstamped
  BY DEF Unstamped
<1>2. ASSUME NEW t \in Tickets \ Unstamped
      PROVE  /\ ticket'[t].nft[1] \in Purchases(t)'
             /\ tx'[ticket'[t].nft[1]].chunk \cap Unstamped' = {}
  <2>1. ticket[t].nft[1] \in Purchases(t) /\ ticket'[t].nft[1] = ticket[t].nft[1]
    BY DEF PaidInv
  <2>2. ticket[t].nft[1] \in MinedOnes
    BY <2>1 DEF Purchases, MinedOnes
  <2>3. tx'[ticket[t].nft[1]] = tx[ticket[t].nft[1]]
    BY <2>2
  <2> QED
    BY <1>1, <2>1, <2>3 DEF PaidInv, Purchases
<1>3. \A t, u \in Tickets \ Unstamped : ticket'[t].nft = ticket'[u].nft => t = u
  BY DEF PaidInv
<1> QED
  BY <1>1, <1>2, <1>3 DEF PaidInv

(* A job's locals, a round or a status say nothing of purchases.           *)
LEMMA PaidQuiet ==
    ASSUME ShapeInv, PaidInv, UNCHANGED <<rows, tx>>
    PROVE  PaidInv'
<1>1. \A b \in (Submitted \cap Sent)' : tx'[b].chunk = BoundTo(b)'
  BY DEF PaidInv, Submitted, Sent, BoundTo, rows
<1> QED
  BY <1>1, PaidKept DEF rows

(* Nothing was sent yet for the batch that is created and bound.           *)
LEMMA PaidPrepare ==
    ASSUME ShapeInv, LockInv, WorkInv, PaidInv, NEW j \in Jobs,
           \/ \E b \in Batches, c \in SUBSET Tickets : CreateBatch(j, b, c)
           \/ Bind(j)
    PROVE  PaidInv'
<1>1. ASSUME NEW b \in Batches, NEW c \in SUBSET Tickets, CreateBatch(j, b, c)
      PROVE  PaidInv'
  <2>1. /\ UNCHANGED <<ticket, tx>> /\ job[j].pc = "chunk" /\ batch[b].status = "absent"
        /\ \A d \in Batches : d # b => batch'[d] = batch[d]
    BY <1>1, CreateBatchEffect
  <2>2. Submitted = {} /\ tx[b].state = "none"
    BY <2>1 DEF WorkInv, RunInv, RowsInv
  <2>3. (Submitted \cap Sent)' = {}
    BY <2>1, <2>2 DEF Submitted, Sent
  <2> QED
    BY <2>1, <2>3, PaidKept
<1>2. CASE Bind(j)
  <2>1. /\ UNCHANGED <<batch, tx>> /\ job[j].pc = "bind"
        /\ \A t \in Tickets : ticket'[t].nft = ticket[t].nft
    BY <1>2, BindEffect
  <2>2. job[j].batch \in Submitted /\ tx[job[j].batch].state = "none"
    BY <2>1 DEF WorkInv, RunInv, Holding
  <2>3. Submitted = {job[j].batch}
    BY <2>2 DEF WorkInv, RowsInv
  <2>4. (Submitted \cap Sent)' = {}
    BY <2>1, <2>2, <2>3 DEF Submitted, Sent
  <2> QED
    BY <2>1, <2>4, PaidKept
<1> QED
  BY <1>1, <1>2

(* What is sent is what hangs on the batch.                                *)
LEMMA PaidSend ==
    ASSUME ShapeInv, WorkInv, PaidInv, NEW j \in Jobs,
           Send(j) \/ SendThrows(j) \/ SendRefused(j) \/ Store(j)
    PROVE  PaidInv'
<1>1. /\ UNCHANGED ticket
      /\ \A d \in Batches : batch'[d].status = batch[d].status
      /\ \/ job[j].pc = "send" /\ Leaves(job[j].batch, job[j].chunk)
         \/ UNCHANGED tx
  <2>1. CASE Send(j) \/ SendThrows(j) \/ SendRefused(j)
    BY <2>1, SendEffect, SendFailsEffect DEF rows
  <2>2. CASE Store(j)
    BY <2>2, StoreEffect
  <2> QED
    BY <2>1, <2>2
<1>2. Submitted' = Submitted /\ \A b \in Batches : BoundTo(b)' = BoundTo(b)
  BY <1>1 DEF Submitted, BoundTo
<1>3. CASE UNCHANGED tx
  <2>1. \A b \in (Submitted \cap Sent)' : tx'[b].chunk = BoundTo(b)'
    BY <1>2, <1>3 DEF PaidInv, Sent
  <2> QED
    BY <1>1, <1>3, <2>1, PaidKept
<1>4. CASE job[j].pc = "send" /\ Leaves(job[j].batch, job[j].chunk)
  <2>1. /\ job[j].batch \in Submitted /\ BoundTo(job[j].batch) = job[j].chunk
        /\ tx[job[j].batch].state = "none"
    BY <1>4 DEF WorkInv, RunInv, Holding
  <2>2. Submitted = {job[j].batch} /\ job[j].batch \in Batches
    BY <2>1 DEF WorkInv, RowsInv, Submitted
  <2>3. tx'[job[j].batch].chunk = BoundTo(job[j].batch)
    BY <1>4, <2>1 DEF Leaves
  <2>4. \A b \in (Submitted \cap Sent)' : tx'[b].chunk = BoundTo(b)'
    BY <1>2, <2>2, <2>3
  <2>5. \A b \in MinedOnes : tx'[b] = tx[b]
    BY <1>4, <2>1 DEF Leaves, MinedOnes
  <2> QED
    BY <1>1, <2>4, <2>5, PaidKept
<1> QED
  BY <1>1, <1>3, <1>4

(* The tickets being stamped are those of the purchase they are stamped    *)
(* by, and none of them was stamped before.                                *)
LEMMA PaidStamp ==
    ASSUME ShapeInv, LockInv, WorkInv, PaidInv, NEW j \in Jobs, NEW s, NEW stamp,
           Confirm(j, s, stamp) \/ Recover(j, s, stamp)
    PROVE  PaidInv'
<1>1. Settles(j, s) /\ UNCHANGED tx
  BY StampEffect
<1>2. PICK by \in MinedOnes : /\ stamp \in [s.ids -> tx[by].chunk]
                              /\ \A t, u \in s.ids : stamp[t] = stamp[u] => t = u
                              /\ by = s.batch \/ tx[by].chunk = s.ids
                              /\ Stamped(s.batch, s.ids, by, stamp)
  BY StampEffect
<1>3. /\ s.batch \in Batches /\ s.ids \in SUBSET Tickets
      /\ Submitted = {s.batch} /\ s.ids = BoundTo(s.batch)
  BY <1>1, SettledRow
<1>4. tx[by].chunk = s.ids
  <2>1. CASE by = s.batch
    BY <1>3, <2>1 DEF PaidInv, Sent, MinedOnes
  <2> QED
    BY <1>2, <2>1
<1>5. Unstamped' = Unstamped \ s.ids /\ Submitted' = {}
  BY StampWork
<1>6. s.ids \subseteq Unstamped
  <2> SUFFICES ASSUME NEW t \in s.ids, ticket[t].nft # NoNft
               PROVE  FALSE
    BY <1>3 DEF Unstamped
  <2>1. t \in Tickets /\ ticket[t].batch = s.batch /\ batch[s.batch].status = "CONFIRMED"
    BY <1>3 DEF BoundTo, WorkInv, RowsInv
  <2> QED
    BY <1>3, <2>1 DEF Submitted
<1>7. /\ \A t \in s.ids : ticket'[t].nft = <<by, stamp[t]>>
      /\ \A t \in Tickets \ s.ids : ticket'[t].nft = ticket[t].nft
  BY <1>2, <1>3 DEF Stamped
<1>8. ASSUME NEW t \in Tickets \ Unstamped'
      PROVE  /\ ticket'[t].nft[1] \in Purchases(t)'
             /\ tx'[ticket'[t].nft[1]].chunk \cap Unstamped' = {}
  <2>1. CASE t \in s.ids
    <3>1. ticket'[t].nft[1] = by /\ by \in Purchases(t)
      BY <1>4, <1>7, <2>1 DEF MinedOnes, Purchases
    <3> QED
      BY <1>1, <1>4, <1>5, <3>1 DEF Purchases
  <2>2. CASE t \notin s.ids
    <3>1. t \in Tickets \ Unstamped /\ ticket'[t].nft = ticket[t].nft
      BY <1>5, <1>7, <2>2
    <3> QED
      BY <1>1, <1>5, <3>1 DEF PaidInv, Purchases
  <2> QED
    BY <2>1, <2>2
<1>9. ASSUME NEW t \in s.ids, NEW u \in (Tickets \ Unstamped) \ s.ids
      PROVE  ticket'[t].nft # ticket'[u].nft
  <2>1. ticket'[t].nft[1] = by /\ ticket'[u].nft = ticket[u].nft
    BY <1>7
  <2>2. ticket[u].nft[1] # by
    BY <1>4, <1>6 DEF PaidInv
  <2> QED
    BY <2>1, <2>2
<1>10. ASSUME NEW t \in Tickets \ Unstamped', NEW u \in Tickets \ Unstamped',
              ticket'[t].nft = ticket'[u].nft
       PROVE  t = u
  <2>1. t \in s.ids \/ t \in (Tickets \ Unstamped) \ s.ids
    BY <1>5
  <2>2. u \in s.ids \/ u \in (Tickets \ Unstamped) \ s.ids
    BY <1>5
  <2>3. CASE t \in s.ids /\ u \in s.ids
    BY <1>2, <1>7, <1>10, <2>3
  <2>4. CASE t \notin s.ids /\ u \notin s.ids
    BY <1>7, <1>10, <2>1, <2>2, <2>4 DEF PaidInv
  <2> QED
    BY <1>9, <1>10, <2>1, <2>2, <2>3, <2>4
<1> QED
  BY <1>5, <1>8, <1>10 DEF PaidInv

(* A batch that is given up leaves nothing SUBMITTED.                      *)
LEMMA PaidGiveUp ==
    ASSUME ShapeInv, WorkInv, PaidInv, NEW j \in Jobs, NEW s,
           ReleaseUnsent(j, s) \/ GiveUpReverted(j, s) \/ GiveUpWaiting(j, s)
    PROVE  PaidInv'
<1>1. UNCHANGED tx /\ Settles(j, s) /\ Unbinds(s.batch, s.ids)
  BY GiveUpEffect
<1>2. Submitted = {s.batch}
  BY <1>1, SettledRow
<1>3. Submitted' = {}
  BY <1>1, <1>2 DEF Submitted, Unbinds
<1> QED
  BY <1>1, <1>3, PaidKept DEF Unbinds

(* Base changes neither what a transaction buys nor what it bought.        *)
LEMMA PaidMine ==
    ASSUME ShapeInv, PaidInv, NEW b \in Batches,
           Mine(b) \/ Spoil(b, "dropped") \/ Spoil(b, "reverted")
    PROVE  PaidInv'
<1>1. /\ UNCHANGED rows /\ tx[b].state = "mempool" /\ tx'[b].chunk = tx[b].chunk
      /\ \A d \in Batches : d # b => tx'[d] = tx[d]
  BY ChainEffect DEF Turned
<1>2. \A d \in (Submitted \cap Sent)' : tx'[d].chunk = BoundTo(d)'
  <2> SUFFICES ASSUME NEW d \in (Submitted \cap Sent)'
               PROVE  tx'[d].chunk = BoundTo(d)
    BY <1>1 DEF BoundTo, rows
  <2>1. d \in Submitted /\ d \in Batches /\ tx'[d].state # "none"
    BY <1>1 DEF Submitted, Sent, rows
  <2>2. d \in Sent /\ tx'[d].chunk = tx[d].chunk
    BY <1>1, <2>1 DEF Sent
  <2> QED
    BY <2>1, <2>2 DEF PaidInv
<1>3. \A d \in MinedOnes : tx'[d] = tx[d]
  BY <1>1 DEF MinedOnes
<1> QED
  BY <1>1, <1>2, <1>3, PaidKept DEF rows

(* Nobody has paid at first.                                               *)
LEMMA PaidInit == Init => PaidInv
  BY DEF Init, PaidInv, Unstamped, Submitted

(* Every step keeps the purchases of stamped tickets.                      *)
LEMMA PaidStep ==
    ASSUME ShapeInv, LockInv, WorkInv, PaidInv, [Next]_vars
    PROVE  PaidInv'
<1>1. CASE Environment
  <2>1. CASE LockRound \/ Rollover \/ NewRound
    BY <2>1, CalendarEffect, PaidQuiet
  <2> QED
    BY <1>1, <2>1, PaidMine DEF Environment
<1>2. CASE Reconciler
  BY <1>2, ReconcilerEffect, PaidQuiet
<1>3. ASSUME NEW j \in Jobs, Run(j) \/ Misfortune(j)
      PROVE  PaidInv'
  <2>1. CASE Take(j) \/ Defer(j) \/ Underfunded(j) \/ PassGate(j) \/ Lock(j)
    BY <2>1, TakeEffect, HoldBackEffect, PassGateEffect, LockEffect, PaidQuiet
  <2>2. CASE ListStuck(j) \/ Plan(j) \/ Done(j) \/ Fail(j) \/ Crash(j)
    BY <2>2, ListStuckEffect, PlanEffect, DoneEffect, FailEffect, CrashEffect, PaidQuiet
  <2>3. CASE (\E b \in Batches, c \in SUBSET Tickets : CreateBatch(j, b, c)) \/ Bind(j)
    BY <2>3, PaidPrepare
  <2>4. CASE Send(j) \/ SendThrows(j) \/ SendRefused(j) \/ Store(j)
    BY <2>4, PaidSend
  <2>5. ASSUME NEW s, NEW stamp, Confirm(j, s, stamp) \/ Recover(j, s, stamp)
        PROVE  PaidInv'
    BY <2>5, PaidStamp
  <2>6. ASSUME NEW s, ReleaseUnsent(j, s) \/ GiveUpReverted(j, s) \/ GiveUpWaiting(j, s)
        PROVE  PaidInv'
    BY <2>6, PaidGiveUp
  <2> QED
    BY <1>3, <2>1, <2>2, <2>3, <2>4, <2>5, <2>6, JobSteps
<1>4. CASE UNCHANGED vars
  BY <1>4, PaidQuiet DEF vars, rows
<1> QED
  BY <1>1, <1>2, <1>3, <1>4 DEF Next

(* The NFT of a ticket comes from a purchase that paid for that ticket and *)
(* is no other ticket's, whatever is recovered from which receipt and in   *)
(* whatever order the rows are returned: the tickets that hang on a        *)
(* SUBMITTED batch are those its transaction buys.                         *)
THEOREM NftsWereBought == ASSUME FreshStatus PROVE Spec => []NftWasBought
<1> DEFINE IInv == ShapeInv /\ LockInv /\ WorkInv /\ PaidInv
<1>1. Init => IInv
  BY ShapeInit, LockInit, WorkInit, PaidInit
<1>2. IInv /\ [Next]_vars => IInv'
  BY ShapeStep, LockStep, WorkStep, PaidStep
<1>3. IInv => NftWasBought
  BY DEF PaidInv, NftWasBought, Unstamped
<1> QED
  BY <1>1, <1>2, <1>3, PTL DEF Spec

-----------------------------------------------------------------------------
(***************************************************************************)
(* The chunks of an order are the same whenever they are cut, if the rows  *)
(* come in a stable order or one chunk takes all of them: the blocks of    *)
(* ChunkSize tickets, counted from the first one.  That is what makes the  *)
(* derived chunk ids idempotent.                                           *)
(***************************************************************************)
ChunksRepeat == StableOrder \/ Cardinality(Tickets) <= ChunkSize
Below(t) == {u \in Tickets : u < t}
Rank(t) == Cardinality(Below(t))
Block(t) == {u \in Tickets : Rank(u) \div ChunkSize = Rank(t) \div ChunkSize}
IsBlock(c) == \E t \in Tickets : c = Block(t)
Whole(S) == \A t \in S : Block(t) \subseteq S

(* Division by the size of a chunk.                                        *)
LEMMA Quotient ==
    ASSUME NEW n \in Nat, NEW d \in Nat \ {0}
    PROVE  n \div d \in Nat /\ d * (n \div d) \in Nat
           /\ d * (n \div d) <= n /\ n < d * (n \div d) + d
  BY Z3

(* Larger quotients are a whole chunk further on.                          *)
LEMMA NextMultiple ==
    ASSUME NEW q \in Nat, NEW r \in Nat, NEW d \in Nat \ {0}, q < r
    PROVE  d * q \in Nat /\ d * r \in Nat /\ d * q + d <= d * r
  BY Z3

(* The quotient is the only multiple below that is near enough.            *)
LEMMA SameQuotient ==
    ASSUME NEW n \in Nat, NEW q \in Nat, NEW d \in Nat \ {0},
           d * q <= n, n < d * q + d
    PROVE  n \div d = q
<1>1. /\ n \div d \in Nat /\ d * (n \div d) \in Nat /\ d * q \in Nat
      /\ d * (n \div d) <= n /\ n < d * (n \div d) + d
  BY Quotient, NextMultiple
<1>2. ~(n \div d < q)
  BY <1>1, NextMultiple
<1>3. ~(q < n \div d)
  BY <1>1, NextMultiple
<1> QED
  BY <1>1, <1>2, <1>3

(* The rank of a ticket: how many come before it.                          *)
LEMMA RankType ==
    ASSUME NEW t \in Tickets
    PROVE  t \in Nat /\ IsFiniteSet(Below(t)) /\ Rank(t) \in Nat
<1>1. Below(t) \in SUBSET Tickets /\ IsFiniteSet(Tickets)
  BY RelayConstants DEF Below
<1>2. IsFiniteSet(Below(t))
  BY <1>1, FS_Subset
<1> QED
  BY <1>2, FS_CardinalityType, RelayConstants DEF Rank

(* Later tickets have larger ranks.                                        *)
LEMMA RankGrows ==
    ASSUME NEW t \in Tickets, NEW u \in Tickets, t < u
    PROVE  Rank(t) < Rank(u)
<1>1. Below(t) \in SUBSET Below(u) /\ Below(t) # Below(u)
  <2>1. \A v \in Tickets : v \in Nat
    BY RankType
  <2>2. t \in Below(u) /\ t \notin Below(t)
    BY <2>1 DEF Below
  <2>3. \A v \in Tickets : v < t => v < u
    BY <2>1
  <2> QED
    BY <2>2, <2>3 DEF Below
<1>2. Cardinality(Below(t)) <= Cardinality(Below(u))
      /\ (Cardinality(Below(u)) = Cardinality(Below(t)) => Below(u) = Below(t))
  BY <1>1, RankType, FS_Subset
<1> QED
  BY <1>1, <1>2, RankType DEF Rank

(* Ranks order tickets as their numbers do.                                *)
LEMMA RankOrders ==
    ASSUME NEW t \in Tickets, NEW u \in Tickets
    PROVE  /\ Rank(t) < Rank(u) <=> t < u
           /\ Rank(t) = Rank(u) <=> t = u
<1>1. t \in Nat /\ u \in Nat /\ Rank(t) \in Nat /\ Rank(u) \in Nat
  BY RankType
<1>2. /\ t < u => Rank(t) < Rank(u)
      /\ u < t => Rank(u) < Rank(t)
  BY RankGrows
<1> QED
  BY <1>1, <1>2

(* Every rank below that of a ticket is the rank of an earlier one.        *)
LEMMA RankAttained ==
    ASSUME NEW t \in Tickets, NEW i \in Nat, i < Rank(t)
    PROVE  \E u \in Tickets : Rank(u) = i
<1> DEFINE I == 0..(Rank(t) - 1)
           f == [u \in Below(t) |-> Rank(u)]
<1>1. Rank(t) \in Nat /\ IsFiniteSet(Below(t))
  BY RankType
<1>2. IsFiniteSet(I) /\ Cardinality(I) = Rank(t)
  <2>1. Rank(t) - 1 \in Int /\ 0 \in Int
    BY <1>1
  <2>2. IsFiniteSet(I) /\ Cardinality(I) = IF 0 > Rank(t) - 1 THEN 0 ELSE (Rank(t) - 1) - 0 + 1
    BY <2>1, FS_Interval
  <2> QED
    BY <1>1, <2>2
<1>3. f \in Injection(Below(t), I)
  <2>1. ASSUME NEW u \in Below(t)
        PROVE  u \in Tickets /\ Rank(u) \in I
    <3>1. u \in Tickets /\ u < t
      BY DEF Below
    <3> QED
      BY <1>1, <3>1, RankType, RankGrows
  <2>2. \A u, v \in Below(t) : Rank(u) = Rank(v) => u = v
    BY <2>1, RankOrders
  <2> QED
    BY <2>1, <2>2 DEF Injection, IsInjective
<1>4. f \in Surjection(Below(t), I)
  <2> HIDE DEF f, I
  <2>1. Cardinality(Below(t)) = Cardinality(I)
    BY <1>2 DEF Rank
  <2> QED
    BY <1>2, <1>3, <2>1, FS_Injection
<1>5. i \in I
  BY <1>1
<1>6. PICK u \in Below(t) : f[u] = i
  BY <1>4, <1>5 DEF Surjection
<1> QED
  BY <1>6 DEF Below

(* Blocks partition the tickets.                                           *)
LEMMA Blocks ==
    ASSUME NEW t \in Tickets
    PROVE  /\ t \in Block(t) /\ Block(t) \subseteq Tickets
           /\ \A u \in Block(t) : Block(u) = Block(t)
  BY DEF Block

(* A block is the block of each of its tickets.                            *)
LEMMA BlockOf ==
    ASSUME NEW c, IsBlock(c), NEW t \in c
    PROVE  t \in Tickets /\ c = Block(t)
  BY Blocks DEF IsBlock

(* Two blocks are equal or disjoint, and none is empty.                    *)
LEMMA BlocksApart ==
    ASSUME NEW c, IsBlock(c)
    PROVE  /\ c # {} /\ c \subseteq Tickets /\ Whole(c)
           /\ \A d : IsBlock(d) => c = d \/ c \cap d = {}
<1>1. c # {} /\ c \subseteq Tickets /\ \A t \in c : c = Block(t)
  BY Blocks, BlockOf DEF IsBlock
<1>2. \A d : IsBlock(d) => \A t \in d : d = Block(t)
  BY BlockOf
<1> QED
  BY <1>1, <1>2 DEF Whole

(* The numbers of the tickets in a block: one chunk at most, and a full    *)
(* one unless the block is the last.                                       *)
LEMMA BlockSize ==
    ASSUME NEW t \in Tickets
    PROVE  /\ IsFiniteSet(Block(t)) /\ Cardinality(Block(t)) \in Nat
           /\ Cardinality(Block(t)) <= ChunkSize
           /\ (\E u \in Tickets \ Block(t) : t < u) => Cardinality(Block(t)) = ChunkSize
<1> DEFINE q == Rank(t) \div ChunkSize
           m == ChunkSize * q
           I == m..(m + ChunkSize - 1)
           f == [u \in Block(t) |-> Rank(u)]
<1>1. ChunkSize \in Nat \ {0} /\ Rank(t) \in Nat
  BY RelayConstants, RankType
<1>2. q \in Nat /\ m \in Nat
  BY <1>1, Quotient
<1>3. Block(t) \in SUBSET Tickets /\ IsFiniteSet(Tickets)
  BY RelayConstants DEF Block
<1>4. IsFiniteSet(Block(t)) /\ Cardinality(Block(t)) \in Nat
  BY <1>3, FS_Subset, FS_CardinalityType
<1>5. IsFiniteSet(I) /\ Cardinality(I) = ChunkSize
  <2> HIDE DEF m
  <2>1. m \in Int /\ m + ChunkSize - 1 \in Int
    BY <1>1, <1>2
  <2>2. /\ IsFiniteSet(I)
        /\ Cardinality(I) = IF m > m + ChunkSize - 1 THEN 0 ELSE (m + ChunkSize - 1) - m + 1
    BY <2>1, FS_Interval
  <2> QED
    BY <1>1, <1>2, <2>2
<1>6. f \in Injection(Block(t), I)
  <2>1. ASSUME NEW u \in Block(t)
        PROVE  u \in Tickets /\ Rank(u) \in I
    <3>1. u \in Tickets /\ Rank(u) \in Nat /\ Rank(u) \div ChunkSize = q
      BY RankType DEF Block
    <3>2. m <= Rank(u) /\ Rank(u) < m + ChunkSize
      BY <1>1, <3>1, Quotient
    <3> HIDE DEF m
    <3> QED
      BY <1>1, <1>2, <3>1, <3>2
  <2>2. \A u, v \in Block(t) : Rank(u) = Rank(v) => u = v
    BY <2>1, RankOrders
  <2> QED
    BY <2>1, <2>2 DEF Injection, IsInjective
<1>7. Cardinality(Block(t)) <= ChunkSize
  <2> HIDE DEF f, I
  <2> QED
    BY <1>5, <1>6, FS_Injection
<1>8. ASSUME NEW u \in Tickets \ Block(t), t < u
      PROVE  Cardinality(Block(t)) = ChunkSize
  <2>1. Rank(u) \in Nat /\ Rank(t) < Rank(u)
    BY <1>8, RankType, RankGrows
  <2>2. m + ChunkSize <= Rank(u)
    <3>1. Rank(u) \div ChunkSize # q /\ Rank(u) \div ChunkSize \in Nat
      BY <1>1, <2>1, Quotient DEF Block
    <3>2. m <= Rank(t)
      BY <1>1, Quotient
    <3>3. ~(Rank(u) < m + ChunkSize)
      <4>1. SUFFICES ASSUME Rank(u) < m + ChunkSize
                     PROVE  FALSE
        OBVIOUS
      <4>2. m <= Rank(u)
        BY <1>1, <1>2, <2>1, <3>2
      <4>3. Rank(u) \div ChunkSize = q
        <5> HIDE DEF q
        <5> QED
          BY <1>1, <1>2, <2>1, <4>1, <4>2, SameQuotient
      <4> QED
        BY <3>1, <4>3
    <3> HIDE DEF m
    <3> QED
      BY <1>1, <1>2, <2>1, <3>3
  <2>3. ASSUME NEW i \in I
        PROVE  \E v \in Block(t) : Rank(v) = i
    <3>1. i \in Nat /\ m <= i /\ i < m + ChunkSize /\ i < Rank(u)
      <4> HIDE DEF m
      <4> QED
        BY <1>1, <1>2, <2>1, <2>2
    <3>2. PICK v \in Tickets : Rank(v) = i
      BY <3>1, RankAttained
    <3>3. i \div ChunkSize = q
      <4> HIDE DEF q
      <4> QED
        BY <1>1, <1>2, <3>1, SameQuotient
    <3> QED
      BY <3>2, <3>3 DEF Block
  <2>4. f \in Surjection(Block(t), I)
    BY <1>6, <2>3 DEF Injection, Surjection
  <2>5. Cardinality(I) <= Cardinality(Block(t))
    <3> HIDE DEF f, I
    <3> QED
      BY <1>4, <2>4, FS_Surjection
  <2> QED
    BY <1>1, <1>4, <1>5, <1>7, <2>5
<1> QED
  BY <1>4, <1>7, <1>8

(* What comes after a ticket and outside its block comes after the block.  *)
LEMMA BlockConvex ==
    ASSUME NEW t \in Tickets, NEW v \in Block(t), NEW u \in Tickets \ Block(t), t < u
    PROVE  v < u
<1> DEFINE q == Rank(t) \div ChunkSize
           r == Rank(u) \div ChunkSize
<1>1. /\ ChunkSize \in Nat \ {0} /\ v \in Tickets
      /\ Rank(t) \in Nat /\ Rank(u) \in Nat /\ Rank(v) \in Nat
      /\ Rank(t) < Rank(u)
      /\ Rank(v) \div ChunkSize = q /\ r # q
  BY RelayConstants, RankType, RankGrows DEF Block
<1>2. /\ q \in Nat /\ r \in Nat
      /\ ChunkSize * q <= Rank(t) /\ Rank(v) < ChunkSize * q + ChunkSize
      /\ ChunkSize * r <= Rank(u) /\ Rank(u) < ChunkSize * r + ChunkSize
  BY <1>1, Quotient
<1> HIDE DEF q, r
<1>3. ~(r < q)
  BY <1>1, <1>2, NextMultiple
<1>4. ChunkSize * q + ChunkSize <= ChunkSize * r /\ ChunkSize * q \in Nat /\ ChunkSize * r \in Nat
  BY <1>1, <1>2, <1>3, NextMultiple
<1>5. Rank(v) < Rank(u)
  BY <1>1, <1>2, <1>4
<1> QED
  BY <1>1, <1>5, RankOrders

(* An order of at most ChunkSize tickets is one block.                     *)
LEMMA OneBlock ==
    ASSUME Cardinality(Tickets) <= ChunkSize, NEW t \in Tickets
    PROVE  Block(t) = Tickets
<1>1. ChunkSize \in Nat \ {0} /\ IsFiniteSet(Tickets) /\ Cardinality(Tickets) \in Nat
  BY RelayConstants, FS_CardinalityType
<1>2. ASSUME NEW u \in Tickets
      PROVE  Rank(u) \div ChunkSize = 0
  <2>1. u \in Nat /\ Rank(u) \in Nat
    BY RankType
  <2>2. Below(u) \in SUBSET Tickets /\ Below(u) # Tickets
    BY <2>1 DEF Below
  <2>3. Rank(u) < Cardinality(Tickets)
    BY <1>1, <2>1, <2>2, FS_Subset DEF Rank
  <2>4. ChunkSize * 0 <= Rank(u) /\ Rank(u) < ChunkSize * 0 + ChunkSize
    BY <1>1, <2>1, <2>3
  <2>5. 0 \in Nat
    OBVIOUS
  <2> QED
    BY <1>1, <2>1, <2>4, <2>5, SameQuotient
<1> QED
  BY <1>2 DEF Block

(* The next chunk of a list made of whole blocks is a block, when one      *)
(* chunk takes the whole order                                             *)
LEMMA OnlyChunk ==
    ASSUME Cardinality(Tickets) <= ChunkSize,
           NEW U \in SUBSET Tickets, Whole(U), NEW c, IsChunk(c, U)
    PROVE  IsBlock(c)
<1>1. /\ c \subseteq U /\ c # {} /\ Cardinality(c) <= ChunkSize
      /\ Cardinality(c) < ChunkSize => c = U
  BY DEF IsChunk
<1>2. PICK t \in c : TRUE
  BY <1>1
<1>3. t \in Tickets /\ t \in U
  BY <1>1, <1>2
<1>4. Block(t) = Tickets
  BY <1>3, OneBlock
<1>5. U = Tickets
  BY <1>3, <1>4 DEF Whole
<1>6. /\ ChunkSize \in Nat /\ IsFiniteSet(Tickets) /\ Cardinality(Tickets) \in Nat
      /\ IsFiniteSet(c) /\ Cardinality(c) \in Nat
  BY <1>1, RelayConstants, FS_Subset, FS_CardinalityType
<1>7. CASE Cardinality(c) = ChunkSize
  <2>1. Cardinality(c) <= Cardinality(Tickets)
        /\ (Cardinality(Tickets) = Cardinality(c) => Tickets = c)
    BY <1>1, <1>6, FS_Subset
  <2> QED
    BY <1>3, <1>4, <1>6, <1>7, <2>1 DEF IsBlock
<1>8. CASE Cardinality(c) # ChunkSize
  BY <1>1, <1>3, <1>4, <1>5, <1>6, <1>8 DEF IsBlock
<1> QED
  BY <1>7, <1>8

(* or when the rows come in order.                                         *)
LEMMA OrderedChunk ==
    ASSUME StableOrder, NEW U \in SUBSET Tickets, Whole(U), NEW c, IsChunk(c, U)
    PROVE  IsBlock(c)
<1>1. /\ c \subseteq U /\ c # {} /\ Cardinality(c) <= ChunkSize
      /\ Cardinality(c) < ChunkSize => c = U
      /\ \A t \in c, u \in U \ c : t < u
  BY DEF IsChunk
<1>2. ChunkSize \in Nat \ {0} /\ IsFiniteSet(c) /\ Cardinality(c) \in Nat
  BY <1>1, RelayConstants, FS_Subset, FS_CardinalityType
<1>3. ASSUME NEW t \in c, NEW u \in c, t < u, u \notin Block(t)
      PROVE  FALSE
  <2>1. t \in Tickets /\ u \in Tickets \ Block(t) /\ u \in Nat
    BY <1>1, <1>3, RankType
  <2>2. Block(t) \subseteq c
    <3> SUFFICES ASSUME NEW v \in Block(t), v \notin c
                 PROVE  FALSE
      OBVIOUS
    <3>1. v \in U /\ v \in Tickets
      BY <1>1 DEF Whole
    <3>2. v < u
      BY <1>3, <2>1, BlockConvex
    <3>3. u < v
      BY <1>1, <3>1
    <3> QED
      BY <2>1, <3>1, <3>2, <3>3, RankType
  <2>3. /\ IsFiniteSet(Block(t)) /\ Cardinality(Block(t)) = ChunkSize
    BY <1>3, <2>1, BlockSize
  <2>4. Cardinality(Block(t)) <= Cardinality(c)
        /\ (Cardinality(c) = Cardinality(Block(t)) => c = Block(t))
    BY <1>2, <2>2, FS_Subset
  <2> QED
    BY <1>1, <1>2, <1>3, <2>3, <2>4
<1>4. PICK t \in c : TRUE
  BY <1>1
<1>5. t \in Tickets
  BY <1>1, <1>4
<1>6. c \subseteq Block(t)
  <2> SUFFICES ASSUME NEW u \in c
               PROVE  u \in Block(t)
    OBVIOUS
  <2>1. u \in Tickets /\ u \in Nat /\ t \in Nat
    BY <1>1, <1>5, RankType
  <2>2. t < u => u \in Block(t)
    BY <1>3
  <2>3. u < t => t \in Block(u)
    BY <1>3
  <2>4. t \in Block(u) => u \in Block(t)
    BY <1>5, <2>1 DEF Block
  <2>5. u = t => u \in Block(t)
    BY <1>5, Blocks
  <2> QED
    BY <2>1, <2>2, <2>3, <2>4, <2>5
<1>7. Block(t) \subseteq U
  BY <1>1 DEF Whole
<1>8. c = Block(t)
  <2>1. CASE c = U
    BY <1>6, <1>7, <2>1
  <2>2. CASE c # U
    <3>1. Cardinality(c) = ChunkSize
      BY <1>1, <1>2, <2>2
    <3>2. IsFiniteSet(Block(t)) /\ Cardinality(Block(t)) \in Nat
          /\ Cardinality(Block(t)) <= ChunkSize
      BY <1>5, BlockSize
    <3>3. Cardinality(c) <= Cardinality(Block(t))
          /\ (Cardinality(Block(t)) = Cardinality(c) => Block(t) = c)
      BY <1>6, <3>2, FS_Subset
    <3> QED
      BY <1>2, <3>1, <3>2, <3>3
  <2> QED
    BY <2>1, <2>2
<1> QED
  BY <1>5, <1>8 DEF IsBlock

(* Either way a retry cuts the same chunks.                                *)
LEMMA ChunkIsBlock ==
    ASSUME ChunksRepeat, NEW U \in SUBSET Tickets, Whole(U), NEW c, IsChunk(c, U)
    PROVE  IsBlock(c)
  BY OnlyChunk, OrderedChunk DEF ChunksRepeat

(* Tickets of one block are stamped and bound together; the lists and      *)
(* chunks a job holds are made of whole blocks.                            *)
RowBlocks ==
    \A t \in Tickets : \A u \in Block(t) :
      /\ ticket[u].nft = NoNft <=> ticket[t].nft = NoNft
      /\ ticket[u].batch = ticket[t].batch
JobBlocks(j) ==
    /\ job[j].pc = "resolve" => \A s \in job[j].stuck : Whole(s.ids)
    /\ job[j].pc \in Holding \cup {"chunk"} => Whole(job[j].todo)
    /\ job[j].pc \in Holding => IsBlock(job[j].chunk)

(* A job about to send owns a batch of which nothing was sent.             *)
Unsent(j) == job[j].pc \in {"bind", "send"}
OwnInv(j) ==
    Unsent(j) => /\ batch[job[j].batch].status # "absent"
                 /\ tx[job[j].batch].state = "none"
                 /\ \A k \in Jobs : Unsent(k) /\ job[k].batch = job[j].batch => k = j

(* What is sent is a block, and the vault bought no block twice.           *)
SendInv ==
    /\ \A b \in Batches : batch[b].status = "absent" => tx[b].state = "none"
    /\ \A b \in Sent : IsBlock(tx[b].chunk)
    /\ \A b, d \in MinedOnes : tx[b].chunk = tx[d].chunk => b = d

ChunkInv ==
    /\ RowBlocks /\ SendInv
    /\ \A j \in Jobs : JobBlocks(j) /\ OwnInv(j)

(* Only the job that moves has to be looked at, when it keeps its hands    *)
(* off the batches of the others.                                          *)
LEMMA OneHolds ==
    ASSUME ChunkInv, NEW j \in Jobs, Others(j), RowBlocks', SendInv', JobBlocks(j)',
           Unsent(j)' => batch'[job'[j].batch].status # "absent"
                         /\ tx'[job'[j].batch].state = "none",
           \A k \in Jobs : k # j /\ Unsent(k) =>
             /\ batch'[job[k].batch].status # "absent" /\ tx'[job[k].batch].state = "none"
             /\ Unsent(j)' => job'[j].batch # job[k].batch
    PROVE  ChunkInv'
<1>1. \A k \in Jobs : k # j => job'[k] = job[k]
  BY DEF Others
<1>2. ASSUME NEW k \in Jobs
      PROVE  JobBlocks(k)'
  <2>1. CASE k = j
    BY <2>1
  <2>2. CASE k # j
    BY <1>1, <2>2 DEF ChunkInv, JobBlocks
  <2> QED
    BY <2>1, <2>2
<1>3. ASSUME NEW k \in Jobs, Unsent(k)'
      PROVE  /\ batch'[job'[k].batch].status # "absent" /\ tx'[job'[k].batch].state = "none"
             /\ \A i \in Jobs : Unsent(i)' /\ job'[i].batch = job'[k].batch => i = k
  <2>1. CASE k = j
    <3>1. \A i \in Jobs : i # j /\ Unsent(i)' => Unsent(i) /\ job'[i].batch = job[i].batch
      BY <1>1 DEF Unsent
    <3> QED
      BY <1>3, <2>1, <3>1
  <2>2. CASE k # j
    <3>1. job'[k] = job[k] /\ Unsent(k)
      BY <1>1, <1>3, <2>2 DEF Unsent
    <3>2. ASSUME NEW i \in Jobs, Unsent(i)', job'[i].batch = job'[k].batch
          PROVE  i = k
      <4>1. CASE i = j
        BY <2>2, <3>1, <3>2, <4>1
      <4>2. CASE i # j
        BY <1>1, <3>1, <3>2, <4>2 DEF ChunkInv, OwnInv, Unsent
      <4> QED
        BY <4>1, <4>2
    <3> QED
      BY <2>2, <3>1, <3>2
  <2> QED
    BY <2>1, <2>2
<1>4. \A k \in Jobs : OwnInv(k)'
  BY <1>3 DEF OwnInv
<1> QED
  BY <1>2, <1>4 DEF ChunkInv

(* A set of whole blocks holds all tickets of a block or none.             *)
LEMMA WholeAgrees ==
    ASSUME NEW S, Whole(S), NEW t \in Tickets, NEW u \in Block(t)
    PROVE  u \in Tickets /\ (t \in S <=> u \in S)
  BY Blocks DEF Whole

(* Steps that touch neither rows nor transactions.                         *)
LEMMA SameSends ==
    ASSUME SendInv, UNCHANGED tx, \A b \in Batches : batch'[b].status = "absent"
                                                     => batch[b].status = "absent"
    PROVE  SendInv'
  BY DEF SendInv, Sent, MinedOnes

(* A move that touches nothing but the job's locals.                       *)
LEMMA QuietHold ==
    ASSUME ChunkInv, NEW j \in Jobs, Others(j), UNCHANGED <<rows, tx>>,
           JobBlocks(j)', ~Unsent(j)'
    PROVE  ChunkInv'
<1>1. RowBlocks' /\ SendInv'
  BY SameSends DEF ChunkInv, RowBlocks, rows
<1>2. \A k \in Jobs : Unsent(k) => batch'[job[k].batch].status # "absent"
                                   /\ tx'[job[k].batch].state = "none"
  BY DEF ChunkInv, OwnInv, rows
<1> QED
  BY <1>1, <1>2, OneHolds

(* The lists of a recovery and of a plan are made of whole blocks.         *)
LEMMA ListHold ==
    ASSUME ShapeInv, ChunkInv, NEW j \in Jobs, ListStuck(j) \/ Plan(j)
    PROVE  ChunkInv'
<1>1. \A t \in Tickets : \A u \in Block(t) : u \in Tickets
  BY Blocks
<1>2. CASE ListStuck(j)
  <2>1. /\ Others(j) /\ UNCHANGED <<rows, tx>> /\ job'[j].pc = "resolve"
        /\ job'[j].stuck = {[batch |-> b, ids |-> BoundTo(b), hash |-> batch[b].hash] : b \in Submitted}
    BY <1>2, ListStuckEffect
  <2>2. \A b \in Batches : Whole(BoundTo(b))
    BY <1>1 DEF ChunkInv, RowBlocks, Whole, BoundTo
  <2>3. JobBlocks(j)' /\ ~Unsent(j)'
    BY <2>1, <2>2 DEF JobBlocks, Holding, Unsent, Submitted
  <2> QED
    BY <2>1, <2>3, QuietHold
<1>3. CASE Plan(j)
  <2>1. /\ Others(j) /\ UNCHANGED <<rows, tx>> /\ job'[j].pc = "chunk"
        /\ job'[j].todo = {t \in Tickets : ticket[t].nft = NoNft /\ ticket[t].batch = NoBatch}
    BY <1>3, PlanEffect
  <2>2. Whole(job'[j].todo)
    BY <1>1, <2>1 DEF ChunkInv, RowBlocks, Whole
  <2>3. JobBlocks(j)' /\ ~Unsent(j)'
    BY <2>1, <2>2 DEF JobBlocks, Holding, Unsent
  <2> QED
    BY <2>1, <2>3, QuietHold
<1> QED
  BY <1>2, <1>3

(* A new batch is given a block, and to no other job.                      *)
LEMMA CreateHold ==
    ASSUME ChunksRepeat, ShapeInv, ChunkInv, NEW j \in Jobs, NEW b \in Batches,
           NEW c \in SUBSET Tickets, CreateBatch(j, b, c)
    PROVE  ChunkInv'
<1>1. /\ Others(j) /\ UNCHANGED <<order, ticket, tx>>
      /\ job[j].pc = "chunk" /\ IsChunk(c, job[j].todo) /\ batch[b].status = "absent"
      /\ job'[j].pc = "bind" /\ job'[j].todo = job[j].todo
      /\ job'[j].chunk = c /\ job'[j].batch = b
      /\ batch'[b].status = "SUBMITTED"
      /\ \A d \in Batches : d # b => batch'[d] = batch[d]
  BY CreateBatchEffect
<1>2. Whole(job[j].todo) /\ job[j].todo \in SUBSET Tickets
  BY <1>1, LocalFields DEF ChunkInv, JobBlocks, ShapeInv
<1>3. IsBlock(c)
  BY <1>1, <1>2, ChunkIsBlock
<1>4. JobBlocks(j)'
  BY <1>1, <1>2, <1>3 DEF JobBlocks, Holding
<1>5. batch'[b].status # "absent" /\ tx'[b].state = "none"
  BY <1>1 DEF ChunkInv, SendInv
<1>6. ASSUME NEW k \in Jobs, k # j, Unsent(k)
      PROVE  /\ batch'[job[k].batch].status # "absent" /\ tx'[job[k].batch].state = "none"
             /\ job'[j].batch # job[k].batch
  <2>1. job[k].batch \in Batches
    BY <1>6 DEF ShapeInv, BatchInv, Unsent, Holding
  <2>2. batch[job[k].batch].status # "absent" /\ tx[job[k].batch].state = "none"
    BY <1>6 DEF ChunkInv, OwnInv
  <2> QED
    BY <1>1, <2>1, <2>2
<1>7. SendInv' /\ RowBlocks'
  <2>1. \A d \in Batches : batch'[d].status = "absent" => batch[d].status = "absent"
    BY <1>1
  <2>2. SendInv'
    BY <1>1, <2>1, SameSends DEF ChunkInv
  <2> QED
    BY <1>1, <2>2 DEF ChunkInv, RowBlocks
<1> QED
  BY <1>1, <1>4, <1>5, <1>6, <1>7, OneHolds

(* A block is bound as a whole.                                            *)
LEMMA BindHold ==
    ASSUME ShapeInv, ChunkInv, NEW j \in Jobs, Bind(j)
    PROVE  ChunkInv'
<1>1. /\ Others(j) /\ UNCHANGED <<batch, tx>>
      /\ job[j].pc = "bind" /\ job'[j].pc = "send"
      /\ job'[j].todo = job[j].todo /\ job'[j].chunk = job[j].chunk
      /\ job'[j].batch = job[j].batch
      /\ \A t \in Tickets :
           /\ ticket'[t].nft = ticket[t].nft
           /\ ticket'[t].batch = IF t \in job[j].chunk THEN job[j].batch ELSE ticket[t].batch
  BY BindEffect
<1>2. Whole(job[j].todo) /\ IsBlock(job[j].chunk)
  BY <1>1 DEF ChunkInv, JobBlocks, Holding
<1>3. Whole(job[j].chunk)
  BY <1>2, BlocksApart
<1>4. RowBlocks'
  <2> SUFFICES ASSUME NEW t \in Tickets, NEW u \in Block(t)
               PROVE  /\ ticket'[u].nft = NoNft <=> ticket'[t].nft = NoNft
                      /\ ticket'[u].batch = ticket'[t].batch
    BY DEF RowBlocks
  <2>1. u \in Tickets /\ (t \in job[j].chunk <=> u \in job[j].chunk)
    BY <1>3, WholeAgrees
  <2>2. (ticket[u].nft = NoNft <=> ticket[t].nft = NoNft) /\ ticket[u].batch = ticket[t].batch
    BY DEF ChunkInv, RowBlocks
  <2> QED
    BY <1>1, <2>1, <2>2
<1>5. SendInv'
  BY <1>1, SameSends DEF ChunkInv
<1>6. JobBlocks(j)'
  BY <1>1, <1>2 DEF JobBlocks, Holding
<1>7. \A k \in Jobs : Unsent(k) =>
        /\ batch'[job[k].batch].status # "absent" /\ tx'[job[k].batch].state = "none"
        /\ job[k].batch = job[j].batch => k = j
  BY <1>1 DEF ChunkInv, OwnInv, Unsent
<1>8. batch'[job'[j].batch].status # "absent" /\ tx'[job'[j].batch].state = "none"
  BY <1>1, <1>7 DEF Unsent
<1>9. \A k \in Jobs : k # j /\ Unsent(k) =>
        /\ batch'[job[k].batch].status # "absent" /\ tx'[job[k].batch].state = "none"
        /\ job'[j].batch # job[k].batch
  BY <1>1, <1>7
<1> QED
  BY <1>1, <1>4, <1>5, <1>6, <1>8, <1>9, OneHolds

(* What leaves for the mempool is the block of a batch not sent before.    *)
LEMMA SendHold ==
    ASSUME ShapeInv, ChunkInv, NEW j \in Jobs,
           Send(j) \/ SendThrows(j) \/ SendRefused(j) \/ Store(j)
    PROVE  ChunkInv'
<1>1. /\ Others(j) /\ UNCHANGED ticket
      /\ \A d \in Batches : batch'[d].status = batch[d].status
      /\ job[j].pc \in {"send", "store"}
      /\ (job[j].pc = "send" /\ Leaves(job[j].batch, job[j].chunk)) \/ UNCHANGED tx
      /\ \/ job'[j].pc \in {"throw", "refused"}
         \/ /\ job'[j].pc \in {"store", "await"} /\ job'[j].todo = job[j].todo
            /\ job'[j].chunk = job[j].chunk /\ job'[j].batch = job[j].batch
  <2>1. CASE Send(j) \/ SendThrows(j) \/ SendRefused(j)
    BY <2>1, SendEffect, SendFailsEffect DEF rows
  <2>2. CASE Store(j)
    BY <2>2, StoreEffect
  <2> QED
    BY <2>1, <2>2
<1>2. /\ Whole(job[j].todo) /\ IsBlock(job[j].chunk) /\ job[j].batch \in Batches
  BY <1>1 DEF ChunkInv, JobBlocks, Holding, ShapeInv, BatchInv
<1>3. JobBlocks(j)' /\ ~Unsent(j)'
  BY <1>1, <1>2 DEF JobBlocks, Holding, Unsent
<1>4. RowBlocks'
  BY <1>1 DEF ChunkInv, RowBlocks
<1>5. SendInv'
  <2>1. CASE UNCHANGED tx
    BY <1>1, <2>1, SameSends DEF ChunkInv
  <2>2. CASE job[j].pc = "send" /\ Leaves(job[j].batch, job[j].chunk)
    <3>1. tx[job[j].batch].state = "none" /\ batch[job[j].batch].status # "absent"
      BY <2>2 DEF ChunkInv, OwnInv, Unsent
    <3>2. /\ tx'[job[j].batch].state = "mempool" /\ tx'[job[j].batch].chunk = job[j].chunk
          /\ \A d \in Batches : d # job[j].batch => tx'[d] = tx[d]
      BY <2>2 DEF Leaves
    <3>3. \A b \in Batches : batch'[b].status = "absent" => tx'[b].state = "none"
      BY <1>1, <3>1, <3>2 DEF ChunkInv, SendInv
    <3>4. \A b \in Batches : tx'[b].state # "none" => IsBlock(tx'[b].chunk)
      BY <1>2, <3>2 DEF ChunkInv, SendInv, Sent
    <3>5. \A b \in Batches : tx'[b].state = "mined" => b \in MinedOnes /\ tx'[b] = tx[b]
      BY <3>2 DEF MinedOnes
    <3> QED
      BY <3>3, <3>4, <3>5 DEF ChunkInv, SendInv, Sent, MinedOnes
  <2> QED
    BY <1>1, <2>1, <2>2
<1>6. ASSUME NEW k \in Jobs, k # j, Unsent(k)
      PROVE  batch'[job[k].batch].status # "absent" /\ tx'[job[k].batch].state = "none"
  <2>1. job[k].batch \in Batches
    BY <1>6 DEF ShapeInv, BatchInv, Unsent, Holding
  <2>2. batch[job[k].batch].status # "absent" /\ tx[job[k].batch].state = "none"
    BY <1>6 DEF ChunkInv, OwnInv
  <2>3. job[j].pc = "send" => job[k].batch # job[j].batch
    BY <1>6 DEF ChunkInv, OwnInv, Unsent
  <2> QED
    BY <1>1, <2>1, <2>2, <2>3 DEF Leaves
<1> QED
  BY <1>1, <1>3, <1>4, <1>5, <1>6, OneHolds

(* What a job settles is made of whole blocks.                             *)
LEMMA SettledBlocks ==
    ASSUME ChunkInv, NEW j \in Jobs, NEW s, Settles(j, s)
    PROVE  Whole(s.ids)
<1>1. CASE job[j].pc = "await" /\ s = [batch |-> job[j].batch, ids |-> job[j].chunk, hash |-> TRUE]
  <2>1. IsBlock(job[j].chunk)
    BY <1>1 DEF ChunkInv, JobBlocks, Holding
  <2> QED
    BY <1>1, <2>1, BlocksApart
<1>2. CASE job[j].pc = "resolve" /\ s \in job[j].stuck
  BY <1>2 DEF ChunkInv, JobBlocks
<1> QED
  BY <1>1, <1>2 DEF Settles

(* The job's lists stay whole when a settled batch is taken off them.      *)
LEMMA MovedBlocks ==
    ASSUME ShapeInv, ChunkInv, NEW j \in Jobs, NEW s, Settles(j, s), Moves(j, s)
    PROVE  JobBlocks(j)' /\ ~Unsent(j)'
<1>1. CASE job[j].pc = "resolve"
  <2>1. job'[j].pc = "resolve" /\ job'[j].stuck = job[j].stuck \ {s}
    BY <1>1 DEF Moves
  <2> QED
    BY <1>1, <2>1 DEF ChunkInv, JobBlocks, Holding, Unsent
<1>2. CASE job[j].pc = "await"
  <2>1. \/ job'[j].pc = "chunk" /\ job'[j].todo = job[j].todo \ s.ids
        \/ job'[j].pc = "throw"
    BY <1>2 DEF Moves
  <2>2. Whole(job[j].todo) /\ job[j].todo \subseteq Tickets
    BY <1>2, LocalFields DEF ChunkInv, JobBlocks, Holding, ShapeInv
  <2>3. IsBlock(job[j].chunk) /\ s.ids = job[j].chunk
    BY <1>2 DEF Settles, ChunkInv, JobBlocks, Holding
  <2>4. Whole(job[j].todo \ s.ids)
    <3> SUFFICES ASSUME NEW t \in job[j].todo \ s.ids, NEW u \in Block(t)
                 PROVE  u \in job[j].todo /\ u \notin s.ids
      BY DEF Whole
    <3>1. u \in job[j].todo
      BY <2>2 DEF Whole
    <3>2. ASSUME u \in s.ids
          PROVE  FALSE
      <4>1. u \in Tickets /\ s.ids = Block(u)
        BY <2>3, <3>2, BlockOf
      <4> QED
        BY <2>2, <4>1, Blocks
    <3> QED
      BY <3>1, <3>2
  <2> QED
    BY <2>1, <2>4 DEF JobBlocks, Holding, Unsent
<1> QED
  BY <1>1, <1>2 DEF Settles

(* The rows of the other jobs are safe while a batch that is not absent    *)
(* gets another status.                                                    *)
LEMMA OthersSafe ==
    ASSUME ShapeInv, ChunkInv, UNCHANGED tx,
           \A b \in Batches : batch'[b].status = "absent" => batch[b].status = "absent"
    PROVE  \A k \in Jobs : Unsent(k) => /\ batch'[job[k].batch].status # "absent"
                                        /\ tx'[job[k].batch].state = "none"
<1> SUFFICES ASSUME NEW k \in Jobs, Unsent(k)
             PROVE  batch'[job[k].batch].status # "absent" /\ tx'[job[k].batch].state = "none"
  OBVIOUS
<1>1. job[k].batch \in Batches
  BY DEF ShapeInv, BatchInv, Unsent, Holding
<1>2. batch[job[k].batch].status # "absent" /\ tx[job[k].batch].state = "none"
  BY DEF ChunkInv, OwnInv
<1> QED
  BY <1>1, <1>2

(* A block is stamped as a whole.                                          *)
LEMMA StampHold ==
    ASSUME ShapeInv, ChunkInv, NEW j \in Jobs, NEW s, NEW stamp,
           Confirm(j, s, stamp) \/ Recover(j, s, stamp)
    PROVE  ChunkInv'
<1>1. /\ Others(j) /\ UNCHANGED <<order, tx>> /\ Settles(j, s) /\ Moves(j, s)
  BY StampEffect
<1>2. PICK by \in MinedOnes : /\ stamp \in [s.ids -> tx[by].chunk]
                              /\ Stamped(s.batch, s.ids, by, stamp)
  BY StampEffect
<1>3. s.batch \in Batches /\ s.ids \in SUBSET Tickets /\ Whole(s.ids)
  BY <1>1, SettledType, SettledBlocks
<1>4. ASSUME NEW t \in s.ids
      PROVE  ticket'[t].nft # NoNft
  <2>1. by \in Batches /\ tx[by].chunk \in SUBSET Tickets
    BY DEF MinedOnes, ShapeInv, TypeOK, Sends
  <2>2. stamp[t] \in Tickets
    BY <1>2, <2>1
  <2>3. ticket'[t].nft = <<by, stamp[t]>>
    BY <1>2, <1>3 DEF Stamped
  <2>4. <<by, stamp[t]>> \in Batches \X Tickets
    BY <2>1, <2>2
  <2> QED
    BY <2>3, <2>4, RelayConstants
<1>5. \A t \in Tickets : t \notin s.ids => ticket'[t].nft = ticket[t].nft
  BY <1>2 DEF Stamped
<1>6. RowBlocks'
  <2> SUFFICES ASSUME NEW t \in Tickets, NEW u \in Block(t)
               PROVE  /\ ticket'[u].nft = NoNft <=> ticket'[t].nft = NoNft
                      /\ ticket'[u].batch = ticket'[t].batch
    BY DEF RowBlocks
  <2>1. u \in Tickets /\ (t \in s.ids <=> u \in s.ids)
    BY <1>3, WholeAgrees
  <2>2. (ticket[u].nft = NoNft <=> ticket[t].nft = NoNft) /\ ticket[u].batch = ticket[t].batch
    BY DEF ChunkInv, RowBlocks
  <2>3. ticket'[u].batch = ticket[u].batch /\ ticket'[t].batch = ticket[t].batch
    BY <1>2, <2>1 DEF Stamped
  <2> QED
    BY <1>4, <1>5, <2>1, <2>2, <2>3
<1>8. \A b \in Batches : batch'[b].status = "absent" => batch[b].status = "absent"
  BY <1>2 DEF Stamped
<1>9. SendInv'
  BY <1>1, <1>8, SameSends DEF ChunkInv
<1> QED
  BY <1>1, <1>6, <1>8, <1>9, MovedBlocks, OthersSafe, OneHolds

(* A block is released as a whole.                                         *)
LEMMA GiveUpHold ==
    ASSUME ShapeInv, ChunkInv, NEW j \in Jobs, NEW s,
           ReleaseUnsent(j, s) \/ GiveUpReverted(j, s) \/ GiveUpWaiting(j, s)
    PROVE  ChunkInv'
<1>1. /\ Others(j) /\ UNCHANGED <<order, tx>> /\ Settles(j, s) /\ Moves(j, s)
      /\ Unbinds(s.batch, s.ids)
  BY GiveUpEffect
<1>2. s.batch \in Batches /\ s.ids \in SUBSET Tickets /\ Whole(s.ids)
  BY <1>1, SettledType, SettledBlocks
<1>3. RowBlocks'
  <2> SUFFICES ASSUME NEW t \in Tickets, NEW u \in Block(t)
               PROVE  /\ ticket'[u].nft = NoNft <=> ticket'[t].nft = NoNft
                      /\ ticket'[u].batch = ticket'[t].batch
    BY DEF RowBlocks
  <2>1. u \in Tickets /\ (t \in s.ids <=> u \in s.ids)
    BY <1>2, WholeAgrees
  <2>2. (ticket[u].nft = NoNft <=> ticket[t].nft = NoNft) /\ ticket[u].batch = ticket[t].batch
    BY DEF ChunkInv, RowBlocks
  <2> QED
    BY <1>1, <2>1, <2>2 DEF Unbinds
<1>5. \A b \in Batches : batch'[b].status = "absent" => batch[b].status = "absent"
  BY <1>1 DEF Unbinds
<1>6. SendInv'
  BY <1>1, <1>5, SameSends DEF ChunkInv
<1> QED
  BY <1>1, <1>3, <1>5, <1>6, MovedBlocks, OthersSafe, OneHolds

(* The vault's guard on order ids: a block is bought once.                 *)
LEMMA MineHold ==
    ASSUME ShapeInv, ChunkInv, NEW b \in Batches, UNCHANGED <<rows, job>>,
           \/ Turned(b, "mined") /\ ~Fulfilled(tx[b].chunk)
           \/ Turned(b, "dropped") \/ Turned(b, "reverted")
    PROVE  ChunkInv'
<1>1. /\ tx[b].state = "mempool" /\ tx'[b].chunk = tx[b].chunk
      /\ tx'[b].state \in {"mined", "dropped", "reverted"}
      /\ tx'[b].state = "mined" => ~Fulfilled(tx[b].chunk)
      /\ \A d \in Batches : d # b => tx'[d] = tx[d]
  BY DEF Turned
<1>2. \A d \in Batches : /\ tx'[d].chunk = tx[d].chunk
                         /\ tx'[d].state = "none" <=> tx[d].state = "none"
                         /\ tx[d].state = "mined" => tx'[d].state = "mined"
                         /\ tx'[d].state = "mined" /\ d # b => tx[d].state = "mined"
  BY <1>1
<1>3. SendInv'
  <2>1. \A d \in Batches : batch'[d].status = "absent" => tx'[d].state = "none"
    BY <1>2 DEF ChunkInv, SendInv, rows
  <2>2. \A d \in Batches : tx'[d].state # "none" => IsBlock(tx'[d].chunk)
    BY <1>2 DEF ChunkInv, SendInv, Sent
  <2>3. ASSUME NEW d \in Batches, NEW e \in Batches, tx'[d].state = "mined",
               tx'[e].state = "mined", tx'[d].chunk = tx'[e].chunk
        PROVE  d = e
    <3>1. CASE d # b /\ e # b
      BY <1>2, <2>3, <3>1 DEF ChunkInv, SendInv, MinedOnes
    <3>2. CASE (d = b /\ e # b) \/ (d # b /\ e = b)
      <4>1. tx'[b].state = "mined" /\ Fulfilled(tx[b].chunk)
        BY <1>2, <2>3, <3>2 DEF Fulfilled
      <4> QED
        BY <1>1, <4>1
    <3> QED
      BY <3>1, <3>2
  <2> QED
    BY <2>1, <2>2, <2>3 DEF SendInv, Sent, MinedOnes
<1>5. RowBlocks' /\ \A k \in Jobs : JobBlocks(k)'
  BY DEF ChunkInv, RowBlocks, JobBlocks, rows
<1>6. ASSUME NEW k \in Jobs
      PROVE  OwnInv(k)'
  <2>1. Unsent(k) => batch[job[k].batch].status # "absent" /\ tx[job[k].batch].state = "none"
    BY DEF ChunkInv, OwnInv
  <2>2. Unsent(k) => tx'[job[k].batch].state = "none"
    BY <1>2, <2>1 DEF ShapeInv, BatchInv, Unsent, Holding
  <2> QED
    BY <2>2 DEF ChunkInv, OwnInv, Unsent, rows
<1> QED
  BY <1>3, <1>5, <1>6 DEF ChunkInv

(* The first rows are whole.                                               *)
LEMMA ChunkInit == Init => ChunkInv
<1> SUFFICES ASSUME Init
             PROVE  ChunkInv
  OBVIOUS
<1>1. \A t \in Tickets : ticket[t].nft = NoNft /\ ticket[t].batch = NoBatch
  BY DEF Init
<1>2. \A b \in Batches : tx[b].state = "none"
  BY DEF Init, NoSend
<1>3. \A k \in Jobs : job[k].pc = "idle"
  BY AsleepType DEF Init
<1>4. RowBlocks
  BY <1>1, Blocks DEF RowBlocks
<1> QED
  BY <1>1, <1>2, <1>3, <1>4
     DEF ChunkInv, SendInv, Sent, MinedOnes, JobBlocks, OwnInv, Unsent, Holding

(* Every step keeps blocks whole and bought once.                          *)
LEMMA ChunkStep ==
    ASSUME ChunksRepeat, ShapeInv, ChunkInv, [Next]_vars
    PROVE  ChunkInv'
<1>1. CASE Environment
  <2>1. CASE LockRound \/ Rollover \/ NewRound
    <3>1. UNCHANGED <<ticket, batch, job, tx>>
      BY <2>1, CalendarEffect DEF rows
    <3> QED
      BY <3>1 DEF ChunkInv, RowBlocks, SendInv, JobBlocks, OwnInv, Unsent, Sent, MinedOnes
  <2>2. ASSUME NEW b \in Batches, Mine(b) \/ Spoil(b, "dropped") \/ Spoil(b, "reverted")
        PROVE  ChunkInv'
    BY <2>2, ChainEffect, MineHold
  <2> QED
    BY <1>1, <2>1, <2>2 DEF Environment
<1>2. CASE Reconciler
  <2>1. UNCHANGED <<ticket, batch, job, tx>>
    BY <1>2, ReconcilerEffect DEF rows
  <2> QED
    BY <2>1 DEF ChunkInv, RowBlocks, SendInv, JobBlocks, OwnInv, Unsent, Sent, MinedOnes
<1>3. ASSUME NEW j \in Jobs, Run(j) \/ Misfortune(j)
      PROVE  ChunkInv'
  <2>1. job'[j].pc \in {"idle", "gate", "vault", "list"} => JobBlocks(j)' /\ ~Unsent(j)'
    BY DEF JobBlocks, Holding, Unsent
  <2>2. CASE Take(j) \/ PassGate(j) \/ Crash(j) \/ Defer(j) \/ Underfunded(j)
    <3>1. Others(j) /\ UNCHANGED <<rows, tx>> /\ job'[j].pc \in {"idle", "gate", "vault", "list"}
      BY <2>2, TakeEffect, PassGateEffect, CrashEffect, HoldBackEffect, AsleepType
    <3> QED
      BY <2>1, <3>1, QuietHold
  <2>3. CASE Lock(j) \/ Done(j) \/ Fail(j)
    <3>1. Others(j) /\ UNCHANGED <<rows, tx>> /\ job'[j].pc \in {"idle", "gate", "vault", "list"}
      BY <2>3, LockEffect, DoneEffect, FailEffect, AsleepType
    <3> QED
      BY <2>1, <3>1, QuietHold
  <2>4. CASE ListStuck(j) \/ Plan(j) \/ Bind(j)
    BY <2>4, ListHold, BindHold
  <2>5. CASE Send(j) \/ SendThrows(j) \/ SendRefused(j) \/ Store(j)
    BY <2>5, SendHold
  <2>6. ASSUME NEW b \in Batches, NEW c \in SUBSET Tickets, CreateBatch(j, b, c)
        PROVE  ChunkInv'
    BY <2>6, CreateHold
  <2>7. ASSUME NEW s, NEW stamp, Confirm(j, s, stamp) \/ Recover(j, s, stamp)
        PROVE  ChunkInv'
    BY <2>7, StampHold
  <2>8. ASSUME NEW s, ReleaseUnsent(j, s) \/ GiveUpReverted(j, s) \/ GiveUpWaiting(j, s)
        PROVE  ChunkInv'
    BY <2>8, GiveUpHold
  <2> QED
    BY <1>3, <2>2, <2>3, <2>4, <2>5, <2>6, <2>7, <2>8, JobSteps
<1>4. CASE UNCHANGED vars
  BY <1>4 DEF vars, ChunkInv, RowBlocks, SendInv, JobBlocks, OwnInv, Unsent, Sent, MinedOnes
<1> QED
  BY <1>1, <1>2, <1>3, <1>4 DEF Next

(* Two purchases of one ticket would be purchases of one block.            *)
LEMMA BoughtOnce ==
    ASSUME ChunkInv
    PROVE  \A t \in Tickets : \A b, d \in Purchases(t) : b = d
<1> SUFFICES ASSUME NEW t \in Tickets, NEW b \in Purchases(t), NEW d \in Purchases(t)
             PROVE  b = d
  OBVIOUS
<1>1. b \in MinedOnes /\ d \in MinedOnes /\ t \in tx[b].chunk /\ t \in tx[d].chunk
  BY DEF Purchases, MinedOnes
<1>2. IsBlock(tx[b].chunk) /\ IsBlock(tx[d].chunk)
  BY <1>1 DEF ChunkInv, SendInv, Sent, MinedOnes
<1>3. tx[b].chunk = tx[d].chunk
  BY <1>1, <1>2, BlockOf
<1> QED
  BY <1>1, <1>3 DEF ChunkInv, SendInv

(* No ticket is bought twice, whatever is retried by however many jobs and *)
(* whoever overwrites a status: an order that one chunk takes is safe      *)
(* everywhere, a larger one as long as its rows come in one order.  Then a *)
(* retry sends the same chunk under the same id, and the vault refuses it. *)
THEOREM BuysOnce ==
    ASSUME StableOrder \/ Cardinality(Tickets) <= ChunkSize
    PROVE  Spec => []NoTicketBoughtTwice
<1>1. Init => ShapeInv /\ ChunkInv
  BY ShapeInit, ChunkInit
<1>2. ShapeInv /\ ChunkInv /\ [Next]_vars => ShapeInv' /\ ChunkInv'
  BY ShapeStep, ChunkStep DEF ChunksRepeat
<1>3. ShapeInv /\ ChunkInv => NoTicketBoughtTwice
  <2> SUFFICES ASSUME ChunkInv, NEW t \in Tickets
               PROVE  Cardinality(Purchases(t)) <= 1
    BY DEF NoTicketBoughtTwice
  <2>1. CASE Purchases(t) = {}
    BY <2>1, FS_EmptySet
  <2>2. CASE Purchases(t) # {}
    <3>1. PICK b \in Purchases(t) : TRUE
      BY <2>2
    <3>2. Purchases(t) = {b}
      BY <3>1, BoughtOnce
    <3>3. Cardinality(Purchases(t)) = 1
      BY <3>2, FS_Singleton
    <3> QED
      BY <3>3
  <2> QED
    BY <2>1, <2>2
<1> QED
  BY <1>1, <1>2, <1>3, PTL DEF Spec

=============================================================================
