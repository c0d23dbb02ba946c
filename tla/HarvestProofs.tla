----------------------------- MODULE HarvestProofs -----------------------------
(***************************************************************************)
(* Theorems about the harvest worker, for any winners, chunk size,         *)
(* attempts and number of processes.                                       *)
(***************************************************************************)
EXTENDS HarvestPipeline, FiniteSetTheorems, TLAPS

Building == {"scan", "owed", "mark", "rehearse", "create"}
OnBatch == {"bind", "submit", "store", "recover", "resubmit", "restore", "receipt",
            "lookup", "finalize", "release"}

\* In every environment.
LocalsInv == \A p \in Processes : me[p].pc \in OnBatch => me[p].batch \in Batches
TInv == TypeOK /\ LocalsInv

\* With a lock that holds: whoever is in a tick holds it.
Submitted(ba, b) == ba[b].status = "SUBMITTED"
NoneSubmitted(ba) == \A b \in Batches : ~Submitted(ba, b)
BoundTo(tk, b) == {t \in Tickets : tk[t].batch = b}
Won(tk, t) == tk[t].win = "WON"

LStage(l, tk, ba) ==
    /\ l.pc \in Building => NoneSubmitted(ba)
    /\ l.pc = "mark" => \A t \in Tickets : ~Won(tk, t)
    /\ l.pc \in OnBatch => Submitted(ba, l.batch)
    /\ l.pc = "bind" => \A t \in BoundTo(tk, l.batch) : ~Won(tk, t)

HolderInv == \A p \in Processes : me[p].pc # "idle" => lock = p /\ LStage(me[p], ticket, batch)
OneInv == \A b, c \in Batches : Submitted(batch, b) /\ Submitted(batch, c) => b = c
BoundInv ==
    \A t \in Tickets : Won(ticket, t) /\ ticket[t].batch # NoBatch => Submitted(batch, ticket[t].batch)
LInv == TInv /\ HolderInv /\ OneInv /\ BoundInv /\ WatermarkIsRight

\* With transactions that settle and a reliable node besides: what is in the
\* mempool, mined or dropped, against the rows and the locals.
Fresh(txs, b) == \A x \in Txs : x[1] = b => txs[x].state = "none"
Silent(txs, b) == \A x \in Txs : x[1] = b => txs[x].state \in {"none", "dropped"}
Calm(txs, b) == \A x \in Txs : x[1] = b => txs[x].state # "mempool"
OnlyTx(txs, x) == \A y \in Txs : y[1] = x[1] /\ y # x => txs[y].state \in {"none", "dropped"}
Own(txs, b, x) == x \in Txs /\ x[1] = b /\ OnlyTx(txs, x) /\ txs[x].state # "none"
Unpaid(ids, cl) == ids \cap (cl \cup Unclaimable \cup NoNft) = {}

MStage(l, tk, ba, cl, txs) ==
    /\ l.pc = "rehearse" => l.ids \cap NoNft = {}
    /\ l.pc \in {"create", "bind"} => l.ids # {} /\ Unpaid(l.ids, cl)
    /\ l.pc \in {"rehearse", "create", "bind"} =>
         \A t \in l.ids : Won(tk, t) /\ tk[t].batch = NoBatch
    /\ l.pc = "bind" => BoundTo(tk, l.batch) = {}
    /\ l.pc \in {"bind", "submit", "resubmit", "recover", "store", "restore"} =>
         ba[l.batch].tx = NoTx
    /\ l.pc \in {"bind", "submit"} => Fresh(txs, l.batch)
    /\ l.pc \in {"submit", "resubmit"} =>
         l.ids # {} /\ l.ids = BoundTo(tk, l.batch) /\ Unpaid(l.ids, cl)
    /\ l.pc = "resubmit" => Silent(txs, l.batch)
    /\ l.pc \in {"recover", "finalize", "release"} => Calm(txs, l.batch)
    /\ l.pc \in {"store", "restore", "receipt", "lookup"} => Own(txs, l.batch, l.tx)
    /\ l.pc = "finalize" => BoundTo(tk, l.batch) \subseteq cl
    /\ l.pc = "release" => BoundTo(tk, l.batch) \cap cl = {}

\* A batch in flight: its tickets have been claimed together or not at all.
Flying(b, tk, ba, cl, txs) ==
    /\ \A t \in BoundTo(tk, b) : Won(tk, t)
    /\ BoundTo(tk, b) \cap (Unclaimable \cup NoNft) = {}
    /\ ba[b].tx # NoTx => Own(txs, b, ba[b].tx)
    /\ BoundTo(tk, b) \subseteq cl \/ BoundTo(tk, b) \cap cl = {}
    /\ Silent(txs, b) => BoundTo(tk, b) \cap cl = {}
    /\ \A x \in Txs : x[1] = b /\ txs[x].state = "mempool" =>
         /\ txs[x].ids = BoundTo(tk, b) /\ txs[x].ids # {}
         /\ BoundTo(tk, b) \cap cl = {} /\ OnlyTx(txs, x)
    /\ \A x \in Txs : x[1] = b /\ txs[x].state = "mined" => BoundTo(tk, b) \subseteq cl

MBatch(b, tk, ba, cl, txs) ==
    /\ ba[b].status = "absent" => Fresh(txs, b) /\ BoundTo(tk, b) = {}
    /\ ~Submitted(ba, b) => Calm(txs, b)
    /\ Submitted(ba, b) => Flying(b, tk, ba, cl, txs)

MStages == \A p \in Processes : MStage(me[p], ticket, batch, claimed, tx)
MBatches == \A b \in Batches : MBatch(b, ticket, batch, claimed, tx)
NoRevert == \A x \in Txs : tx[x].state # "reverted"
MInv == LInv /\ MStages /\ MBatches /\ NoRevert /\ CreditedWasClaimed /\ NoLostHarvest /\ QuarantineIsRight

-----------------------------------------------------------------------------
\* Moving a process to another stage, with its locals or with new ones.
LEMMA GotoIs ==
    ASSUME me \in [Processes -> Locals], NEW p \in Processes, NEW st \in Stages, Goto(p, st)
    PROVE  /\ me' \in [Processes -> Locals] /\ me'[p].pc = st
           /\ me'[p].batch = me[p].batch /\ me'[p].ids = me[p].ids /\ me'[p].tx = me[p].tx
           /\ \A q \in Processes : q # p => me'[q] = me[q]
BY DEF Goto, Locals

LEMMA GotoWithIs ==
    ASSUME me \in [Processes -> Locals], NEW p \in Processes, NEW st \in Stages,
           NEW b \in Names, NEW ids \in SUBSET Tickets, NEW x \in Hashes,
           GotoWith(p, st, b, ids, x)
    PROVE  /\ me' \in [Processes -> Locals] /\ me'[p].pc = st
           /\ me'[p].batch = b /\ me'[p].ids = ids /\ me'[p].tx = x
           /\ \A q \in Processes : q # p => me'[q] = me[q]
<1> DEFINE r == [pc |-> st, batch |-> b, ids |-> ids, tx |-> x]
<1>1. r \in Locals /\ r.pc = st /\ r.batch = b /\ r.ids = ids /\ r.tx = x
  BY DEF Locals
<1>2. me' = [me EXCEPT ![p] = r]
  BY DEF GotoWith
<1> HIDE DEF r
<1> QED
  BY <1>1, <1>2

LEMMA AsleepIs == Asleep \in Locals /\ Asleep.pc = "idle"
BY DEF Asleep, Locals, Names, Hashes, Stages

\* The locals and the rows a step reads have their types.
LEMMA Read ==
    ASSUME TInv, NEW p \in Processes
    PROVE  /\ me \in [Processes -> Locals] /\ me[p].pc \in Stages /\ me[p].batch \in Names
           /\ me[p].ids \in SUBSET Tickets /\ me[p].tx \in Hashes
           /\ me[p].pc \in OnBatch => me[p].batch \in Batches
BY DEF TInv, TypeOK, Locals, LocalsInv

LEMMA ReadBatch ==
    ASSUME TInv, NEW b \in Batches
    PROVE  batch[b].status \in Statuses /\ batch[b].tx \in Hashes /\ b \in Names
BY DEF TInv, TypeOK, BatchSet, Names

LEMMA Nones == NoBatch \in Names /\ NoTx \in Hashes /\ Recovered \in Hashes /\ {} \in SUBSET Tickets
BY DEF Names, Hashes

\* A step that moves process p and leaves the tables to be looked at.
LEMMA TStep ==
    ASSUME TInv, NEW p \in Processes, me' \in [Processes -> Locals],
           \A q \in Processes : q # p => me'[q] = me[q],
           me'[p].pc \in OnBatch => me'[p].batch \in Batches,
           ticket' \in [Tickets -> TicketSet], batch' \in [Batches -> BatchSet],
           aged' \subseteq Batches, quarantine' \subseteq Tickets, watermark' \in BOOLEAN,
           lock' \in Processes \cup {Nobody}, tx' \in [Txs -> TxSet],
           claimed' \subseteq Tickets, faults' \in 0..MaxFaults
    PROVE  TInv'
BY DEF TInv, TypeOK, LocalsInv

LEMMA TMove ==
    ASSUME TInv, NEW p \in Processes, me' \in [Processes -> Locals],
           \A q \in Processes : q # p => me'[q] = me[q],
           me'[p].pc \in OnBatch => me'[p].batch \in Batches,
           UNCHANGED <<database, aged, base, faults>>, lock' \in Processes \cup {Nobody}
    PROVE  TInv'
BY TStep DEF database, base, TInv, TypeOK

-----------------------------------------------------------------------------
Sane == LockHolds /\ TxSettles /\ RpcReliable

\* What every step keeps, in each environment.
Kept == TInv' /\ (LockHolds /\ LInv => LInv') /\ (Sane /\ MInv => MInv')

\* No process but p has moved.
Moved(p) == me' \in [Processes -> Locals] /\ \A q \in Processes : q # p => me'[q] = me[q]

\* A stage that promises nothing.
LEMMA Neutral ==
    ASSUME NEW l, l.pc \in {"idle", "resolve", "unlock"}, NEW tk, NEW ba, NEW cl, NEW txs
    PROVE  LStage(l, tk, ba) /\ MStage(l, tk, ba, cl, txs)
BY DEF LStage, MStage, Building, OnBatch

\* The others are not in a tick.
LEMMA Alone ==
    ASSUME LockHolds, LInv, NEW p \in Processes, lock = p \/ lock = Nobody
    PROVE  \A q \in Processes : q # p => me[q].pc = "idle"
BY HarvestConstants DEF LInv, HolderInv

LEMMA Holder ==
    ASSUME LInv, NEW p \in Processes, me[p].pc # "idle"
    PROVE  lock = p /\ LStage(me[p], ticket, batch)
BY DEF LInv, HolderInv

\* A step of the process that holds the lock.
LEMMA Keep ==
    ASSUME TInv', LInv, LockHolds, NEW p \in Processes, Moved(p), me[p].pc # "idle", lock' = lock,
           LStage(me'[p], ticket', batch'), OneInv', BoundInv', WatermarkIsRight'
    PROVE  LInv'
<1>1. lock = p /\ \A q \in Processes : q # p => me'[q].pc = "idle"
  BY Alone, Holder DEF Moved
<1>2. \A q \in Processes : me'[q].pc # "idle" => lock' = q /\ LStage(me'[q], ticket', batch')
  BY <1>1
<1> QED
  BY <1>2 DEF LInv, HolderInv

LEMMA KeepMoney ==
    ASSUME LInv', MInv, LockHolds, NEW p \in Processes, Moved(p), me[p].pc # "idle",
           MStage(me'[p], ticket', batch', claimed', tx'), MBatches', NoRevert',
           CreditedWasClaimed', NoLostHarvest', QuarantineIsRight'
    PROVE  MInv'
<1>1. LInv
  BY DEF MInv
<1>2. \A q \in Processes : q # p => me'[q].pc = "idle"
  BY <1>1, Alone, Holder DEF Moved
<1>3. \A q \in Processes : MStage(me'[q], ticket', batch', claimed', tx')
  BY <1>2, Neutral
<1> QED
  BY <1>3 DEF MInv, MStages

\* A step that touches nothing but the process's stage and locals.
LEMMA MoveKept ==
    ASSUME TInv, NEW p \in Processes, Moved(p), me[p].pc # "idle",
           me'[p].pc \in OnBatch => me'[p].batch \in Batches,
           UNCHANGED <<database, aged, base, lock>>, faults' \in 0..MaxFaults,
           LockHolds /\ LInv => LStage(me'[p], ticket, batch),
           Sane /\ MInv => MStage(me'[p], ticket, batch, claimed, tx)
    PROVE  Kept
<1>1. UNCHANGED <<ticket, batch, quarantine, watermark, aged, tx, claimed, lock>>
  BY DEF database, base
<1>2. TInv'
  BY <1>1 DEF TInv, TypeOK, LocalsInv, Moved
<1>3. ASSUME LockHolds, LInv PROVE LInv'
  <2>1. LStage(me'[p], ticket', batch')
    BY <1>1, <1>3
  <2>2. OneInv' /\ BoundInv' /\ WatermarkIsRight'
    BY <1>1, <1>3 DEF LInv, OneInv, BoundInv, WatermarkIsRight
  <2> QED
    BY <1>1, <1>2, <1>3, <2>1, <2>2, Keep
<1>4. ASSUME Sane, MInv PROVE MInv'
  <2>1. LockHolds /\ LInv
    BY <1>4 DEF Sane, MInv
  <2>2. LInv'
    BY <1>3, <2>1
  <2>3. MStage(me'[p], ticket', batch', claimed', tx')
    BY <1>1, <1>4
  <2>4. MBatches' /\ NoRevert' /\ CreditedWasClaimed' /\ NoLostHarvest' /\ QuarantineIsRight'
    BY <1>1, <1>4 DEF MInv, MBatches, NoRevert, CreditedWasClaimed, NoLostHarvest,
                      QuarantineIsRight, InFlight
  <2> QED
    BY <1>4, <2>1, <2>2, <2>3, <2>4, KeepMoney
<1> QED
  BY <1>2, <1>3, <1>4 DEF Kept

\* ... and ends the tick, or starts to.
LEMMA EndKept ==
    ASSUME TInv, NEW p \in Processes, Moved(p), me[p].pc # "idle",
           me'[p].pc \in {"idle", "resolve", "unlock"},
           UNCHANGED <<database, aged, base, lock>>, faults' \in 0..MaxFaults
    PROVE  Kept
<1>1. LStage(me'[p], ticket, batch) /\ MStage(me'[p], ticket, batch, claimed, tx)
  BY Neutral
<1>2. me'[p].pc \notin OnBatch
  BY DEF OnBatch
<1> QED
  BY <1>1, <1>2, MoveKept

LEMMA Faults == ASSUME TInv PROVE faults \in 0..MaxFaults /\ (faults < MaxFaults => faults + 1 \in 0..MaxFaults)
BY HarvestConstants DEF TInv, TypeOK

LEMMA FindNoneKept == ASSUME TInv, NEW p \in Processes, FindNone(p) PROVE Kept
<1> USE DEF FindNone, At
<1>1. Moved(p) /\ me'[p].pc = "scan"
  BY Read, GotoIs DEF Moved, Stages
<1>2. NoneSubmitted(batch)
  BY DEF InFlight, NoneSubmitted, Submitted
<1>3. LStage(me'[p], ticket, batch)
  BY <1>1, <1>2 DEF LStage, OnBatch
<1>4. MStage(me'[p], ticket, batch, claimed, tx)
  BY <1>1 DEF MStage
<1>5. me'[p].pc \notin OnBatch
  BY <1>1 DEF OnBatch
<1> QED
  BY <1>1, <1>3, <1>4, <1>5, Faults, MoveKept

LEMMA FindBatchKept == ASSUME TInv, NEW p \in Processes, NEW b \in Batches, FindBatch(p, b) PROVE Kept
<1> USE DEF FindBatch, At
<1>0. b \in Names /\ batch[b].tx \in Hashes /\ Submitted(batch, b)
  BY ReadBatch DEF InFlight, Submitted
<1>1. CASE batch[b].tx # NoTx
  <2>1. Moved(p) /\ me'[p].pc = "receipt" /\ me'[p].batch = b /\ me'[p].tx = batch[b].tx
    <3>1. "receipt" \in Stages
      BY DEF Stages
    <3>2. GotoWith(p, "receipt", b, {}, batch[b].tx)
      BY <1>1
    <3>3. me \in [Processes -> Locals] /\ {} \in SUBSET Tickets
      BY Read
    <3> DEFINE x == batch[b].tx
    <3>4. x \in Hashes /\ GotoWith(p, "receipt", b, {}, x)
      BY <1>0, <3>2
    <3> HIDE DEF FindBatch, x
    <3>5. Moved(p) /\ me'[p].pc = "receipt" /\ me'[p].batch = b /\ me'[p].tx = x
      BY <1>0, <3>1, <3>3, <3>4, GotoWithIs DEF Moved
    <3> QED
      BY <3>5 DEF x
  <2>2. LStage(me'[p], ticket, batch)
    BY <1>0, <2>1 DEF LStage, Building
  <2>3. ASSUME MInv PROVE MStage(me'[p], ticket, batch, claimed, tx)
    <3>1. Own(tx, b, batch[b].tx)
      BY <1>0, <1>1, <2>3 DEF MInv, MBatches, MBatch, Flying
    <3> QED
      BY <2>1, <3>1 DEF MStage
  <2> QED
    BY <2>1, <2>2, <2>3, Faults, MoveKept
<1>2. CASE batch[b].tx = NoTx /\ b \in aged
  <2>1. Moved(p) /\ me'[p].pc = "recover" /\ me'[p].batch = b
    BY <1>0, <1>2, Read, Nones, GotoWithIs DEF Moved, Stages
  <2>2. LStage(me'[p], ticket, batch)
    BY <1>0, <2>1 DEF LStage, Building
  <2>3. ASSUME Sane PROVE MStage(me'[p], ticket, batch, claimed, tx)
    <3>1. Calm(tx, b)
      BY <1>2, <2>3 DEF Sane, Settled, Calm
    <3> QED
      BY <1>2, <2>1, <3>1 DEF MStage
  <2> QED
    BY <2>1, <2>2, <2>3, Faults, MoveKept
<1>3. CASE batch[b].tx = NoTx /\ b \notin aged
  <2>1. Moved(p) /\ me'[p].pc = "unlock"
    BY <1>3, Read, GotoIs DEF Moved, Stages
  <2> QED
    BY <2>1, Faults, EndKept
<1> QED
  BY <1>1, <1>2, <1>3

\* What the invariants say of the batch process p is at.
LEMMA OnIt ==
    ASSUME LInv, NEW p \in Processes, me[p].pc \in OnBatch
    PROVE  /\ me[p].batch \in Batches /\ Submitted(batch, me[p].batch) /\ lock = p
           /\ \A c \in Batches : Submitted(batch, c) => c = me[p].batch
BY DEF LInv, TInv, LocalsInv, HolderInv, LStage, OneInv, OnBatch

LEMMA RecoverKept == ASSUME TInv, NEW p \in Processes, Recover(p) PROVE Kept
<1> USE DEF Recover, At
<1> DEFINE b == me[p].batch
           ids == Bound(b)
<1>0. /\ b \in Batches /\ b \in Names /\ ids \in SUBSET Tickets /\ me[p].pc \in OnBatch
      /\ ids = BoundTo(ticket, b) /\ me \in [Processes -> Locals]
  BY Read DEF OnBatch, Names, Bound, BoundTo
<1>m. ASSUME Sane, MInv
      PROVE  /\ Calm(tx, b) /\ NoRevert /\ Flying(b, ticket, batch, claimed, tx)
             /\ batch[b].tx = NoTx /\ LInv
  <2>1. Submitted(batch, b)
    BY <1>0, <1>m, OnIt DEF MInv
  <2> QED
    BY <1>0, <1>m, <2>1 DEF MInv, MStages, MStage, MBatches, MBatch
<1>1. CASE Claimable(ids) /\ GotoWith(p, "resubmit", b, ids, NoTx)
  <2>0. "resubmit" \in Stages /\ NoTx \in Hashes
    BY Nones DEF Stages
  <2>1. Moved(p) /\ me'[p].pc = "resubmit" /\ me'[p].batch = b /\ me'[p].ids = ids
    <3> HIDE DEF Recover, ids
    <3> QED
      BY <1>0, <1>1, <2>0, GotoWithIs DEF Moved
  <2>2. ASSUME LInv PROVE LStage(me'[p], ticket, batch)
    BY <1>0, <2>1, <2>2, OnIt DEF LStage, Building
  <2>3. ASSUME Sane, MInv PROVE MStage(me'[p], ticket, batch, claimed, tx)
    <3>1. ids # {} /\ Unpaid(ids, claimed)
      BY <1>1 DEF Claimable, Unpaid
    <3>2. ~(ids \subseteq claimed)
      BY <3>1 DEF Unpaid
    <3>3. tx \in [Txs -> TxSet]
      BY DEF TInv, TypeOK
    <3>4. \A x \in Txs : tx[x].state \in {"none", "mempool", "mined", "reverted", "dropped"}
      BY <3>3 DEF TxSet
    <3>5. Silent(tx, b)
      BY <1>0, <1>m, <2>3, <3>2, <3>4 DEF Calm, NoRevert, Flying, Silent
    <3> QED
      BY <1>0, <1>m, <2>1, <2>3, <3>1, <3>5 DEF MStage
  <2> QED
    BY <1>0, <2>1, <2>2, <2>3, Faults, MoveKept
<1>2. CASE (Claimable(ids) => ~RpcReliable) /\ GotoWith(p, "finalize", b, {}, Recovered)
  <2>0. "finalize" \in Stages /\ Recovered \in Hashes /\ {} \in SUBSET Tickets
    BY Nones DEF Stages
  <2>1. Moved(p) /\ me'[p].pc = "finalize" /\ me'[p].batch = b
    <3> HIDE DEF Recover, ids
    <3> QED
      BY <1>0, <1>2, <2>0, GotoWithIs DEF Moved
  <2>2. ASSUME LInv PROVE LStage(me'[p], ticket, batch)
    BY <1>0, <2>1, <2>2, OnIt DEF LStage, Building
  <2>3. ASSUME Sane, MInv PROVE MStage(me'[p], ticket, batch, claimed, tx)
    <3>1. ids = {} \/ ids \cap claimed # {}
      <4>1. ~Claimable(ids)
        BY <1>2, <2>3 DEF Sane
      <4>2. ids \cap (Unclaimable \cup NoNft) = {}
        BY <1>0, <1>m, <2>3 DEF Flying
      <4> QED
        BY <4>1, <4>2 DEF Claimable
    <3>2. ids \subseteq claimed
      BY <1>0, <1>m, <2>3, <3>1 DEF Flying
    <3> QED
      BY <1>0, <1>m, <2>1, <2>3, <3>2 DEF MStage
  <2> QED
    BY <1>0, <2>1, <2>2, <2>3, Faults, MoveKept
<1> QED
  BY <1>1, <1>2

LEMMA ResubmitThrowsKept == ASSUME TInv, NEW p \in Processes, ResubmitThrows(p) PROVE Kept
<1> USE DEF ResubmitThrows, At
<1> DEFINE b == me[p].batch
<1>1. b \in Batches /\ b \in Names /\ me[p].pc \in OnBatch
  BY Read DEF OnBatch, Names
<1>2. /\ "finalize" \in Stages /\ Recovered \in Hashes /\ {} \in SUBSET Tickets
      /\ me \in [Processes -> Locals]
  BY Read, Nones DEF Stages
<1>3. Moved(p) /\ me'[p].pc = "finalize" /\ me'[p].batch = b
  <2>1. GotoWith(p, "finalize", b, {}, Recovered)
    OBVIOUS
  <2> HIDE DEF ResubmitThrows
  <2> QED
    BY <1>1, <1>2, <2>1, GotoWithIs DEF Moved
<1>4. ASSUME LInv PROVE LStage(me'[p], ticket, batch)
  BY <1>1, <1>3, <1>4, OnIt DEF LStage, Building
<1>5. ASSUME Sane, MInv PROVE FALSE
  <2>1. me[p].pc = "resubmit" /\ ~Claimable(me[p].ids)
    BY <1>5 DEF Sane
  <2>2. me[p].ids # {} /\ Unpaid(me[p].ids, claimed)
    BY <1>5, <2>1 DEF MInv, MStages, MStage
  <2> QED
    BY <2>1, <2>2 DEF Unpaid, Claimable
<1> QED
  BY <1>1, <1>3, <1>4, <1>5, Faults, MoveKept

LEMMA ReadReceiptKept == ASSUME TInv, NEW p \in Processes, ReadReceipt(p) PROVE Kept
<1> USE DEF ReadReceipt, At
<1> DEFINE b == me[p].batch
           state == tx[me[p].tx].state
<1>1. b \in Batches /\ me[p].pc \in OnBatch
  BY Read DEF OnBatch
<1>2. PICK st \in {"finalize", "release", "lookup", "unlock"} :
        /\ Goto(p, st)
        /\ st = "finalize" => state = "mined"
        /\ st = "release" => state = "reverted"
  <2>1. CASE state = "mined"
    BY <2>1
  <2>2. CASE state = "reverted"
    BY <2>2
  <2>3. CASE state \notin {"mined", "reverted"}
    BY <2>3
  <2> QED
    BY <2>1, <2>2, <2>3
<1>3. /\ Moved(p) /\ me'[p].pc = st /\ me'[p].batch = b /\ me'[p].tx = me[p].tx
      /\ UNCHANGED <<database, aged, base, lock, faults>>
  <2>1. st \in Stages /\ Goto(p, st)
    BY <1>2 DEF Stages
  <2> QED
    BY <2>1, Read, GotoIs DEF Moved
<1>4. ASSUME LInv PROVE LStage(me'[p], ticket, batch)
  BY <1>1, <1>3, <1>4, OnIt DEF LStage, Building
<1>5. ASSUME Sane, MInv PROVE MStage(me'[p], ticket, batch, claimed, tx)
  <2>1. Own(tx, b, me[p].tx) /\ LInv /\ NoRevert
    BY <1>5 DEF MInv, MStages, MStage
  <2>2. Flying(b, ticket, batch, claimed, tx)
    BY <1>1, <1>5, <2>1, OnIt DEF MInv, MBatches, MBatch
  <2>3. CASE st = "finalize"
    <3>1. state = "mined"
      BY <1>2, <2>3
    <3>2. BoundTo(ticket, b) \subseteq claimed
      BY <2>1, <2>2, <3>1 DEF Flying, Own
    <3>3. Calm(tx, b)
      BY <2>1, <3>1 DEF Own, OnlyTx, Calm
    <3> QED
      BY <1>3, <2>3, <3>2, <3>3 DEF MStage
  <2>4. CASE st = "release"
    BY <1>2, <2>1, <2>4 DEF Own, NoRevert
  <2>5. CASE st = "lookup"
    BY <1>3, <2>1, <2>5 DEF MStage
  <2>6. CASE st = "unlock"
    BY <1>3, <2>6 DEF MStage
  <2> QED
    BY <1>2, <2>3, <2>4, <2>5, <2>6
<1> HIDE DEF ReadReceipt
<1>6. me[p].pc # "idle" /\ faults' \in 0..MaxFaults
  BY <1>3, Faults DEF ReadReceipt
<1> QED
  BY <1>1, <1>3, <1>4, <1>5, <1>6, MoveKept

LEMMA LookUpKept == ASSUME TInv, NEW p \in Processes, LookUp(p) PROVE Kept
<1> USE DEF LookUp, At
<1> DEFINE b == me[p].batch
<1>1. b \in Batches /\ me[p].pc \in OnBatch
  BY Read DEF OnBatch
<1>2. CASE tx[me[p].tx].state # "dropped"
  <2>1. Moved(p) /\ me'[p].pc = "unlock"
    BY <1>2, Read, GotoIs DEF Moved, Stages
  <2> QED
    BY <2>1, Faults, EndKept
<1>3. CASE tx[me[p].tx].state = "dropped"
  <2>1. Moved(p) /\ me'[p].pc = "release" /\ me'[p].batch = b
    BY <1>3, Read, GotoIs DEF Moved, Stages
  <2>2. ASSUME LInv PROVE LStage(me'[p], ticket, batch)
    BY <1>1, <2>1, <2>2, OnIt DEF LStage, Building
  <2>3. ASSUME MInv PROVE MStage(me'[p], ticket, batch, claimed, tx)
    <3>1. Own(tx, b, me[p].tx) /\ LInv
      BY <2>3 DEF MInv, MStages, MStage
    <3>2. Flying(b, ticket, batch, claimed, tx)
      BY <1>1, <2>3, <3>1, OnIt DEF MInv, MBatches, MBatch
    <3>3. Silent(tx, b)
      BY <1>3, <3>1 DEF Own, OnlyTx, Silent
    <3>4. Calm(tx, b) /\ BoundTo(ticket, b) \cap claimed = {}
      BY <3>2, <3>3 DEF Flying, Silent, Calm
    <3> QED
      BY <2>1, <3>4 DEF MStage
  <2> QED
    BY <1>1, <2>1, <2>2, <2>3, Faults, MoveKept
<1> QED
  BY <1>2, <1>3

LEMMA ScanKept ==
    ASSUME TInv, NEW p \in Processes, NEW ids \in SUBSET Tickets, Scan(p, ids) PROVE Kept
<1> USE DEF Scan, Take, At
<1> DEFINE st == IF ids = {} THEN "owed" ELSE "rehearse"
<1>1. st \in Stages /\ st \in {"owed", "rehearse"} /\ GotoWith(p, st, NoBatch, ids, NoTx)
  BY DEF Stages
<1>2. \A t \in ids : Won(ticket, t) /\ ticket[t].batch = NoBatch /\ t \notin NoNft
  BY DEF Harvestable, Won
<1>3. me[p].pc = "scan" /\ UNCHANGED <<database, aged, lock, base, faults>>
  OBVIOUS
<1> HIDE DEF st, Scan, Take
<1>4. Moved(p) /\ me'[p].pc = st /\ me'[p].ids = ids
  BY <1>1, Read, Nones, GotoWithIs DEF Moved
<1>5. ASSUME LInv PROVE LStage(me'[p], ticket, batch)
  <2>1. NoneSubmitted(batch)
    BY <1>3, <1>5, Holder DEF LStage, Building
  <2> QED
    BY <1>1, <1>4, <2>1 DEF LStage, OnBatch
<1>6. MStage(me'[p], ticket, batch, claimed, tx)
  BY <1>1, <1>2, <1>4 DEF MStage
<1>7. me'[p].pc \notin OnBatch
  BY <1>1, <1>4 DEF OnBatch
<1> QED
  BY <1>3, <1>4, <1>5, <1>6, <1>7, Faults, MoveKept

LEMMA CheckOwedKept == ASSUME TInv, NEW p \in Processes, CheckOwed(p) PROVE Kept
<1> USE DEF CheckOwed, At
<1>1. CASE Harvestable # {}
  <2>1. Moved(p) /\ me'[p].pc = "unlock"
    BY <1>1, Read, GotoIs DEF Moved, Stages
  <2> QED
    BY <2>1, Faults, EndKept
<1>2. CASE Harvestable = {}
  <2>1. Moved(p) /\ me'[p].pc = "mark"
    BY <1>2, Read, GotoIs DEF Moved, Stages
  <2>2. ASSUME LInv PROVE LStage(me'[p], ticket, batch)
    <3>1. NoneSubmitted(batch)
      BY <2>2, Holder DEF LStage, Building
    <3>2. \A t \in Tickets : ticket[t].batch \in Batches \cup {NoBatch}
      BY DEF TInv, TypeOK, TicketSet, Names
    <3>3. \A t \in Tickets : ~Won(ticket, t)
      BY <1>2, <2>2, <3>1, <3>2 DEF LInv, BoundInv, NoneSubmitted, Harvestable, Won
    <3> QED
      BY <2>1, <3>1, <3>3 DEF LStage, OnBatch
  <2>3. MStage(me'[p], ticket, batch, claimed, tx) /\ me'[p].pc \notin OnBatch
    BY <2>1 DEF MStage, OnBatch
  <2> QED
    BY <2>1, <2>2, <2>3, Faults, MoveKept
<1> QED
  BY <1>1, <1>2

LEMMA SubmitRevertsKept == ASSUME TInv, NEW p \in Processes, SubmitReverts(p) PROVE Kept
<1>1. Moved(p) /\ me'[p].pc = "unlock"
  BY Read, GotoIs DEF Moved, Stages, SubmitReverts
<1> QED
  BY <1>1, Faults, EndKept DEF SubmitReverts, At

LEMMA ThrowKept == ASSUME TInv, NEW p \in Processes, Throw(p) PROVE Kept
<1>1. Moved(p) /\ me'[p].pc = "unlock"
  BY Read, GotoIs DEF Moved, Stages, Throw
<1> QED
  BY <1>1, Faults, EndKept DEF Throw

LEMMA CrashKept == ASSUME TInv, NEW p \in Processes, Crash(p) PROVE Kept
<1>1. Moved(p) /\ me'[p].pc = "idle"
  BY Read, AsleepIs DEF Moved, Crash
<1> QED
  BY <1>1, Faults, EndKept DEF Crash, At

-----------------------------------------------------------------------------
\* The lock changes hands, or is given back.
LEMMA LockMoved ==
    ASSUME TInv, NEW p \in Processes, Moved(p), me'[p].pc \in {"idle", "resolve", "unlock"},
           UNCHANGED <<database, aged, base, faults>>, lock' \in Processes \cup {Nobody},
           LockHolds /\ LInv => lock = p \/ lock = Nobody,
           me'[p].pc # "idle" => lock' = p
    PROVE  Kept
<1>0. UNCHANGED <<ticket, batch, quarantine, watermark, aged, tx, claimed>>
  BY DEF database, base
<1>1. me'[p].pc \notin OnBatch
  BY DEF OnBatch
<1>2. TInv'
  BY <1>1, TMove DEF Moved
<1>3. ASSUME LockHolds, LInv PROVE LInv'
  <2>1. \A q \in Processes : q # p => me'[q].pc = "idle"
    BY <1>3, Alone DEF Moved
  <2>2. LStage(me'[p], ticket', batch')
    BY Neutral
  <2>3. HolderInv'
    BY <2>1, <2>2 DEF HolderInv
  <2> QED
    BY <1>0, <1>2, <1>3, <2>3 DEF LInv, OneInv, BoundInv, WatermarkIsRight
<1>4. ASSUME Sane, MInv PROVE MInv'
  <2>1. LockHolds /\ LInv
    BY <1>4 DEF Sane, MInv
  <2>2. \A q \in Processes : q # p => me'[q].pc = "idle"
    BY <2>1, Alone DEF Moved
  <2>3. MStages'
    BY <2>2, Neutral DEF MStages
  <2> QED
    BY <1>0, <1>3, <1>4, <2>1, <2>3
    DEF MInv, MBatches, NoRevert, CreditedWasClaimed, NoLostHarvest, QuarantineIsRight, InFlight
<1> QED
  BY <1>2, <1>3, <1>4 DEF Kept

LEMMA AcquireKept == ASSUME TInv, NEW p \in Processes, Acquire(p) PROVE Kept
<1>1. Moved(p) /\ me'[p].pc = "resolve"
  BY Read, GotoIs DEF Moved, Stages, Acquire
<1> QED
  BY <1>1, LockMoved DEF Acquire

LEMMA UnlockKept == ASSUME TInv, NEW p \in Processes, Unlock(p) PROVE Kept
<1>1. Moved(p) /\ me'[p].pc = "idle"
  BY Read, AsleepIs DEF Moved, Unlock
<1>2. LInv => lock = p
  BY Holder DEF Unlock, At
<1> QED
  BY <1>1, <1>2, LockMoved DEF Unlock

\* A step that touches neither the rows, nor Base, nor a process.
LEMMA Untouched ==
    ASSUME TInv, UNCHANGED <<database, base, me, faults>>, aged' \subseteq Batches,
           lock' \in Processes \cup {Nobody}, LockHolds /\ HolderInv => HolderInv'
    PROVE  Kept
<1>1. UNCHANGED <<ticket, batch, quarantine, watermark, tx, claimed, me, faults>>
  BY DEF database, base
<1>2. TInv'
  BY <1>1 DEF TInv, TypeOK, LocalsInv
<1>3. LockHolds /\ LInv => LInv'
  BY <1>1, <1>2 DEF LInv, OneInv, BoundInv, WatermarkIsRight
<1>4. Sane /\ MInv => MInv'
  BY <1>1, <1>3 DEF Sane, MInv, MStages, MBatches, NoRevert, CreditedWasClaimed,
                    NoLostHarvest, QuarantineIsRight, InFlight
<1> QED
  BY <1>2, <1>3, <1>4 DEF Kept

LEMMA LockExpiresKept == ASSUME TInv, LockExpires PROVE Kept
<1>1. LockHolds /\ HolderInv => HolderInv'
  BY DEF LockExpires, At, HolderInv
<1> QED
  BY <1>1, Untouched DEF LockExpires, TInv, TypeOK

LEMMA BatchAgesKept == ASSUME TInv, NEW b \in Batches, BatchAges(b) PROVE Kept
<1>1. HolderInv => HolderInv'
  BY DEF BatchAges, HolderInv, database
<1> QED
  BY <1>1, Untouched DEF BatchAges, TInv, TypeOK

LEMMA SetWatermarkKept == ASSUME TInv, NEW p \in Processes, SetWatermark(p) PROVE Kept
<1> USE DEF SetWatermark, At
<1>0. /\ UNCHANGED <<ticket, batch, quarantine, aged, lock, tx, claimed, faults>>
      /\ watermark' = TRUE /\ me[p].pc = "mark"
  BY DEF base
<1>1. Moved(p) /\ me'[p].pc = "unlock" /\ me'[p].pc \notin OnBatch
  BY Read, GotoIs DEF Moved, Stages, OnBatch
<1> HIDE DEF SetWatermark
<1>2. TInv'
  BY <1>0, <1>1, TStep DEF TInv, TypeOK, Moved
<1>3. ASSUME LockHolds, LInv PROVE LInv'
  <2>1. \A t \in Tickets : ~Won(ticket, t)
    BY <1>0, <1>3, Holder DEF LStage
  <2>2. \A t \in Tickets : ticket[t].win \in {"WON", "CLAIMED_ON_BASE"}
    BY DEF TInv, TypeOK, TicketSet
  <2>3. OneInv' /\ BoundInv' /\ WatermarkIsRight'
    BY <1>0, <1>3, <2>1, <2>2 DEF LInv, OneInv, BoundInv, WatermarkIsRight, Won
  <2>4. LStage(me'[p], ticket', batch')
    BY <1>1, Neutral
  <2> QED
    BY <1>0, <1>1, <1>2, <1>3, <2>3, <2>4, Keep
<1>4. ASSUME Sane, MInv PROVE MInv'
  <2>1. LockHolds /\ LInv /\ MStage(me'[p], ticket', batch', claimed', tx')
    BY <1>1, <1>4, Neutral DEF Sane, MInv
  <2>2. MBatches' /\ NoRevert' /\ CreditedWasClaimed' /\ NoLostHarvest' /\ QuarantineIsRight'
    BY <1>0, <1>4 DEF MInv, MBatches, NoRevert, CreditedWasClaimed, NoLostHarvest,
                      QuarantineIsRight, InFlight
  <2> QED
    BY <1>0, <1>1, <1>3, <1>4, <2>1, <2>2, KeepMoney
<1> QED
  BY <1>2, <1>3, <1>4 DEF Kept

LEMMA RehearseKept ==
    ASSUME TInv, NEW p \in Processes, NEW good \in SUBSET Tickets, Rehearse(p, good) PROVE Kept
<1> DEFINE st == IF good = {} THEN "unlock" ELSE "create"
           ids == me[p].ids
<1>0. /\ UNCHANGED <<ticket, batch, watermark, aged, lock, tx, claimed, faults>>
      /\ quarantine' = quarantine \cup (ids \ good) /\ me[p].pc = "rehearse"
      /\ GotoWith(p, st, NoBatch, good, NoTx)
      /\ \A t \in good : t \in ids /\ Claimable({t})
      /\ RpcReliable => good = {t \in ids : Claimable({t})}
  BY DEF Rehearse, At, base
<1>1. st \in Stages /\ st \in {"unlock", "create"} /\ (st = "create" => good # {})
  BY DEF Stages
<1> HIDE DEF st
<1>2. Moved(p) /\ me'[p].pc = st /\ me'[p].ids = good /\ me'[p].pc \notin OnBatch
  <2>1. Moved(p) /\ me'[p].pc = st /\ me'[p].ids = good
    BY <1>0, <1>1, Read, Nones, GotoWithIs DEF Moved
  <2> QED
    BY <1>1, <2>1 DEF OnBatch
<1>3. TInv'
  <2>1. quarantine' \subseteq Tickets
    BY <1>0, Read DEF TInv, TypeOK
  <2> QED
    BY <1>0, <1>2, <2>1, TStep DEF TInv, TypeOK, Moved
<1>4. ASSUME LockHolds, LInv PROVE LInv'
  <2>1. NoneSubmitted(batch)
    BY <1>0, <1>4, Holder DEF LStage, Building
  <2>2. LStage(me'[p], ticket', batch')
    BY <1>0, <1>1, <1>2, <2>1 DEF LStage
  <2>3. OneInv' /\ BoundInv' /\ WatermarkIsRight'
    BY <1>0, <1>4 DEF LInv, OneInv, BoundInv, WatermarkIsRight
  <2> QED
    BY <1>0, <1>2, <1>3, <1>4, <2>2, <2>3, Keep
<1>5. ASSUME Sane, MInv PROVE MInv'
  <2>1. LockHolds /\ LInv /\ ids \cap NoNft = {} /\ ids \subseteq Tickets
        /\ \A t \in ids : Won(ticket, t) /\ ticket[t].batch = NoBatch
    BY <1>0, <1>5, Read DEF Sane, MInv, MStages, MStage
  <2>2. Unpaid(good, claimed)
    BY <1>0 DEF Claimable, Unpaid
  <2>3. MStage(me'[p], ticket', batch', claimed', tx')
    BY <1>0, <1>1, <1>2, <2>1, <2>2 DEF MStage
  <2>4. QuarantineIsRight'
    <3>1. ASSUME NEW t \in ids \ good PROVE t \in Unclaimable
      <4>1. t \in claimed \cup Unclaimable \cup NoNft
        BY <1>0, <1>5 DEF Sane, Claimable
      <4>2. t \notin claimed
        BY <1>5, <2>1, HarvestConstants DEF MInv, NoLostHarvest, Won, InFlight
      <4> QED
        BY <2>1, <4>1, <4>2
    <3> QED
      BY <1>0, <1>5, <3>1 DEF MInv, QuarantineIsRight
  <2>5. MBatches' /\ NoRevert' /\ CreditedWasClaimed' /\ NoLostHarvest'
    BY <1>0, <1>5 DEF MInv, MBatches, NoRevert, CreditedWasClaimed, NoLostHarvest, InFlight
  <2> QED
    BY <1>0, <1>2, <1>4, <1>5, <2>1, <2>3, <2>4, <2>5, KeepMoney
<1> QED
  BY <1>3, <1>4, <1>5 DEF Kept

-----------------------------------------------------------------------------
\* A batch a step does not concern.
LEMMA SameBatch ==
    ASSUME NEW c, NEW tk, NEW ba, NEW cl, NEW txs, NEW tk2, NEW ba2, NEW cl2, NEW txs2,
           MBatch(c, tk, ba, cl, txs), ba2[c] = ba[c], BoundTo(tk2, c) = BoundTo(tk, c),
           \A t \in BoundTo(tk, c) : tk2[t].win = tk[t].win /\ (t \in cl2 <=> t \in cl),
           \A x \in Txs : x[1] = c => txs2[x] = txs[x]
    PROVE  MBatch(c, tk2, ba2, cl2, txs2)
<1>1. \A x \in Txs : x[1] = c => (OnlyTx(txs, x) <=> OnlyTx(txs2, x))
  BY DEF OnlyTx
<1>2. \A x : Own(txs, c, x) <=> Own(txs2, c, x)
  BY <1>1 DEF Own
<1>3. /\ Fresh(txs, c) <=> Fresh(txs2, c)
      /\ Silent(txs, c) <=> Silent(txs2, c)
      /\ Calm(txs, c) <=> Calm(txs2, c)
  BY DEF Fresh, Silent, Calm
<1>4. /\ BoundTo(tk, c) \subseteq cl <=> BoundTo(tk2, c) \subseteq cl2
      /\ BoundTo(tk, c) \cap cl = {} <=> BoundTo(tk2, c) \cap cl2 = {}
  OBVIOUS
<1>5. ASSUME Flying(c, tk, ba, cl, txs) PROVE Flying(c, tk2, ba2, cl2, txs2)
  <2>1. \A t \in BoundTo(tk2, c) : Won(tk2, t)
    BY <1>5 DEF Flying, Won
  <2>2. ba2[c].tx # NoTx => Own(txs2, c, ba2[c].tx)
    BY <1>2, <1>5 DEF Flying
  <2>3. \A x \in Txs : x[1] = c /\ txs2[x].state = "mempool" =>
         /\ txs2[x].ids = BoundTo(tk2, c) /\ txs2[x].ids # {}
         /\ BoundTo(tk2, c) \cap cl2 = {} /\ OnlyTx(txs2, x)
    BY <1>1, <1>4, <1>5 DEF Flying
  <2>4. \A x \in Txs : x[1] = c /\ txs2[x].state = "mined" => BoundTo(tk2, c) \subseteq cl2
    BY <1>4, <1>5 DEF Flying
  <2> QED
    BY <1>3, <1>4, <1>5, <2>1, <2>2, <2>3, <2>4 DEF Flying
<1> QED
  BY <1>3, <1>5 DEF MBatch, Submitted

\* A transaction in the mempool is that of the one batch in flight, and its
\* tickets can be claimed.
LEMMA InMempool ==
    ASSUME Sane, MInv, NEW x \in Txs, tx[x].state = "mempool"
    PROVE  /\ x[1] \in Batches /\ Submitted(batch, x[1]) /\ tx[x].ids = BoundTo(ticket, x[1])
           /\ OnlyTx(tx, x) /\ Claimable(tx[x].ids)
           /\ \A p \in Processes : \/ me[p].pc \in {"idle", "resolve", "unlock"}
                                   \/ /\ me[p].pc \in {"store", "restore", "receipt", "lookup"}
                                      /\ me[p].batch = x[1] /\ me[p].tx = x
<1>1. x[1] \in Batches
  BY DEF Txs
<1>2. Submitted(batch, x[1])
  BY <1>1 DEF MInv, MBatches, MBatch, Calm
<1>3. Flying(x[1], ticket, batch, claimed, tx)
  BY <1>1, <1>2 DEF MInv, MBatches, MBatch
<1>4. tx[x].ids = BoundTo(ticket, x[1]) /\ OnlyTx(tx, x) /\ tx[x].ids # {}
      /\ tx[x].ids \cap claimed = {} /\ tx[x].ids \cap (Unclaimable \cup NoNft) = {}
  BY <1>3 DEF Flying
<1>5. Claimable(tx[x].ids)
  BY <1>4 DEF Claimable
<1>6. ASSUME NEW p \in Processes, me[p].pc \notin {"idle", "resolve", "unlock"}
      PROVE  me[p].pc \in {"store", "restore", "receipt", "lookup"} /\ me[p].batch = x[1] /\ me[p].tx = x
  <2>1. LInv /\ MStage(me[p], ticket, batch, claimed, tx) /\ me[p].pc \in Stages
    BY Read DEF MInv, LInv, MStages
  <2>2. me[p].pc \notin Building
    BY <1>1, <1>2, <1>6, <2>1, Holder DEF LStage, NoneSubmitted
  <2>3. me[p].pc \in OnBatch
    BY <1>6, <2>1, <2>2 DEF Stages, OnBatch, Building
  <2>4. me[p].batch = x[1]
    BY <1>1, <1>2, <2>1, <2>3, OnIt
  <2>5. ~Fresh(tx, x[1]) /\ ~Silent(tx, x[1]) /\ ~Calm(tx, x[1])
    BY DEF Fresh, Silent, Calm
  <2>6. me[p].pc \in {"store", "restore", "receipt", "lookup"}
    BY <2>1, <2>3, <2>4, <2>5 DEF MStage, OnBatch
  <2>7. Own(tx, x[1], me[p].tx)
    BY <2>1, <2>4, <2>6 DEF MStage
  <2> QED
    BY <2>4, <2>6, <2>7 DEF Own, OnlyTx
<1> QED
  BY <1>1, <1>2, <1>4, <1>5, <1>6

\* What Base does changes no row and no process.
LEMMA BaseSteps ==
    ASSUME TInv, UNCHANGED <<database, aged, lock, me>>, tx' \in [Txs -> TxSet],
           claimed' \subseteq Tickets, faults' \in 0..MaxFaults
    PROVE  TInv' /\ (LockHolds /\ LInv => LInv')
<1>1. UNCHANGED <<ticket, batch, quarantine, watermark, aged, lock, me>>
  BY DEF database
<1>2. TInv'
  BY <1>1 DEF TInv, TypeOK, LocalsInv
<1> QED
  BY <1>1, <1>2 DEF LInv, HolderInv, OneInv, BoundInv, WatermarkIsRight

\* A transaction leaves the mempool: mined, or dropped.
LEMMA Leaves ==
    ASSUME Sane, MInv, LInv', UNCHANGED <<database, me>>, NEW x \in Txs,
           tx[x].state = "mempool", tx'[x].state \in {"mined", "dropped"},
           \A y \in Txs : y # x => tx'[y] = tx[y],
           claimed' = IF tx'[x].state = "mined" THEN claimed \cup tx[x].ids ELSE claimed
    PROVE  MInv'
<1> DEFINE b == x[1]
<1>0. UNCHANGED <<ticket, batch, quarantine, me>>
  BY DEF database
<1>1. /\ b \in Batches /\ Submitted(batch, b) /\ tx[x].ids = BoundTo(ticket, b)
      /\ OnlyTx(tx, x) /\ Claimable(tx[x].ids)
  BY InMempool
<1>2. MBatch(b, ticket, batch, claimed, tx) /\ Flying(b, ticket, batch, claimed, tx)
  BY <1>1 DEF MInv, MBatches, MBatch
<1>3. BoundTo(ticket, b) \cap claimed = {}
  BY <1>1 DEF Claimable
<1>4. claimed' = IF tx'[x].state = "mined" THEN claimed \cup BoundTo(ticket, b) ELSE claimed
  BY <1>1
<1>5. OnlyTx(tx', x) /\ \A y \in Txs : y[1] = b /\ y # x => tx'[y].state \in {"none", "dropped"}
  BY <1>1 DEF OnlyTx
<1>6. ASSUME NEW h, Own(tx, b, h) PROVE h = x
  BY <1>6 DEF Own, OnlyTx
<1>7. Own(tx', b, x)
  BY <1>5 DEF Own
<1>8. Flying(b, ticket, batch, claimed', tx')
  <2>1. batch[b].tx # NoTx => Own(tx', b, batch[b].tx)
    BY <1>2, <1>6, <1>7 DEF Flying
  <2>2. Silent(tx', b) => BoundTo(ticket, b) \cap claimed' = {}
    BY <1>3, <1>4 DEF Silent
  <2>3. BoundTo(ticket, b) \subseteq claimed' \/ BoundTo(ticket, b) \cap claimed' = {}
    BY <1>3, <1>4
  <2>4. ASSUME NEW y \in Txs, y[1] = b, tx'[y].state = "mempool" PROVE FALSE
    BY <1>5, <2>4
  <2>5. ASSUME NEW y \in Txs, y[1] = b, tx'[y].state = "mined" PROVE BoundTo(ticket, b) \subseteq claimed'
    BY <1>4, <1>5, <2>5
  <2> QED
    BY <1>2, <2>1, <2>2, <2>3, <2>4, <2>5 DEF Flying
<1>9. MBatches'
  <2>1. ASSUME NEW c \in Batches PROVE MBatch(c, ticket', batch', claimed', tx')
    <3>1. CASE c = b
      BY <1>0, <1>1, <1>8, <3>1 DEF MBatch, Submitted
    <3>2. CASE c # b
      <4>1. MBatch(c, ticket, batch, claimed, tx)
        BY <1>2, <2>1 DEF MInv, MBatches
      <4>2. \A t \in BoundTo(ticket, c) : t \in claimed' <=> t \in claimed
        BY <1>4, <3>2 DEF BoundTo
      <4>3. \A y \in Txs : y[1] = c => tx'[y] = tx[y]
        BY <3>2
      <4>4. MBatch(c, ticket, batch, claimed', tx')
        BY <4>1, <4>2, <4>3, SameBatch
      <4> QED
        BY <1>0, <4>4
    <3> QED
      BY <3>1, <3>2
  <2> QED
    BY <2>1 DEF MBatches
<1>10. MStages'
  <2>1. ASSUME NEW p \in Processes PROVE MStage(me[p], ticket, batch, claimed', tx')
    <3>1. CASE me[p].pc \in {"idle", "resolve", "unlock"}
      BY <3>1, Neutral
    <3>2. CASE /\ me[p].pc \in {"store", "restore", "receipt", "lookup"}
               /\ me[p].batch = b /\ me[p].tx = x
      <4>1. MStage(me[p], ticket, batch, claimed, tx)
        BY DEF MInv, MStages
      <4> QED
        BY <1>7, <3>2, <4>1 DEF MStage
    <3> QED
      BY <3>1, <3>2, InMempool
  <2> QED
    BY <1>0, <2>1 DEF MStages
<1>11. NoRevert'
  BY DEF MInv, NoRevert
<1>12. CreditedWasClaimed' /\ QuarantineIsRight'
  BY <1>0, <1>4 DEF MInv, CreditedWasClaimed, QuarantineIsRight
<1>13. NoLostHarvest'
  <2>1. \A t \in BoundTo(ticket, b) : ticket[t].batch \in InFlight
    BY <1>1 DEF BoundTo, InFlight, Submitted
  <2> QED
    BY <1>0, <1>4, <2>1 DEF MInv, NoLostHarvest, InFlight
<1> QED
  BY <1>9, <1>10, <1>11, <1>12, <1>13 DEF MInv

LEMMA MineKept == ASSUME TInv, NEW x \in Txs, Mine(x) PROVE Kept
<1>0. UNCHANGED <<database, aged, lock, me, faults>>
  BY DEF Mine
<1>1. tx \in [Txs -> TxSet] /\ claimed \subseteq Tickets /\ tx[x].ids \subseteq Tickets
  BY DEF TInv, TypeOK, TxSet
<1>2. PICK st \in {"mined", "reverted"} :
        /\ tx' = [tx EXCEPT ![x].state = st]
        /\ claimed' = IF st = "mined" THEN claimed \cup tx[x].ids ELSE claimed
        /\ st = "reverted" => ~Claimable(tx[x].ids)
  BY DEF Mine
<1>3. /\ tx' \in [Txs -> TxSet] /\ tx'[x].state = st
      /\ \A y \in Txs : y # x => tx'[y] = tx[y]
  BY <1>1, <1>2 DEF TxSet
<1>4. TInv' /\ (LockHolds /\ LInv => LInv')
  <2>1. claimed' \subseteq Tickets
    BY <1>1, <1>2
  <2> QED
    BY <1>0, <1>3, <2>1, Faults, BaseSteps
<1>5. ASSUME Sane, MInv PROVE MInv'
  <2>1. tx[x].state = "mempool"
    BY <1>5 DEF Mine, Sane
  <2>2. st = "mined"
    BY <1>2, <1>5, <2>1, InMempool
  <2>3. LInv'
    BY <1>4, <1>5 DEF Sane, MInv
  <2>4. claimed' = IF tx'[x].state = "mined" THEN claimed \cup tx[x].ids ELSE claimed
    BY <1>2, <1>3
  <2> QED
    BY <1>0, <1>3, <1>5, <2>1, <2>2, <2>3, <2>4, Leaves
<1> QED
  BY <1>4, <1>5 DEF Kept

LEMMA DropKept == ASSUME TInv, NEW x \in Txs, Drop(x) PROVE Kept
<1>0. UNCHANGED <<database, aged, lock, me, claimed>> /\ tx[x].state = "mempool"
      /\ faults' \in 0..MaxFaults
  BY Faults DEF Drop
<1>1. tx \in [Txs -> TxSet] /\ claimed \subseteq Tickets
  BY DEF TInv, TypeOK
<1>2. /\ tx' \in [Txs -> TxSet] /\ tx'[x].state = "dropped"
      /\ \A y \in Txs : y # x => tx'[y] = tx[y]
  BY <1>1 DEF Drop, TxSet
<1>3. TInv' /\ (LockHolds /\ LInv => LInv')
  BY <1>0, <1>1, <1>2, BaseSteps
<1>4. ASSUME Sane, MInv PROVE MInv'
  <2>1. LInv'
    BY <1>3, <1>4 DEF Sane, MInv
  <2> QED
    BY <1>0, <1>2, <1>4, <2>1, Leaves
<1> QED
  BY <1>3, <1>4 DEF Kept

-----------------------------------------------------------------------------
\* The worker broadcasts the tickets bound to its batch.
LEMMA BroadcastKept ==
    ASSUME TInv, NEW p \in Processes, NEW x \in Txs, NEW st \in {"store", "restore"},
           me[p].pc \in {"submit", "resubmit"}, Broadcast(p, x, st)
    PROVE  Kept
<1> DEFINE b == me[p].batch
           ids == me[p].ids
           send == [ids |-> ids, state |-> "mempool"]
<1>0. /\ UNCHANGED <<ticket, batch, quarantine, watermark, aged, lock, claimed, faults>>
      /\ x[1] = b /\ tx[x].state = "none" /\ tx' = [tx EXCEPT ![x] = send]
      /\ GotoWith(p, st, b, ids, x)
  BY DEF Broadcast, NextTx, database
<1>1. me \in [Processes -> Locals] /\ b \in Batches /\ b \in Names /\ ids \in SUBSET Tickets
      /\ me[p].pc \in OnBatch /\ x \in Hashes
  BY Read DEF OnBatch, Names, Hashes
<1>2. send \in TxSet /\ send.ids = ids /\ send.state = "mempool"
  BY <1>1 DEF TxSet
<1>3. tx \in [Txs -> TxSet]
  BY DEF TInv, TypeOK
<1> HIDE DEF send
<1>4. /\ tx' \in [Txs -> TxSet] /\ tx'[x].ids = ids /\ tx'[x].state = "mempool"
      /\ \A y \in Txs : y # x => tx'[y] = tx[y]
  BY <1>0, <1>2, <1>3
<1>5. Moved(p) /\ me'[p].pc = st /\ me'[p].batch = b /\ me'[p].tx = x
  <2>1. st \in Stages
    BY DEF Stages
  <2> QED
    BY <1>0, <1>1, <2>1, GotoWithIs DEF Moved
<1>6. TInv'
  BY <1>0, <1>1, <1>4, <1>5, TStep DEF TInv, TypeOK, Moved
<1>7. ASSUME LockHolds, LInv PROVE LInv'
  <2>1. LStage(me'[p], ticket', batch')
    BY <1>0, <1>1, <1>5, <1>7, OnIt DEF LStage, Building
  <2>2. OneInv' /\ BoundInv' /\ WatermarkIsRight'
    BY <1>0, <1>7 DEF LInv, OneInv, BoundInv, WatermarkIsRight
  <2> QED
    BY <1>0, <1>5, <1>6, <1>7, <2>1, <2>2, Keep
<1>8. ASSUME Sane, MInv PROVE MInv'
  <2>1. /\ batch[b].tx = NoTx /\ ids # {} /\ ids = BoundTo(ticket, b) /\ Unpaid(ids, claimed)
        /\ Silent(tx, b)
    BY <1>8 DEF MInv, MStages, MStage, Fresh, Silent
  <2>2. LockHolds /\ LInv /\ Submitted(batch, b)
    BY <1>1, <1>8, OnIt DEF Sane, MInv
  <2>3. \A y \in Txs : y[1] = b /\ y # x => tx'[y].state \in {"none", "dropped"}
    BY <1>4, <2>1 DEF Silent
  <2>4. OnlyTx(tx', x)
    BY <1>0, <2>3 DEF OnlyTx
  <2>5. MStage(me'[p], ticket', batch', claimed', tx')
    <3>1. Own(tx', b, x)
      BY <1>0, <1>4, <2>4 DEF Own
    <3> QED
      BY <1>0, <1>5, <2>1, <3>1 DEF MStage
  <2>6. Flying(b, ticket, batch, claimed, tx')
    <3>1. Flying(b, ticket, batch, claimed, tx)
      BY <1>1, <1>8, <2>2 DEF MInv, MBatches, MBatch
    <3>2. BoundTo(ticket, b) \cap claimed = {}
      BY <2>1 DEF Unpaid
    <3>3. ASSUME NEW y \in Txs, y[1] = b, tx'[y].state = "mempool" PROVE y = x
      BY <2>3, <3>3
    <3>4. ASSUME NEW y \in Txs, y[1] = b PROVE tx'[y].state # "mined"
      BY <1>4, <2>3, <3>4
    <3> QED
      BY <1>4, <2>1, <2>4, <3>1, <3>2, <3>3, <3>4 DEF Flying
  <2>7. MBatches'
    <3>1. ASSUME NEW c \in Batches PROVE MBatch(c, ticket, batch, claimed, tx')
      <4>1. CASE c = b
        BY <2>2, <2>6, <4>1 DEF MBatch, Submitted
      <4>2. CASE c # b
        <5>1. MBatch(c, ticket, batch, claimed, tx)
          BY <1>8 DEF MInv, MBatches
        <5>2. \A y \in Txs : y[1] = c => tx'[y] = tx[y]
          BY <1>0, <1>4, <4>2
        <5> QED
          BY <5>1, <5>2, SameBatch
      <4> QED
        BY <4>1, <4>2
    <3> QED
      BY <1>0, <3>1 DEF MBatches
  <2>8. NoRevert'
    BY <1>4, <1>8 DEF MInv, NoRevert
  <2>9. CreditedWasClaimed' /\ NoLostHarvest' /\ QuarantineIsRight'
    BY <1>0, <1>8 DEF MInv, CreditedWasClaimed, NoLostHarvest, QuarantineIsRight, InFlight
  <2>10. LInv' /\ me[p].pc # "idle"
    BY <1>7, <2>2
  <2> QED
    BY <1>5, <1>8, <2>2, <2>5, <2>7, <2>8, <2>9, <2>10, KeepMoney
<1> QED
  BY <1>6, <1>7, <1>8 DEF Kept

LEMMA SubmitKept == ASSUME TInv, NEW p \in Processes, NEW x \in Txs, Submit(p, x) PROVE Kept
BY BroadcastKept DEF Submit, At

LEMMA ResubmitKept == ASSUME TInv, NEW p \in Processes, NEW x \in Txs, Resubmit(p, x) PROVE Kept
BY BroadcastKept DEF Resubmit, At

LEMMA StoreTxKept == ASSUME TInv, NEW p \in Processes, StoreTx(p) PROVE Kept
<1> DEFINE b == me[p].batch
           h == me[p].tx
<1>0. /\ UNCHANGED <<ticket, quarantine, watermark, aged, lock, tx, claimed, faults>>
      /\ me[p].pc \in {"store", "restore"} /\ Goto(p, "unlock")
      /\ batch' = IF batch[b].status = "absent" THEN batch ELSE [batch EXCEPT ![b].tx = h]
  BY DEF StoreTx, base
<1>1. /\ b \in Batches /\ h \in Hashes /\ me[p].pc \in OnBatch
      /\ batch \in [Batches -> BatchSet] /\ batch[b] \in BatchSet
  BY <1>0, Read DEF OnBatch, TInv, TypeOK
<1>2. /\ batch' \in [Batches -> BatchSet] /\ \A c \in Batches : batch'[c].status = batch[c].status
      /\ \A c \in Batches : c # b => batch'[c] = batch[c]
      /\ batch[b].status # "absent" => batch'[b].tx = h
  <2>1. CASE batch[b].status = "absent"
    BY <1>0, <1>1, <2>1
  <2>2. CASE batch[b].status # "absent"
    <3>1. batch' = [batch EXCEPT ![b].tx = h]
      BY <1>0, <2>2
    <3> QED
      BY <1>1, <2>2, <3>1 DEF BatchSet
  <2> QED
    BY <2>1, <2>2
<1>3. Moved(p) /\ me'[p].pc = "unlock" /\ me'[p].pc \notin OnBatch
  BY <1>0, Read, GotoIs DEF Moved, Stages, OnBatch
<1>4. TInv'
  BY <1>0, <1>2, <1>3, TStep DEF TInv, TypeOK, Moved
<1>5. \A c \in Batches : Submitted(batch', c) <=> Submitted(batch, c)
  BY <1>2 DEF Submitted
<1>6. ASSUME LockHolds, LInv PROVE LInv'
  <2>1. BoundInv'
    <3>1. \A t \in Tickets : ticket[t].batch # NoBatch => ticket[t].batch \in Batches
      BY DEF TInv, TypeOK, TicketSet, Names
    <3> QED
      BY <1>0, <1>5, <1>6, <3>1 DEF LInv, BoundInv
  <2>2. LStage(me'[p], ticket', batch')
    BY <1>3, Neutral
  <2>3. OneInv' /\ WatermarkIsRight'
    BY <1>0, <1>5, <1>6 DEF LInv, OneInv, WatermarkIsRight
  <2> QED
    BY <1>0, <1>3, <1>4, <1>6, <2>1, <2>2, <2>3, Keep
<1>7. ASSUME Sane, MInv PROVE MInv'
  <2>1. LockHolds /\ LInv /\ Submitted(batch, b) /\ Own(tx, b, h)
    BY <1>0, <1>1, <1>7, OnIt DEF Sane, MInv, MStages, MStage
  <2>2. Flying(b, ticket, batch', claimed, tx)
    <3>1. batch'[b].tx = h
      BY <1>2, <2>1 DEF Submitted
    <3> QED
      BY <1>1, <1>7, <2>1, <3>1 DEF MInv, MBatches, MBatch, Flying
  <2>3. MBatches'
    <3>1. ASSUME NEW c \in Batches PROVE MBatch(c, ticket, batch', claimed, tx)
      <4>1. CASE c = b
        BY <1>1, <1>5, <2>1, <2>2, <4>1 DEF MBatch, Submitted
      <4>2. CASE c # b
        BY <1>2, <1>7, <4>2, SameBatch DEF MInv, MBatches
      <4> QED
        BY <4>1, <4>2
    <3> QED
      BY <1>0, <3>1 DEF MBatches
  <2>4. InFlight' = InFlight
    BY <1>5 DEF InFlight, Submitted
  <2>5. NoRevert' /\ CreditedWasClaimed' /\ NoLostHarvest' /\ QuarantineIsRight'
    BY <1>0, <1>7, <2>4 DEF MInv, NoRevert, CreditedWasClaimed, NoLostHarvest, QuarantineIsRight
  <2>6. LInv' /\ me[p].pc # "idle" /\ MStage(me'[p], ticket', batch', claimed', tx')
    BY <1>0, <1>3, <1>6, <2>1, Neutral
  <2> QED
    BY <1>3, <1>7, <2>1, <2>3, <2>5, <2>6, KeepMoney
<1> QED
  BY <1>4, <1>6, <1>7 DEF Kept

-----------------------------------------------------------------------------
\* A batch is taken out of flight: its tickets are credited, or released.
LEMMA Lands ==
    ASSUME TInv', LockHolds, LInv, NEW p \in Processes, Moved(p), me[p].pc \in OnBatch,
           me'[p].pc = "unlock", UNCHANGED <<lock, watermark>>,
           ~Submitted(batch', me[p].batch),
           \A c \in Batches : c # me[p].batch => batch'[c] = batch[c],
           \A t \in Tickets : ticket[t].batch # me[p].batch => ticket'[t] = ticket[t],
           \A t \in Tickets : Won(ticket', t) => Won(ticket, t),
           \A t \in BoundTo(ticket, me[p].batch) : Won(ticket', t) => ticket'[t].batch = NoBatch
    PROVE  LInv' /\ NoneSubmitted(batch')
<1>0. \A t \in Tickets : ticket[t].batch # NoBatch => ticket[t].batch \in Batches
  BY DEF LInv, TInv, TypeOK, TicketSet, Names
<1>1. NoneSubmitted(batch')
  <2>1. ASSUME NEW c \in Batches, c # me[p].batch PROVE ~Submitted(batch', c)
    BY <2>1, OnIt DEF Submitted
  <2> QED
    BY <2>1 DEF NoneSubmitted
<1>2. BoundInv'
  <2>1. ASSUME NEW t \in Tickets, Won(ticket', t), ticket'[t].batch # NoBatch PROVE FALSE
    <3>1. ticket[t].batch # me[p].batch
      BY <2>1 DEF BoundTo
    <3>2. Won(ticket, t) /\ ticket[t].batch # NoBatch
      BY <2>1, <3>1
    <3>3. Submitted(batch, ticket[t].batch)
      BY <3>2 DEF LInv, BoundInv
    <3> QED
      BY <1>0, <3>1, <3>2, <3>3, OnIt
  <2> QED
    BY <2>1 DEF BoundInv
<1>3. WatermarkIsRight'
  <2>1. \A t \in Tickets : ticket'[t].win \in {"WON", "CLAIMED_ON_BASE"}
    BY DEF TInv, TypeOK, TicketSet
  <2>2. ASSUME watermark, NEW t \in Tickets PROVE ~Won(ticket', t)
    BY <2>2 DEF LInv, WatermarkIsRight, Won
  <2> QED
    BY <2>1, <2>2 DEF WatermarkIsRight, Won
<1>4. LStage(me'[p], ticket', batch')
  BY Neutral
<1>5. me[p].pc # "idle" /\ OneInv'
  BY <1>1 DEF OnBatch, OneInv, NoneSubmitted
<1> QED
  BY <1>1, <1>2, <1>3, <1>4, <1>5, Keep

\* ... and the money stays where it was.
LEMMA LandsMoney ==
    ASSUME LInv', Sane, MInv, NEW p \in Processes, Moved(p), me[p].pc \in OnBatch,
           me'[p].pc = "unlock", UNCHANGED <<quarantine, tx, claimed>>,
           NoneSubmitted(batch'), batch'[me[p].batch].status # "absent",
           Calm(tx, me[p].batch),
           \A c \in Batches : c # me[p].batch => batch'[c] = batch[c],
           \A c \in Batches : c # me[p].batch => BoundTo(ticket', c) = BoundTo(ticket, c),
           \A t \in Tickets : ticket[t].batch # me[p].batch => ticket'[t] = ticket[t],
           \A t \in BoundTo(ticket, me[p].batch) : ticket'[t].win = "CLAIMED_ON_BASE" <=> t \in claimed
    PROVE  MInv'
<1> DEFINE b == me[p].batch
<1>0. LockHolds /\ LInv /\ b \in Batches /\ me[p].pc # "idle"
  BY OnIt DEF Sane, MInv, OnBatch
<1>1. MBatches'
  <2>1. ASSUME NEW c \in Batches PROVE MBatch(c, ticket', batch', claimed, tx)
    <3>1. CASE c = b
      BY <3>1 DEF MBatch, NoneSubmitted
    <3>2. CASE c # b
      <4>1. MBatch(c, ticket, batch, claimed, tx)
        BY DEF MInv, MBatches
      <4>2. \A t \in BoundTo(ticket, c) : ticket'[t].win = ticket[t].win
        BY <3>2 DEF BoundTo
      <4> QED
        BY <3>2, <4>1, <4>2, SameBatch
    <3> QED
      BY <3>1, <3>2
  <2> QED
    BY <2>1 DEF MBatches
<1>2. CreditedWasClaimed'
  BY DEF MInv, CreditedWasClaimed, BoundTo
<1>3. NoLostHarvest'
  <2>1. ASSUME NEW t \in claimed, ticket[t].batch # b, t \in Tickets PROVE ticket'[t].win = "CLAIMED_ON_BASE"
    BY <1>0, <2>1, OnIt DEF MInv, NoLostHarvest, InFlight, Submitted
  <2>2. claimed \subseteq Tickets
    BY <1>0 DEF LInv, TInv, TypeOK
  <2> QED
    BY <2>1, <2>2 DEF NoLostHarvest, BoundTo
<1>4. NoRevert' /\ QuarantineIsRight'
  BY DEF MInv, NoRevert, QuarantineIsRight
<1>5. MStage(me'[p], ticket', batch', claimed', tx')
  BY Neutral
<1> QED
  BY <1>0, <1>1, <1>2, <1>3, <1>4, <1>5, KeepMoney

LEMMA FinalizeKept == ASSUME TInv, NEW p \in Processes, Finalize(p) PROVE Kept
<1> DEFINE b == me[p].batch
           row == [status |-> "CONFIRMED", tx |-> me[p].tx]
           paid(t) == [ticket[t] EXCEPT !.win = "CLAIMED_ON_BASE"]
<1>0. /\ UNCHANGED <<quarantine, watermark, aged, lock, tx, claimed, faults>>
      /\ me[p].pc = "finalize" /\ Goto(p, "unlock") /\ batch' = [batch EXCEPT ![b] = row]
      /\ ticket' = [t \in Tickets |-> IF t \in BoundTo(ticket, b) THEN paid(t) ELSE ticket[t]]
  BY DEF Finalize, At, base, Bound, BoundTo
<1>1. /\ b \in Batches /\ me[p].pc \in OnBatch /\ batch \in [Batches -> BatchSet]
      /\ ticket \in [Tickets -> TicketSet]
  BY <1>0, Read DEF OnBatch, TInv, TypeOK
<1>2. row \in BatchSet /\ row.status = "CONFIRMED"
  BY Read DEF BatchSet, Statuses
<1>3. \A t \in Tickets : /\ paid(t) \in TicketSet /\ paid(t).win = "CLAIMED_ON_BASE"
                         /\ paid(t).batch = ticket[t].batch
  BY <1>1 DEF TicketSet
<1> HIDE DEF row, paid
<1>4. /\ batch' \in [Batches -> BatchSet] /\ batch'[b].status = "CONFIRMED"
      /\ \A c \in Batches : c # b => batch'[c] = batch[c]
  BY <1>0, <1>1, <1>2
<1>5. /\ ticket' \in [Tickets -> TicketSet]
      /\ \A t \in Tickets : ticket[t].batch # b => ticket'[t] = ticket[t]
      /\ \A t \in BoundTo(ticket, b) : ticket'[t].win = "CLAIMED_ON_BASE"
      /\ \A t \in Tickets : ticket'[t].batch = ticket[t].batch
  BY <1>0, <1>1, <1>3 DEF BoundTo
<1>6. Moved(p) /\ me'[p].pc = "unlock" /\ me'[p].pc \notin OnBatch
  BY <1>0, Read, GotoIs DEF Moved, Stages, OnBatch
<1>7. TInv'
  BY <1>0, <1>4, <1>5, <1>6, TStep DEF TInv, TypeOK, Moved
<1>8. ASSUME LockHolds, LInv PROVE LInv' /\ NoneSubmitted(batch')
  <2>1. ~Submitted(batch', b)
    BY <1>4 DEF Submitted
  <2>2. /\ \A t \in Tickets : Won(ticket', t) => Won(ticket, t)
        /\ \A t \in BoundTo(ticket, b) : ~Won(ticket', t)
    BY <1>5 DEF Won, BoundTo
  <2> QED
    BY <1>0, <1>1, <1>4, <1>5, <1>6, <1>7, <1>8, <2>1, <2>2, Lands
<1>9. ASSUME Sane, MInv PROVE MInv'
  <2>1. Calm(tx, b) /\ BoundTo(ticket, b) \subseteq claimed
    BY <1>0, <1>9 DEF MInv, MStages, MStage
  <2>2. \A c \in Batches : c # b => BoundTo(ticket', c) = BoundTo(ticket, c)
    BY <1>5 DEF BoundTo
  <2>3. \A t \in BoundTo(ticket, b) : ticket'[t].win = "CLAIMED_ON_BASE" <=> t \in claimed
    BY <1>5, <2>1
  <2>4. LInv' /\ NoneSubmitted(batch')
    BY <1>8, <1>9 DEF Sane, MInv
  <2> QED
    BY <1>0, <1>1, <1>4, <1>5, <1>6, <1>9, <2>1, <2>2, <2>3, <2>4, LandsMoney
<1> QED
  BY <1>7, <1>8, <1>9 DEF Kept

LEMMA ReleaseKept == ASSUME TInv, NEW p \in Processes, Release(p) PROVE Kept
<1> DEFINE b == me[p].batch
           free(t) == [ticket[t] EXCEPT !.batch = NoBatch]
<1>0. /\ UNCHANGED <<quarantine, watermark, aged, lock, tx, claimed, faults>>
      /\ me[p].pc = "release" /\ Goto(p, "unlock")
      /\ batch' = [batch EXCEPT ![b].status = "FAILED"]
      /\ ticket' = [t \in Tickets |-> IF t \in BoundTo(ticket, b) THEN free(t) ELSE ticket[t]]
  BY DEF Release, At, base, Bound, BoundTo
<1>1. /\ b \in Batches /\ me[p].pc \in OnBatch /\ batch \in [Batches -> BatchSet]
      /\ ticket \in [Tickets -> TicketSet]
  BY <1>0, Read DEF OnBatch, TInv, TypeOK
<1>3. \A t \in Tickets : /\ free(t) \in TicketSet /\ free(t).win = ticket[t].win
                         /\ free(t).batch = NoBatch
  BY <1>1 DEF TicketSet, Names
<1> HIDE DEF free
<1>4. /\ batch' \in [Batches -> BatchSet] /\ batch'[b].status = "FAILED"
      /\ \A c \in Batches : c # b => batch'[c] = batch[c]
  BY <1>0, <1>1 DEF BatchSet, Statuses
<1>5. /\ ticket' \in [Tickets -> TicketSet]
      /\ \A t \in Tickets : ticket[t].batch # b => ticket'[t] = ticket[t]
      /\ \A t \in BoundTo(ticket, b) : ticket'[t].batch = NoBatch
      /\ \A t \in Tickets : ticket'[t].win = ticket[t].win
  BY <1>0, <1>1, <1>3 DEF BoundTo
<1>6. Moved(p) /\ me'[p].pc = "unlock" /\ me'[p].pc \notin OnBatch
  BY <1>0, Read, GotoIs DEF Moved, Stages, OnBatch
<1>7. TInv'
  BY <1>0, <1>4, <1>5, <1>6, TStep DEF TInv, TypeOK, Moved
<1>8. ASSUME LockHolds, LInv PROVE LInv' /\ NoneSubmitted(batch')
  <2>1. ~Submitted(batch', b) /\ \A t \in Tickets : Won(ticket', t) => Won(ticket, t)
    BY <1>4, <1>5 DEF Submitted, Won
  <2> QED
    BY <1>0, <1>1, <1>4, <1>5, <1>6, <1>7, <1>8, <2>1, Lands
<1>9. ASSUME Sane, MInv PROVE MInv'
  <2>1. Calm(tx, b) /\ BoundTo(ticket, b) \cap claimed = {} /\ LInv
    BY <1>0, <1>9 DEF MInv, MStages, MStage
  <2>2. \A c \in Batches : c # b => BoundTo(ticket', c) = BoundTo(ticket, c)
    BY <1>5, HarvestConstants DEF BoundTo
  <2>3. \A t \in BoundTo(ticket, b) : ticket'[t].win = "CLAIMED_ON_BASE" <=> t \in claimed
    <3>1. \A t \in BoundTo(ticket, b) : Won(ticket, t)
      BY <1>1, <1>9, <2>1, OnIt DEF MInv, MBatches, MBatch, Flying
    <3> QED
      BY <1>5, <2>1, <3>1 DEF Won, BoundTo
  <2>4. LInv' /\ NoneSubmitted(batch')
    BY <1>8, <2>1, <1>9 DEF Sane
  <2> QED
    BY <1>0, <1>1, <1>4, <1>5, <1>6, <1>9, <2>1, <2>2, <2>3, <2>4, LandsMoney
<1> QED
  BY <1>7, <1>8, <1>9 DEF Kept

-----------------------------------------------------------------------------
\* A new batch, and the tickets bound to it.
LEMMA CreateBatchKept ==
    ASSUME TInv, NEW p \in Processes, NEW b \in Batches, CreateBatch(p, b) PROVE Kept
<1> DEFINE row == [status |-> "SUBMITTED", tx |-> NoTx]
           ids == me[p].ids
<1>0. /\ UNCHANGED <<ticket, quarantine, watermark, aged, lock, tx, claimed, faults>>
      /\ me[p].pc = "create" /\ batch[b].status = "absent"
      /\ GotoWith(p, "bind", b, ids, NoTx) /\ batch' = [batch EXCEPT ![b] = row]
  BY DEF CreateBatch, At, base
<1>1. /\ b \in Names /\ ids \in SUBSET Tickets /\ me \in [Processes -> Locals]
      /\ batch \in [Batches -> BatchSet] /\ "bind" \in Stages
  BY Read DEF Names, TInv, TypeOK, Stages
<1>2. row \in BatchSet /\ row.status = "SUBMITTED" /\ row.tx = NoTx
  BY Nones DEF BatchSet, Statuses
<1> HIDE DEF row
<1>3. /\ batch' \in [Batches -> BatchSet] /\ batch'[b].tx = NoTx /\ Submitted(batch', b)
      /\ \A c \in Batches : c # b => batch'[c] = batch[c]
  BY <1>0, <1>1, <1>2 DEF Submitted
<1>4. Moved(p) /\ me'[p].pc = "bind" /\ me'[p].batch = b /\ me'[p].ids = ids
  BY <1>0, <1>1, Nones, GotoWithIs DEF Moved
<1>5. TInv'
  BY <1>0, <1>3, <1>4, TStep DEF TInv, TypeOK, Moved
<1>6. \A t \in Tickets : ticket[t].batch # NoBatch => ticket[t].batch \in Batches
  BY DEF TInv, TypeOK, TicketSet, Names
<1>7. ASSUME LockHolds, LInv PROVE LInv'
  <2>1. NoneSubmitted(batch)
    BY <1>0, <1>7, Holder DEF LStage, Building
  <2>2. \A c \in Batches : Submitted(batch', c) => c = b
    BY <1>3, <2>1 DEF NoneSubmitted, Submitted
  <2>3. \A t \in Tickets : Won(ticket, t) => ticket[t].batch = NoBatch
    BY <1>6, <1>7, <2>1 DEF LInv, BoundInv, NoneSubmitted
  <2>4. OneInv' /\ BoundInv' /\ WatermarkIsRight'
    BY <1>0, <1>7, <2>2, <2>3 DEF LInv, OneInv, BoundInv, WatermarkIsRight
  <2>5. LStage(me'[p], ticket', batch')
    BY <1>0, <1>3, <1>4, <2>3, HarvestConstants DEF LStage, Building, BoundTo
  <2> QED
    BY <1>0, <1>4, <1>5, <1>7, <2>4, <2>5, Keep
<1>8. ASSUME Sane, MInv PROVE MInv'
  <2>1. /\ LockHolds /\ LInv /\ ids # {} /\ Unpaid(ids, claimed)
        /\ \A t \in ids : Won(ticket, t) /\ ticket[t].batch = NoBatch
    BY <1>0, <1>8 DEF Sane, MInv, MStages, MStage
  <2>2. Fresh(tx, b) /\ BoundTo(ticket, b) = {}
    BY <1>0, <1>8 DEF MInv, MBatches, MBatch
  <2>3. MStage(me'[p], ticket', batch', claimed', tx')
    BY <1>0, <1>3, <1>4, <2>1, <2>2 DEF MStage
  <2>4. MBatches'
    <3>1. ASSUME NEW c \in Batches PROVE MBatch(c, ticket, batch', claimed, tx)
      <4>1. CASE c = b
        <5>1. Flying(b, ticket, batch', claimed, tx)
          BY <1>3, <2>2 DEF Flying, Fresh
        <5> QED
          BY <1>3, <4>1, <5>1 DEF MBatch, Submitted
      <4>2. CASE c # b
        BY <1>3, <1>8, <4>2, SameBatch DEF MInv, MBatches
      <4> QED
        BY <4>1, <4>2
    <3> QED
      BY <1>0, <3>1 DEF MBatches
  <2>5. InFlight \subseteq InFlight'
    BY <1>0, <1>3 DEF InFlight, Submitted
  <2>6. NoRevert' /\ CreditedWasClaimed' /\ NoLostHarvest' /\ QuarantineIsRight'
    BY <1>0, <1>8, <2>5 DEF MInv, NoRevert, CreditedWasClaimed, NoLostHarvest, QuarantineIsRight
  <2> QED
    BY <1>0, <1>4, <1>7, <1>8, <2>1, <2>3, <2>4, <2>6, KeepMoney
<1> QED
  BY <1>5, <1>7, <1>8 DEF Kept

\* Nothing could be bound: the batch is deleted.
LEMMA BindsNone ==
    ASSUME TInv, NEW p \in Processes, me[p].pc = "bind", Goto(p, "unlock"),
           {t \in me[p].ids : ticket[t].batch = NoBatch} = {},
           batch' = [batch EXCEPT ![me[p].batch].status = "absent"],
           UNCHANGED <<ticket, quarantine, watermark, aged, lock, tx, claimed, faults>>
    PROVE  Kept
<1> DEFINE b == me[p].batch
<1>1. b \in Batches /\ me[p].pc \in OnBatch /\ batch \in [Batches -> BatchSet]
  BY Read DEF OnBatch, TInv, TypeOK
<1>2. /\ batch' \in [Batches -> BatchSet] /\ ~Submitted(batch', b)
      /\ \A c \in Batches : c # b => batch'[c] = batch[c]
  BY <1>1 DEF BatchSet, Statuses, Submitted
<1>3. Moved(p) /\ me'[p].pc = "unlock" /\ me'[p].pc \notin OnBatch
  BY Read, GotoIs DEF Moved, Stages, OnBatch
<1>4. TInv'
  BY <1>2, <1>3, TStep DEF TInv, TypeOK, Moved
<1>5. ASSUME LockHolds, LInv PROVE LInv'
  <2>1. \A t \in BoundTo(ticket, b) : ~Won(ticket, t)
    BY <1>5, Holder DEF LStage
  <2> QED
    BY <1>1, <1>2, <1>3, <1>4, <1>5, <2>1, Lands
<1>6. ASSUME Sane, MInv PROVE FALSE
  BY <1>6 DEF MInv, MStages, MStage
<1> QED
  BY <1>4, <1>5, <1>6 DEF Kept

\* The free tickets are bound to the batch.
LEMMA Binds ==
    ASSUME TInv, NEW p \in Processes, me[p].pc = "bind", Goto(p, "submit"),
           NEW free, free = {t \in me[p].ids : ticket[t].batch = NoBatch},
           ticket' = [t \in Tickets |-> IF t \in free THEN [ticket[t] EXCEPT !.batch = me[p].batch]
                                        ELSE ticket[t]],
           UNCHANGED <<batch, quarantine, watermark, aged, lock, tx, claimed, faults>>
    PROVE  Kept
<1> DEFINE b == me[p].batch
           ids == me[p].ids
           bound(t) == [ticket[t] EXCEPT !.batch = b]
<1>1. /\ b \in Batches /\ b \in Names /\ me[p].pc \in OnBatch /\ ids \subseteq Tickets
      /\ ticket \in [Tickets -> TicketSet]
  BY Read DEF OnBatch, Names, TInv, TypeOK
<1>2. \A t \in Tickets : /\ bound(t) \in TicketSet /\ bound(t).win = ticket[t].win
                         /\ bound(t).batch = b
  BY <1>1 DEF TicketSet
<1>3. ticket' = [t \in Tickets |-> IF t \in free THEN bound(t) ELSE ticket[t]]
  OBVIOUS
<1> HIDE DEF bound
<1>4. /\ ticket' \in [Tickets -> TicketSet]
      /\ \A t \in Tickets : ticket'[t].win = ticket[t].win
      /\ \A t \in free : ticket'[t].batch = b
      /\ \A t \in Tickets : t \notin free => ticket'[t] = ticket[t]
  BY <1>1, <1>2, <1>3
<1>5. Moved(p) /\ me'[p].pc = "submit" /\ me'[p].batch = b /\ me'[p].ids = ids
  BY Read, GotoIs DEF Moved, Stages
<1>6. TInv'
  BY <1>1, <1>4, <1>5, TStep DEF TInv, TypeOK, Moved
<1>7. ASSUME LockHolds, LInv PROVE LInv'
  <2>1. Submitted(batch, b)
    BY <1>1, <1>7, OnIt
  <2>2. BoundInv'
    BY <1>4, <1>7, <2>1 DEF LInv, BoundInv, Won
  <2>3. OneInv' /\ WatermarkIsRight'
    BY <1>4, <1>7 DEF LInv, OneInv, WatermarkIsRight
  <2>4. LStage(me'[p], ticket', batch')
    BY <1>5, <2>1 DEF LStage, Building
  <2> QED
    BY <1>5, <1>6, <1>7, <2>2, <2>3, <2>4, Keep
<1>8. ASSUME Sane, MInv PROVE MInv'
  <2>1. /\ LockHolds /\ LInv /\ ids # {} /\ Unpaid(ids, claimed) /\ Submitted(batch, b)
        /\ \A t \in ids : Won(ticket, t) /\ ticket[t].batch = NoBatch
        /\ BoundTo(ticket, b) = {} /\ batch[b].tx = NoTx /\ Fresh(tx, b)
    BY <1>1, <1>8, OnIt DEF Sane, MInv, MStages, MStage
  <2>2. free = ids
    BY <2>1
  <2>3. BoundTo(ticket', b) = ids /\ \A c \in Batches : c # b => BoundTo(ticket', c) = BoundTo(ticket, c)
    BY <1>1, <1>4, <2>1, <2>2, HarvestConstants DEF BoundTo
  <2>4. MStage(me'[p], ticket', batch', claimed', tx')
    BY <1>5, <2>1, <2>3 DEF MStage
  <2>5. MBatches'
    <3>1. ASSUME NEW c \in Batches PROVE MBatch(c, ticket', batch, claimed, tx)
      <4>1. CASE c = b
        <5>1. \A t \in ids : Won(ticket', t)
          BY <1>1, <1>4, <2>1 DEF Won
        <5>2. Flying(b, ticket', batch, claimed, tx)
          BY <2>1, <2>3, <5>1 DEF Flying, Fresh, Unpaid
        <5> QED
          BY <2>1, <4>1, <5>2 DEF MBatch, Submitted
      <4>2. CASE c # b
        <5>1. \A t \in BoundTo(ticket, c) : ticket'[t].win = ticket[t].win
          BY <1>4 DEF BoundTo
        <5> QED
          BY <1>8, <2>3, <4>2, <5>1, SameBatch DEF MInv, MBatches
      <4> QED
        BY <4>1, <4>2
    <3> QED
      BY <3>1 DEF MBatches
  <2>6. claimed \subseteq Tickets /\ \A t \in claimed : ticket'[t] = ticket[t]
    BY <1>4, <2>1, <2>2 DEF Unpaid, TInv, TypeOK
  <2>7. NoLostHarvest'
    BY <1>8, <2>6 DEF MInv, NoLostHarvest, InFlight
  <2>8. NoRevert' /\ CreditedWasClaimed' /\ QuarantineIsRight'
    BY <1>4, <1>8 DEF MInv, NoRevert, CreditedWasClaimed, QuarantineIsRight
  <2> QED
    BY <1>5, <1>7, <1>8, <2>1, <2>4, <2>5, <2>7, <2>8, KeepMoney
<1> QED
  BY <1>6, <1>7, <1>8 DEF Kept

LEMMA BindBatchKept == ASSUME TInv, NEW p \in Processes, BindBatch(p) PROVE Kept
<1> DEFINE free == {t \in me[p].ids : ticket[t].batch = NoBatch}
<1>1. me[p].pc = "bind" /\ UNCHANGED <<quarantine, watermark, aged, lock, tx, claimed, faults>>
  BY DEF BindBatch, At, base
<1>2. CASE free = {}
  BY <1>1, <1>2, BindsNone DEF BindBatch
<1>3. CASE free # {}
  BY <1>1, <1>3, Binds DEF BindBatch
<1> QED
  BY <1>2, <1>3

-----------------------------------------------------------------------------
LEMMA TickKept == ASSUME TInv, NEW p \in Processes, Tick(p) PROVE Kept
BY UnlockKept, FindNoneKept, RecoverKept, ResubmitThrowsKept, StoreTxKept, ReadReceiptKept,
   LookUpKept, FinalizeKept, ReleaseKept, CheckOwedKept, SetWatermarkKept, BindBatchKept,
   SubmitRevertsKept, FindBatchKept, CreateBatchKept, ResubmitKept, SubmitKept, ScanKept,
   RehearseKept DEF Tick

LEMMA NextKept == ASSUME TInv, Next PROVE Kept
<1>1. ASSUME Environment PROVE Kept
  BY <1>1, LockExpiresKept, MineKept, DropKept, BatchAgesKept DEF Environment
<1> QED
  BY <1>1, AcquireKept, TickKept, ThrowKept, CrashKept DEF Next

LEMMA StutterKept == ASSUME TInv, UNCHANGED vars PROVE Kept
<1>1. UNCHANGED <<ticket, batch, aged, quarantine, watermark, lock, me, tx, claimed, faults>>
  BY DEF vars
<1>2. UNCHANGED <<database, base, me, faults>>
  BY <1>1 DEF database, base
<1>3. HolderInv => HolderInv'
  BY <1>1 DEF HolderInv
<1> QED
  BY <1>1, <1>2, <1>3, Untouched DEF TInv, TypeOK

\* At first no ticket is on a batch and nothing was sent.
LEMMA InitInv == Init => TInv /\ LInv /\ MInv
<1> SUFFICES ASSUME Init PROVE TInv /\ LInv /\ MInv
  OBVIOUS
<1>1. /\ \A t \in Tickets : ticket[t].win = "WON" /\ ticket[t].batch = NoBatch
      /\ \A b \in Batches : batch[b].status = "absent" /\ batch[b].tx = NoTx
      /\ \A p \in Processes : me[p].pc = "idle"
      /\ \A x \in Txs : tx[x].state = "none"
      /\ claimed = {} /\ quarantine = {} /\ watermark = FALSE
  BY DEF Init, Asleep, NoSend
<1>2. TInv
  <2>1. [win |-> "WON", batch |-> NoBatch] \in TicketSet
    BY DEF TicketSet, Names
  <2>2. [status |-> "absent", tx |-> NoTx] \in BatchSet
    BY Nones DEF BatchSet, Statuses
  <2>3. NoSend \in TxSet
    BY DEF NoSend, TxSet
  <2>4. ticket \in [Tickets -> TicketSet] /\ batch \in [Batches -> BatchSet]
    BY <2>1, <2>2 DEF Init
  <2>5. me \in [Processes -> Locals] /\ tx \in [Txs -> TxSet]
    BY <2>3, AsleepIs DEF Init
  <2>6. aged \subseteq Batches /\ lock \in Processes \cup {Nobody} /\ faults \in 0..MaxFaults
    <3>1. aged = {} /\ lock = Nobody /\ faults = 0
      BY DEF Init
    <3>2. MaxFaults \in Nat
      BY HarvestConstants
    <3> QED
      BY <3>1, <3>2
  <2>7. quarantine \subseteq Tickets /\ claimed \subseteq Tickets /\ watermark \in BOOLEAN
    BY <1>1
  <2>8. TypeOK
    BY <2>4, <2>5, <2>6, <2>7 DEF TypeOK
  <2> QED
    BY <1>1, <2>8 DEF TInv, LocalsInv, OnBatch
<1>3. LInv
  BY <1>1, <1>2 DEF LInv, HolderInv, OneInv, BoundInv, WatermarkIsRight, Submitted
<1>4. MStages
  BY <1>1, Neutral DEF MStages
<1>5. MBatches
  BY <1>1, HarvestConstants DEF MBatches, MBatch, Fresh, Calm, BoundTo, Submitted
<1> QED
  BY <1>1, <1>2, <1>3, <1>4, <1>5
  DEF MInv, NoRevert, CreditedWasClaimed, NoLostHarvest, QuarantineIsRight

-----------------------------------------------------------------------------
\* Every variable keeps its values, whatever the lock, the node and the
\* mempool do: also in the steps of workers/harvestWorker.ts that act on a
\* wrong inference.
THEOREM TypeCorrect == Spec => []TypeOK
<1>1. Init => TInv
  BY InitInv
<1>2. TInv /\ [Next]_vars => TInv'
  BY NextKept, StutterKept DEF Kept
<1>3. TInv => TypeOK
  BY DEF TInv
<1> QED
  BY <1>1, <1>2, <1>3, PTL DEF Spec

LEMMA LAlways == ASSUME LockHolds PROVE Spec => []LInv
<1>1. Init => LInv
  BY InitInv
<1>2. LInv /\ [Next]_vars => LInv'
  BY NextKept, StutterKept DEF Kept, LInv
<1> QED
  BY <1>1, <1>2, PTL DEF Spec

LEMMA MAlways == ASSUME Sane PROVE Spec => []MInv
<1>1. Init => MInv
  BY InitInv
<1>2. MInv /\ [Next]_vars => MInv'
  BY NextKept, StutterKept DEF Kept, MInv, LInv
<1> QED
  BY <1>1, <1>2, PTL DEF Spec

\* While the Redis lock outlives the tick (LOCK_TTL_SEC), the epoch has at
\* most one SUBMITTED batch: resolveInFlightBatch need look at one only,
\* whatever the node and the mempool do and wherever a tick dies.
THEOREM OneBatch == ASSUME LockHolds PROVE Spec => []OneBatchInFlight
<1>1. LInv => OneBatchInFlight
  <2> SUFFICES ASSUME LInv PROVE OneBatchInFlight
    OBVIOUS
  <2>1. CASE InFlight = {}
    BY <2>1, FS_EmptySet DEF OneBatchInFlight
  <2>2. CASE InFlight # {}
    <3>1. PICK b : b \in InFlight
      BY <2>2
    <3>2. InFlight = {b}
      BY <3>1 DEF LInv, OneInv, InFlight, Submitted
    <3> QED
      BY <3>2, FS_Singleton DEF OneBatchInFlight
  <2> QED
    BY <2>1, <2>2
<1> QED
  BY <1>1, LAlways, PTL

\* While the lock outlives the tick, ticketsHarvestedAt is set only when
\* every winner of the epoch has been credited.
THEOREM WatermarkRight == ASSUME LockHolds PROVE Spec => []WatermarkIsRight
<1>1. LInv => WatermarkIsRight
  BY DEF LInv
<1> QED
  BY <1>1, LAlways, PTL

\* With a lock that holds, transactions that settle before their batch is
\* taken for lost, and a node whose rehearsals throw only on a revert,
\* finalizeBatchSuccess credits only what the vault received.
THEOREM Credited == ASSUME Sane PROVE Spec => []CreditedWasClaimed
<1>1. MInv => CreditedWasClaimed
  BY DEF MInv
<1> QED
  BY <1>1, MAlways, PTL

\* In the same environment no money pulled from Megapot loses its ticket:
\* releaseBatch never frees a claimed one.
THEOREM NothingLost == ASSUME Sane PROVE Spec => []NoLostHarvest
<1>1. MInv => NoLostHarvest
  BY DEF MInv
<1> QED
  BY <1>1, MAlways, PTL

\* In the same environment bisectClaimable quarantines only tickets Megapot
\* will never pay.
THEOREM Quarantined == ASSUME Sane PROVE Spec => []QuarantineIsRight
<1>1. MInv => QuarantineIsRight
  BY DEF MInv
<1> QED
  BY <1>1, MAlways, PTL

\* In the same environment no ticket is in two claimWinnings transactions
\* that could both be mined.
THEOREM OneClaim == ASSUME Sane PROVE Spec => []OneClaimAtATime
<1>1. MInv => OneClaimAtATime
  <2> SUFFICES ASSUME MInv, NEW x \in Txs, NEW y \in Txs,
                      tx[x].state = "mempool", tx[y].state = "mempool"
               PROVE  x = y
    BY DEF OneClaimAtATime
  <2>1. x[1] \in Batches /\ Submitted(batch, x[1]) /\ OnlyTx(tx, x)
    BY InMempool
  <2>2. y[1] \in Batches /\ Submitted(batch, y[1])
    BY InMempool
  <2>3. x[1] = y[1]
    BY <2>1, <2>2 DEF MInv, LInv, OneInv
  <2> QED
    BY <2>1, <2>3 DEF OnlyTx
<1> QED
  BY <1>1, MAlways, PTL
=============================================================================
