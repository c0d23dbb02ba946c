------------------------------- MODULE Ingestion -------------------------------
(***************************************************************************)
(* From a purchase on Solana to one queued RelayOrder.  Two paths lead     *)
(* there: Helius's webhook (routes/webhook.ts, an inbox row, a job of      *)
(* workers/webhookIngestWorker.ts) and the backup indexer, which polls the *)
(* vault's signature history (services/solanaIndexer.ts).  They meet in    *)
(* the ticket job of the signature (workers/ticketWorker.ts).  BullMQ      *)
(* keeps one job per id; a job that is retained, failed ones included,     *)
(* swallows another of its id (lib/queues.ts).                             *)
(*                                                                         *)
(* NodeServes, BurstsFit and AttemptsSuffice are facts the backup relies   *)
(* on; nothing in the code makes sure of them.                             *)
(***************************************************************************)
EXTENDS Naturals, FiniteSets

CONSTANTS
    MaxSig,       \* bound: transactions that touch the vault in a run
    Handlers,     \* POST /helius requests in progress
    Lands,        \* what the transaction of each signature may be
    HookAttempts, \* attempts of a webhook-ingest job
    TicketAttempts, \* attempts of a ticket-ingestion job
    Window,       \* signatures one poll asks for
    MaxFaults,    \* bound: errors and crashes in a run
    NodeServes,   \* environment: the node serves what it has listed
    BurstsFit,    \* environment: no more than Window signatures per poll
    AttemptsSuffice \* environment: a ticket job creates its order before its
                  \* attempts are spent

Sigs == 1..MaxSig  \* in the order they land

ASSUME IngestionConstants ==
    /\ MaxSig \in Nat /\ MaxFaults \in Nat
    /\ {HookAttempts, TicketAttempts, Window} \subseteq Nat \ {0}
    /\ {NodeServes, BurstsFit, AttemptsSuffice} \subseteq BOOLEAN
    /\ \A s \in Sigs : \A k \in Lands[s] :
         /\ k.paid \in Nat /\ k.shown \in 0..k.paid
         /\ k.named \in BOOLEAN /\ (k.shown # 0 => k.named)
         /\ k.mixed \in BOOLEAN /\ (k.mixed => k.shown > 1)

(* What a transaction is to this backend: the purchase events it paid for, *)
(* none if it failed, those left in its log, which Solana cuts when it is  *)
(* long, whether the log names a BuyTicket instruction, and whether its    *)
(* events disagree on buyer or epoch.                                      *)
NotLanded == [paid |-> 0, shown |-> 0, named |-> FALSE, mixed |-> FALSE]

VARIABLES
    landed,   \* the last signature on the chain
    kind,     \* what each transaction is
    handler,  \* each request: where it stands and its fresh signatures
    seen,     \* webhook:seen:<signature>
    inbox,    \* WebhookInbox rows
    hook,     \* webhook-ingest jobs: state and attempts made
    job,      \* ticket-ingestion jobs: state and attempts made
    order,    \* purchase events in the RelayOrder rows of each signature
    relay,    \* orders with a relay job
    cursor,   \* IndexerCursor
    poll,     \* the poll in progress
    faults    \* faults so far

chain == <<landed, kind>>
webhook == <<handler, seen>>
orders == <<order, relay>>
indexer == <<cursor, poll>>
vars == <<chain, webhook, inbox, hook, job, orders, indexer, faults>>

NoJob == [state |-> "absent", tries |-> 0]
Ready == [pc |-> "idle", fresh |-> {}]
NoPoll == [todo |-> {}, newest |-> 0]

Init ==
    /\ landed = 0 /\ kind = [s \in Sigs |-> NotLanded]
    /\ handler = [h \in Handlers |-> Ready] /\ seen = {}
    /\ inbox = [s \in Sigs |-> "none"]
    /\ hook = [s \in Sigs |-> NoJob] /\ job = [s \in Sigs |-> NoJob]
    /\ order = [s \in Sigs |-> 0] /\ relay = {}
    /\ cursor = 0 /\ poll = NoPoll /\ faults = 0

(* Both paths look for the line of the instruction; the ticket worker asks *)
(* for events, and for one buyer and epoch.                                *)
Named(s) == kind[s].named
Mergeable(s) == kind[s].shown # 0 /\ ~kind[s].mixed
Fault == faults < MaxFaults /\ faults' = faults + 1

(***************************************************************************)
(* BullMQ.                                                                 *)
(***************************************************************************)
(* add with a job id. *)
Added(jobs, s) ==
    IF jobs[s].state = "absent"
    THEN [jobs EXCEPT ![s] = [state |-> "waiting", tries |-> 0]] ELSE jobs

To(jobs, s, state) == [jobs EXCEPT ![s].state = state]

(* Retained as done or failed; the attempts made no longer matter. *)
Ended(jobs, s, state) == [jobs EXCEPT ![s] = [state |-> state, tries |-> 0]]

(* A throw, or a worker that died: another attempt, or retained as failed. *)
Thrown(jobs, s, attempts) ==
    IF jobs[s].tries + 1 >= attempts THEN Ended(jobs, s, "failed")
    ELSE [jobs EXCEPT ![s] = [state |-> "waiting", tries |-> @.tries + 1]]

(* Neither job of a signature is at work; their attempts are over within   *)
(* half an hour.                                                           *)
Settled(s) ==
    /\ hook[s].state \notin {"waiting", "queued"}
    /\ job[s].state \notin {"waiting", "created"}

(* Only so many completed jobs are retained; thousands of others came since. *)
Forget(s) ==
    /\ Settled(s)
    /\ \/ hook[s].state = "done" /\ hook' = [hook EXCEPT ![s] = NoJob] /\ UNCHANGED job
       \/ job[s].state = "done" /\ job' = [job EXCEPT ![s] = NoJob] /\ UNCHANGED hook
    /\ UNCHANGED <<chain, webhook, inbox, orders, indexer, faults>>

(***************************************************************************)
(* Solana, the node, and Helius.                                           *)
(***************************************************************************)
Land(k) ==
    /\ landed < MaxSig
    /\ BurstsFit => landed - cursor < Window
    /\ landed' = landed + 1
    /\ kind' = [kind EXCEPT ![landed + 1] = k]
    /\ UNCHANGED <<webhook, inbox, hook, job, orders, indexer, faults>>

(* After a day. *)
SeenExpires(s) ==
    /\ s \in seen /\ Settled(s)
    /\ seen' = seen \ {s}
    /\ UNCHANGED <<chain, handler, inbox, hook, job, orders, indexer, faults>>

(***************************************************************************)
(* POST /helius, for any signatures, any number of times or never, and     *)
(* before this backend's own node knows them.                              *)
(***************************************************************************)
(* Mutant: the mark comes first. *)
ReceiveMarked(h, sigs) ==
    /\ handler[h].pc = "idle" /\ sigs \ seen # {}
    /\ handler' = [handler EXCEPT ![h] = [pc |-> "persist", fresh |-> sigs \ seen]]
    /\ seen' = seen \cup sigs
    /\ UNCHANGED <<chain, inbox, hook, job, orders, indexer, faults>>

Receive(h, sigs) ==
    /\ handler[h].pc = "idle" /\ sigs \ seen # {}
    /\ handler' = [handler EXCEPT ![h] = [pc |-> "persist", fresh |-> sigs \ seen]]
    /\ UNCHANGED <<chain, seen, inbox, hook, job, orders, indexer, faults>>

Persist(h) ==
    /\ handler[h].pc = "persist"
    /\ inbox' = [s \in Sigs |-> IF s \in handler[h].fresh /\ inbox[s] = "none"
                                THEN "RECEIVED" ELSE inbox[s]]
    /\ handler' = [handler EXCEPT ![h].pc = "enqueue"]
    /\ UNCHANGED <<chain, seen, hook, job, orders, indexer, faults>>

Enqueue(h) ==
    /\ handler[h].pc = "enqueue"
    /\ hook' = [s \in Sigs |-> IF s \in handler[h].fresh THEN Added(hook, s)[s] ELSE hook[s]]
    /\ handler' = [handler EXCEPT ![h].pc = "mark"]
    /\ UNCHANGED <<chain, seen, inbox, job, orders, indexer, faults>>

MarkSeen(h) ==
    /\ handler[h].pc = "mark"
    /\ seen' = seen \cup handler[h].fresh
    /\ handler' = [handler EXCEPT ![h] = Ready]
    /\ UNCHANGED <<chain, inbox, hook, job, orders, indexer, faults>>

(* 500, or the API process dies. *)
HandlerFails(h) ==
    /\ Fault /\ handler[h].pc # "idle"
    /\ handler' = [handler EXCEPT ![h] = Ready]
    /\ UNCHANGED <<chain, seen, inbox, hook, job, orders, indexer>>

(***************************************************************************)
(* webhookIngestWorker.                                                    *)
(***************************************************************************)
HookAt(s, state) == hook[s].state = state

HookStale(s) ==
    /\ HookAt(s, "waiting") /\ inbox[s] = "PROCESSED"
    /\ hook' = Ended(hook, s, "done")
    /\ UNCHANGED <<chain, webhook, inbox, job, orders, indexer, faults>>

(* The node does not serve the transaction, or there is none. *)
HookUnseen(s) ==
    /\ HookAt(s, "waiting") /\ inbox[s] # "PROCESSED"
    /\ hook' = Thrown(hook, s, HookAttempts)
    /\ UNCHANGED <<chain, webhook, inbox, job, orders, indexer, faults>>

HookSkips(s) ==
    /\ HookAt(s, "waiting") /\ inbox[s] # "PROCESSED" /\ s <= landed
    /\ ~Named(s)
    /\ inbox' = [inbox EXCEPT ![s] = "SKIPPED"]
    /\ hook' = Ended(hook, s, "done")
    /\ UNCHANGED <<chain, webhook, job, orders, indexer, faults>>

HookVerified(s) ==
    /\ HookAt(s, "waiting") /\ inbox[s] # "PROCESSED" /\ s <= landed
    /\ Named(s)
    /\ job' = Added(job, s)
    /\ hook' = To(hook, s, "queued")
    /\ UNCHANGED <<chain, webhook, inbox, orders, indexer, faults>>

(* Without a look at the status, which may be the ticket worker's FAILED. *)
HookProcessed(s) ==
    /\ HookAt(s, "queued")
    /\ inbox' = [inbox EXCEPT ![s] = "PROCESSED"]
    /\ hook' = Ended(hook, s, "done")
    /\ UNCHANGED <<chain, webhook, job, orders, indexer, faults>>

HookThrows(s) ==
    /\ Fault /\ hook[s].state \in {"waiting", "queued"}
    /\ hook' = Thrown(hook, s, HookAttempts)
    /\ UNCHANGED <<chain, webhook, inbox, job, orders, indexer>>

(***************************************************************************)
(* ticketWorker.                                                           *)
(***************************************************************************)
JobAt(s, state) == job[s].state = state

(* No event, or events that disagree.  Flagged for review, unless the      *)
(* signature came by the indexer and has no inbox row to update: then the  *)
(* job throws till its attempts are spent.                                 *)
Refuse(s) ==
    /\ JobAt(s, "waiting") /\ ~Mergeable(s)
    /\ IF inbox[s] = "none"
       THEN job' = Thrown(job, s, TicketAttempts) /\ UNCHANGED inbox
       ELSE job' = Ended(job, s, "failed") /\ inbox' = [inbox EXCEPT ![s] = "FAILED"]
    /\ UNCHANGED <<chain, webhook, hook, orders, indexer, faults>>

(* All events of the log merge into one order; its unique signature turns  *)
(* a second creation into the duplicate branch.                            *)
(* Mutant: the signature is not unique. *)
CreateAgain(s) ==
    /\ JobAt(s, "waiting") /\ Mergeable(s)
    /\ order' = [order EXCEPT ![s] = @ + kind[s].shown]
    /\ job' = To(job, s, "created")
    /\ UNCHANGED <<chain, webhook, inbox, hook, relay, indexer, faults>>

Create(s) ==
    /\ JobAt(s, "waiting") /\ Mergeable(s)
    /\ order' = IF order[s] = 0 THEN [order EXCEPT ![s] = kind[s].shown] ELSE order
    /\ job' = To(job, s, "created")
    /\ UNCHANGED <<chain, webhook, inbox, hook, relay, indexer, faults>>

QueueRelay(s) ==
    /\ JobAt(s, "created")
    /\ relay' = relay \cup {s}
    /\ job' = Ended(job, s, "done")
    /\ UNCHANGED <<chain, webhook, inbox, hook, order, indexer, faults>>

JobThrows(s) ==
    /\ Fault /\ job[s].state \in {"waiting", "created"}
    /\ AttemptsSuffice => job[s].tries + 1 < TicketAttempts \/ order[s] # 0
    /\ job' = Thrown(job, s, TicketAttempts)
    /\ UNCHANGED <<chain, webhook, inbox, hook, orders, indexer>>

(* The reconciler queues orders that wait, with ids of its own. *)
Reconcile(s) ==
    /\ order[s] # 0 /\ s \notin relay
    /\ relay' = relay \cup {s}
    /\ UNCHANGED <<chain, webhook, inbox, hook, job, order, indexer, faults>>

(***************************************************************************)
(* pollMissedTransactions.                                                 *)
(***************************************************************************)
(* The newest Window signatures after the cursor. *)
(* Mutant: the cursor moves first. *)
PollListMoves ==
    /\ poll = NoPoll /\ cursor < landed
    /\ poll' = [todo |-> {s \in Sigs : cursor < s /\ s <= landed /\ landed < s + Window},
                newest |-> landed]
    /\ cursor' = landed
    /\ UNCHANGED <<chain, webhook, inbox, hook, job, orders, faults>>

PollList ==
    /\ poll = NoPoll /\ cursor < landed
    /\ poll' = [todo |-> {s \in Sigs : cursor < s /\ s <= landed /\ landed < s + Window},
                newest |-> landed]
    /\ UNCHANGED <<chain, webhook, inbox, hook, job, orders, cursor, faults>>

(* Oldest first.  What is known or names no purchase is passed over; so    *)
(* is, without logs, a transaction the node has listed and does not serve. *)
PollOne(s) ==
    /\ s \in poll.todo /\ \A r \in poll.todo : s <= r
    /\ \/ /\ Named(s) /\ order[s] = 0
          /\ job' = Added(job, s)
       \/ /\ ~Named(s) \/ order[s] # 0 \/ ~NodeServes
          /\ UNCHANGED job
    /\ poll' = [poll EXCEPT !.todo = @ \ {s}]
    /\ UNCHANGED <<chain, webhook, inbox, hook, orders, cursor, faults>>

PollMoves ==
    /\ poll.newest # 0 /\ poll.todo = {}
    /\ cursor' = poll.newest /\ poll' = NoPoll
    /\ UNCHANGED <<chain, webhook, inbox, hook, job, orders, faults>>

PollThrows ==
    /\ Fault /\ poll # NoPoll
    /\ poll' = NoPoll
    /\ UNCHANGED <<chain, webhook, inbox, hook, job, orders, cursor>>

-----------------------------------------------------------------------------
Solana == \E s \in Sigs : \E k \in Lands[s] : s = landed + 1 /\ Land(k)

Helius ==
    \/ \E h \in Handlers :
         \/ \E sigs \in SUBSET Sigs : Receive(h, sigs)
         \/ Persist(h) \/ Enqueue(h) \/ MarkSeen(h) \/ HandlerFails(h)
    \/ \E s \in Sigs : SeenExpires(s)

HookJob(s) == HookStale(s) \/ HookUnseen(s) \/ HookSkips(s) \/ HookVerified(s) \/ HookProcessed(s)
TicketJob(s) == Refuse(s) \/ Create(s) \/ QueueRelay(s)
Poll == PollList \/ PollMoves \/ \E s \in Sigs : PollOne(s)

Next ==
    \/ Solana \/ Helius \/ Poll \/ PollThrows
    \/ \E s \in Sigs : \/ HookJob(s) \/ HookThrows(s) \/ TicketJob(s) \/ JobThrows(s)
                       \/ Reconcile(s) \/ Forget(s)

Spec == Init /\ [][Next]_vars

(* The cron process polls and reconciles every two minutes, the queue runs *)
(* ticket jobs.  No webhook is owed.                                       *)
LiveSpec ==
    /\ Spec
    /\ WF_vars(Poll)
    /\ \A s \in Sigs : WF_vars(TicketJob(s)) /\ WF_vars(Reconcile(s))

-----------------------------------------------------------------------------
Kinds(s) == Lands[s] \cup {NotLanded}
Requests == [pc : {"idle", "persist", "enqueue", "mark"}, fresh : SUBSET Sigs]
Verdicts == {"none", "RECEIVED", "PROCESSED", "SKIPPED", "FAILED"}
JobStates == {"absent", "waiting", "queued", "created", "done", "failed"}
JobSet(n) == [state : JobStates, tries : 0..n]

(* The values the variables take. *)
TypeOK ==
    /\ landed \in 0..MaxSig
    /\ kind \in [Sigs -> UNION {Kinds(s) : s \in Sigs}] /\ \A s \in Sigs : kind[s] \in Kinds(s)
    /\ handler \in [Handlers -> Requests] /\ seen \subseteq Sigs
    /\ inbox \in [Sigs -> Verdicts]
    /\ hook \in [Sigs -> JobSet(HookAttempts)]
    /\ job \in [Sigs -> JobSet(TicketAttempts)]
    /\ order \in [Sigs -> Nat] /\ relay \subseteq Sigs
    /\ cursor \in 0..MaxSig /\ poll \in [todo : SUBSET Sigs, newest : 0..MaxSig]
    /\ faults \in 0..MaxFaults

(* The chain is the source of truth: whatever is delivered, repeated or    *)
(* retried, an order stands for one purchase that landed and one buyer,    *)
(* and holds each event of its log once, so never more than was paid for,  *)
(* and all of it when the log is whole.                                    *)
OrdersMatchChain ==
    \A s \in Sigs : order[s] # 0 =>
        /\ s <= landed /\ ~kind[s].mixed
        /\ order[s] = kind[s].shown /\ order[s] <= kind[s].paid

(* What Helius is told not to send again is not lost by this backend: a    *)
(* marked signature has a row and either a retained job or a verdict, and  *)
(* a verdict of PROCESSED a ticket job, or the order it made.              *)
NothingDropped ==
    \A s \in Sigs :
        /\ s \in seen =>
             /\ inbox[s] # "none"
             /\ hook[s].state # "absent" \/ inbox[s] # "RECEIVED"
        /\ inbox[s] = "PROCESSED" => job[s].state # "absent" \/ order[s] # 0

(* Every purchase the log shows gets its order and a relay job, though     *)
(* webhooks are lost, repeated or early, jobs deduplicated, polls          *)
(* overtaken and steps interrupted.                                        *)
EveryPurchaseRelayed ==
    <>[](\A s \in Sigs : s <= landed /\ Mergeable(s) => s \in relay)

(* A purchase the ticket worker refuses ends on an operator's desk.        *)
RefusedIsFlagged ==
    \A s \in Sigs : ~Mergeable(s) /\ JobAt(s, "failed") /\ ~HookAt(s, "queued") =>
        inbox[s] = "FAILED"
=============================================================================
