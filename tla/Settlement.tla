------------------------------ MODULE Settlement ------------------------------
(***************************************************************************)
(* Settlement: Megapot's concluded drawings become MegapotEpoch rows (by   *)
(* the boot backfill, the transition and on-demand healing, all in         *)
(* services/megapotService.ts), and the settlement pass                    *)
(* (workers/settlementWorker.ts), which two processes run at once without  *)
(* a lock, grades the tickets of each stored drawing page by page and then *)
(* sets its watermark ticketsSettledAt.                                    *)
(*                                                                         *)
(* OrdersInTime is a fact the pass relies on and the code does not enforce *)
(* (the relay worker may finish an order at any time).                     *)
(***************************************************************************)
EXTENDS Integers, FiniteSets

CONSTANTS
    Tickets, Orders,
    OrderOf,         \* the order of each ticket
    Normals, Bonus,  \* the numbers of each ticket
    MaxDrawing,      \* bound: drawings that conclude in a run
    WinNormals, WinBonus,  \* the winning numbers of each drawing
    Gross,           \* Megapot's payout per tier, for each drawing
    ReferralBps,     \* REFERRAL_WIN_SHARE_BPS
    FreeTicketTiers, \* FREE_TICKET_TIERS
    Processes,       \* the worker and the cron process
    PageSize,        \* TICKET_BATCH
    MaxPages,        \* MAX_BATCHES_PER_EPOCH
    MaxFaults,       \* bound: errors and crashes in a run
    OrdersInTime     \* environment: an order is SUCCESS before a process
                     \* reads the last page of its drawing

Epochs == 1..MaxDrawing

ASSUME SettlementConstants ==
    /\ OrderOf \in [Tickets -> Orders]
    /\ MaxDrawing \in Nat \ {0} /\ PageSize \in Nat \ {0}
    /\ MaxPages \in Nat \ {0} /\ MaxFaults \in Nat
    /\ ReferralBps \in Nat /\ ReferralBps < 10000 /\ OrdersInTime \in BOOLEAN

VARIABLES
    drawing,  \* Megapot's live drawing
    api,      \* what Megapot's API says of each concluded drawing
    entered,  \* the drawing each order's tickets were bought in, 0 before
    order,    \* orders that are SUCCESS, with fulfillEpoch = entered
    ticket,   \* Ticket rows: winStatus, winAmount, isFreeTicketTier
    row,      \* MegapotEpoch rows: prize tiers and ticketsSettledAt
    me,       \* each process's tick: where it stands and its locals
    sync,     \* the boot backfill: highestDbId and the next id listed
    faults    \* faults so far

vars == <<drawing, api, entered, order, ticket, row, me, sync, faults>>
megapot == <<drawing, api>>
relay == <<entered, order>>

Pending == [win |-> "DRAW_PENDING", amount |-> 0, free |-> FALSE]
Asleep == [pc |-> "idle", heal |-> {}, todo |-> {}, epoch |-> 0, page |-> {}, pages |-> 0]
NotSyncing == [on |-> FALSE, highest |-> 0, next |-> 0]

Init ==
    /\ drawing = 1 /\ api = [e \in Epochs |-> "live"]
    /\ entered = [o \in Orders |-> 0] /\ order = {}
    /\ ticket = [t \in Tickets |-> Pending]
    /\ row = [e \in Epochs |-> [tiers |-> "absent", settled |-> FALSE]]
    /\ me = [p \in Processes |-> Asleep]
    /\ sync = NotSyncing /\ faults = 0

Fault == faults < MaxFaults /\ faults' = faults + 1

(***************************************************************************)
(* The arithmetic of a grade.                                              *)
(***************************************************************************)
calcTierId(t, e) ==
    2 * Cardinality(Normals[t] \cap WinNormals[e]) + (IF Bonus[t] = WinBonus[e] THEN 1 ELSE 0)

(* Megapot has a tier for every number of matches; tier 0 pays nothing. *)
TierTable(e) ==
    /\ \A t \in Tickets : calcTierId(t, e) \in DOMAIN Gross[e]
    /\ \A i \in DOMAIN Gross[e] : Gross[e][i] \in Nat
    /\ Gross[e][0] = 0

ASSUME TierTables == \A e \in Epochs : TierTable(e)

(* Mutant: floor(gross * 0.9). *)
applyReferralShareOnce(gross) == (gross * (10000 - ReferralBps)) \div 10000

applyReferralShare(gross) == gross - (gross * ReferralBps) \div 10000

(* The stored table drops tier 0; a tier it does not list pays nothing. *)
processPrizeTiers(e) ==
    [i \in DOMAIN Gross[e] \ {0} |-> applyReferralShare(Gross[e][i])]

Net(t, e) ==
    LET i == calcTierId(t, e)
    IN  IF i \in DOMAIN processPrizeTiers(e) THEN processPrizeTiers(e)[i] ELSE 0

Grade(t, e) ==
    LET free == calcTierId(t, e) \in FreeTicketTiers
    IN  IF Net(t, e) = 0 THEN [win |-> "LOST", amount |-> 0, free |-> FALSE]
        ELSE [win |-> IF free THEN "WON_FREE_TICKET" ELSE "WON_UNCLAIMED",
              amount |-> Net(t, e), free |-> free]

(***************************************************************************)
(* Megapot, and the parts of the backend on either side of settlement.     *)
(***************************************************************************)
Draw ==
    /\ drawing <= MaxDrawing
    /\ drawing' = drawing + 1
    /\ UNCHANGED <<api, relay, ticket, row, me, sync, faults>>

(* A settled round may show an empty tier table before the whole one: []   *)
(* is not refused by upsertSettledEpoch.                                   *)
Post(e) ==
    /\ e < drawing
    /\ \/ api[e] = "live" /\ api' = [api EXCEPT ![e] = "empty"] /\ Fault
       \/ /\ api[e] \in {"live", "empty"}
          /\ api' = [api EXCEPT ![e] = "net"]
          /\ UNCHANGED faults
    /\ UNCHANGED <<drawing, relay, ticket, row, me, sync>>

Buy(o) ==
    /\ entered[o] = 0 /\ drawing \in Epochs
    /\ entered' = [entered EXCEPT ![o] = drawing]
    /\ UNCHANGED <<megapot, order, ticket, row, me, sync, faults>>

Settling(p, e) == me[p].epoch = e /\ me[p].pc \in {"grade", "mark"}

Succeed(o) ==
    /\ entered[o] # 0 /\ o \notin order
    /\ OrdersInTime =>
         /\ ~row[entered[o]].settled
         /\ \A p \in Processes : ~Settling(p, entered[o])
    /\ order' = order \cup {o}
    /\ UNCHANGED <<megapot, entered, ticket, row, me, sync, faults>>

(* The harvest takes the winners of a settled epoch, free tickets too. *)
Harvest(t) ==
    /\ ticket[t].win \in {"WON_UNCLAIMED", "WON_FREE_TICKET"}
    /\ row[entered[OrderOf[t]]].settled
    /\ ticket' = [ticket EXCEPT ![t].win = "CLAIMED_ON_BASE"]
    /\ UNCHANGED <<megapot, relay, row, me, sync, faults>>

(***************************************************************************)
(* MegapotEpoch rows.                                                      *)
(***************************************************************************)
Stored(e) == row[e].tiers # "absent"

(* upsertSettledEpoch: refuses a round that is not settled, rewrites the   *)
(* table of one that is, and leaves the watermark alone.                   *)
Upserted(e) == IF api[e] = "live" THEN row ELSE [row EXCEPT ![e].tiers = api[e]]

(* The transition stores the drawing it has just seen conclude. *)
TransitionUpsert ==
    /\ drawing > 1
    /\ row' = Upserted(drawing - 1)
    /\ row' # row
    /\ UNCHANGED <<megapot, relay, ticket, me, sync, faults>>

(* syncAllSettledRounds: highestDbId, then Megapot's rounds newest first,  *)
(* down to the first id that is not higher.                                *)
highestDbId(h) == (h # 0 => Stored(h)) /\ \A e \in Epochs : Stored(e) => e <= h

StartBackfill ==
    /\ ~sync.on
    /\ \E h \in 0..MaxDrawing :
         /\ highestDbId(h)
         /\ h < drawing - 1
         /\ sync' = [on |-> TRUE, highest |-> h, next |-> drawing - 1]
    /\ UNCHANGED <<megapot, relay, ticket, row, me, faults>>

BackfillNext ==
    /\ sync.on /\ sync.next > sync.highest
    /\ row' = Upserted(sync.next)
    /\ sync' = [sync EXCEPT !.next = @ - 1]
    /\ UNCHANGED <<megapot, relay, ticket, me, faults>>

BackfillHalts ==
    /\ sync.on /\ sync.next <= sync.highest
    /\ sync' = NotSyncing
    /\ UNCHANGED <<megapot, relay, ticket, row, me, faults>>

(* A rate limit, any other error (both are swallowed) or a crash. *)
BackfillFails ==
    /\ sync.on /\ Fault
    /\ sync' = NotSyncing
    /\ UNCHANGED <<megapot, relay, ticket, row, me>>

(***************************************************************************)
(* One settlement tick of process p.                                       *)
(***************************************************************************)
At(p, stage) == me[p].pc = stage
Rest(p) == me' = [me EXCEPT ![p] = Asleep]

(* The tickets a pass over drawing e selects. *)
Gradable(e) ==
    {t \in Tickets : /\ ticket[t].win = "DRAW_PENDING"
                     /\ OrderOf[t] \in order /\ entered[OrderOf[t]] = e}

(* A tick that could only find nothing to do is left out. *)
SomethingToDo ==
    \E e \in Epochs : Gradable(e) # {} \/ (Stored(e) /\ ~row[e].settled)

(* healMissingEpochs, its query. *)
(* Mutant: the pass settles only what is stored already. *)
StartUnhealed(p) ==
    /\ At(p, "idle") /\ SomethingToDo
    /\ me' = [me EXCEPT ![p] = [Asleep EXCEPT !.pc = "heal"]]
    /\ UNCHANGED <<megapot, relay, ticket, row, sync, faults>>

Start(p) ==
    /\ At(p, "idle") /\ SomethingToDo
    /\ me' = [me EXCEPT ![p] = [Asleep EXCEPT !.pc = "heal",
                                              !.heal = {e \in Epochs : Gradable(e) # {}}]]
    /\ UNCHANGED <<megapot, relay, ticket, row, sync, faults>>

(* One epoch of its loop: a stored epoch is skipped, whatever its table.   *)
(* The skip of epochs that are still live only saves a fetch, since the    *)
(* upsert refuses them.  A failed fetch is swallowed.                      *)
Heal(p, e) ==
    /\ At(p, "heal") /\ e \in me[p].heal
    /\ \/ row' = (IF Stored(e) THEN row ELSE Upserted(e)) /\ UNCHANGED faults
       \/ ~Stored(e) /\ Fault /\ UNCHANGED row
    /\ me' = [me EXCEPT ![p].heal = @ \ {e}]
    /\ UNCHANGED <<megapot, relay, ticket, sync>>

(* The unsettled epochs, with their tables as they are now. *)
List(p) ==
    /\ At(p, "heal") /\ me[p].heal = {}
    /\ me' = [me EXCEPT ![p] =
                [@ EXCEPT !.pc = "next",
                          !.todo = {<<e, row[e].tiers>> : e \in
                                      {x \in Epochs : Stored(x) /\ ~row[x].settled}}]]
    /\ UNCHANGED <<megapot, relay, ticket, row, sync, faults>>

(* An epoch listed with an unusable table is refused. *)
settleEpoch(p, x) ==
    me' = [me EXCEPT ![p] =
             IF x[2] = "net" THEN [Asleep EXCEPT !.pc = "page", !.todo = me[p].todo \ {x},
                                                 !.epoch = x[1]]
             ELSE [me[p] EXCEPT !.todo = me[p].todo \ {x}]]

(* The lowest epoch left. *)
NextEpoch(p) ==
    /\ At(p, "next")
    /\ \E x \in me[p].todo :
         /\ \A y \in me[p].todo : x[1] <= y[1]
         /\ settleEpoch(p, x)
    /\ UNCHANGED <<megapot, relay, ticket, row, sync, faults>>

EndTick(p) ==
    /\ At(p, "next") /\ me[p].todo = {}
    /\ Rest(p)
    /\ UNCHANGED <<megapot, relay, ticket, row, sync, faults>>

(* An empty page ends the epoch. *)
Hold(p, page) ==
    me' = [me EXCEPT ![p] = [me[p] EXCEPT !.page = page,
                                          !.pc = IF page = {} THEN "mark" ELSE "grade"]]

(* A page in no particular order, full unless it is all that is left. *)
ReadPage(p) ==
    /\ At(p, "page")
    /\ LET all == Gradable(me[p].epoch)
       IN  \E page \in SUBSET all :
             /\ Cardinality(page) <= PageSize
             /\ page = all \/ Cardinality(page) = PageSize
             /\ Hold(p, page)
    /\ UNCHANGED <<megapot, relay, ticket, row, sync, faults>>

(* What follows a page: a short one was the last, the runaway guard leaves *)
(* the epoch unsettled.                                                    *)
(* Mutant: one page is all. *)
AfterPageOnce(p) == IF me[p].pages + 1 = MaxPages THEN "next" ELSE "mark"

AfterPage(p) ==
    IF Cardinality(me[p].page) < PageSize THEN "mark"
    ELSE IF me[p].pages + 1 = MaxPages THEN "next" ELSE "page"

Onward(p, stage) ==
    me' = [me EXCEPT ![p] =
             [me[p] EXCEPT !.pc = stage, !.page = {},
                           !.epoch = IF stage = "next" THEN 0 ELSE @,
                           !.pages = IF stage = "page" THEN @ + 1 ELSE 0]]

(* The transaction that grades a page; each update filters DRAW_PENDING. *)
(* Mutant: without the filter. *)
GradePageUnguarded(p) ==
    /\ At(p, "grade")
    /\ ticket' = [t \in Tickets |->
                    IF t \in me[p].page THEN Grade(t, me[p].epoch) ELSE ticket[t]]
    /\ Onward(p, AfterPage(p))
    /\ UNCHANGED <<megapot, relay, row, sync, faults>>

GradePage(p) ==
    /\ At(p, "grade")
    /\ ticket' = [t \in Tickets |->
                    IF t \in me[p].page /\ ticket[t].win = "DRAW_PENDING"
                    THEN Grade(t, me[p].epoch) ELSE ticket[t]]
    /\ Onward(p, AfterPage(p))
    /\ UNCHANGED <<megapot, relay, row, sync, faults>>

(* The watermark, last. *)
Mark(p) ==
    /\ At(p, "mark")
    /\ row' = [row EXCEPT ![me[p].epoch].settled = TRUE]
    /\ Onward(p, "next")
    /\ UNCHANGED <<megapot, relay, ticket, sync, faults>>

(* An error ends the tick, as a crash does: nothing is kept in memory. *)
Throw(p) ==
    /\ Fault
    /\ ~At(p, "idle")
    /\ Rest(p)
    /\ UNCHANGED <<megapot, relay, ticket, row, sync>>

-----------------------------------------------------------------------------
Tick(p) ==
    \/ Start(p) \/ List(p) \/ NextEpoch(p) \/ EndTick(p)
    \/ ReadPage(p) \/ GradePage(p) \/ Mark(p)
    \/ \E e \in Epochs : Heal(p, e)

Backfill == StartBackfill \/ BackfillNext \/ BackfillHalts \/ BackfillFails

Megapot == Draw \/ \E e \in Epochs : Post(e)

Environment ==
    \/ Megapot \/ TransitionUpsert
    \/ \E o \in Orders : Buy(o) \/ Succeed(o)
    \/ \E t \in Tickets : Harvest(t)

Next == Environment \/ Backfill \/ \E p \in Processes : Tick(p) \/ Throw(p)

Spec == Init /\ [][Next]_vars

(* Ticks start every two minutes and awaits return; Megapot concludes its  *)
(* drawings and posts them.  Neither the backfill nor the transition is    *)
(* owed, so every row may be the healer's work.                            *)
LiveSpec ==
    /\ Spec
    /\ WF_vars(Megapot)
    /\ \A p \in Processes : WF_vars(Tick(p))

-----------------------------------------------------------------------------
Stages == {"idle", "heal", "next", "page", "grade", "mark"}
Todos == SUBSET (Epochs \X {"absent", "empty", "net"})
Locals == [pc : Stages, heal : SUBSET Epochs, page : SUBSET Tickets, todo : Todos,
           epoch : 0..MaxDrawing, pages : Nat]
TicketSet == [win : {"DRAW_PENDING", "LOST", "WON_UNCLAIMED", "WON_FREE_TICKET",
                     "CLAIMED_ON_BASE"},
              amount : Nat, free : BOOLEAN]
RowSet == [tiers : {"absent", "empty", "net"}, settled : BOOLEAN]

(* The values the variables take. *)
TypeOK ==
    /\ drawing \in 1..(MaxDrawing + 1)
    /\ api \in [Epochs -> {"live", "empty", "net"}]
    /\ entered \in [Orders -> 0..MaxDrawing] /\ order \subseteq Orders
    /\ ticket \in [Tickets -> TicketSet]
    /\ row \in [Epochs -> RowSet]
    /\ me \in [Processes -> Locals]
    /\ sync \in [on : BOOLEAN, highest : 0..MaxDrawing, next : 0..MaxDrawing]
    /\ faults \in 0..MaxFaults

(* What the vault receives for a ticket: Megapot's payout in the drawing   *)
(* the ticket entered, less the referrer's share, the largest amount that  *)
(* is not above its basis points.                                          *)
Receives(t, amount) ==
    LET e == entered[OrderOf[t]]
        gross == Gross[e][calcTierId(t, e)]
        share == gross - amount
    IN  share * 10000 <= gross * ReferralBps /\ (share + 1) * 10000 > gross * ReferralBps

(* Whichever of the two processes graded it, from whichever page, retry or *)
(* healed row: a ticket is LOST only if it won nothing in the drawing it   *)
(* entered, and carries the amount the harvest will bring in if it won.    *)
GradeIsRight ==
    \A t \in Tickets : ticket[t].win # "DRAW_PENDING" =>
        /\ OrderOf[t] \in order
        /\ Receives(t, ticket[t].amount)
        /\ ticket[t].win = "LOST" <=> ticket[t].amount = 0

(* A grade is written once: a process holding a page it read before the    *)
(* other graded, marked and the harvest credited it takes nothing back.    *)
NeverRegress ==
    [][\A t \in Tickets :
         /\ ticket[t].win # "DRAW_PENDING" =>
              ticket'[t].win \in {ticket[t].win, "CLAIMED_ON_BASE"}
         /\ ticket[t].win = "CLAIMED_ON_BASE" => ticket'[t] = ticket[t]]_vars

(* The watermark is set only after every ticket of the drawing left        *)
(* DRAW_PENDING: nothing looks at the drawing again.                       *)
WatermarkIsComplete ==
    \A e \in Epochs : row[e].settled => Gradable(e) = {}

(* Through failed backfills, missed nudges, errors and crashes every       *)
(* bought ticket is graded, unless its drawing was stored with an empty    *)
(* table, which no code fetches again but a transition that is still on.   *)
EveryTicketGraded ==
    <>[](\A t \in Tickets : OrderOf[t] \in order =>
            \/ ticket[t].win # "DRAW_PENDING"
            \/ row[entered[OrderOf[t]]].tiers = "empty")

(* What syncAllSettledRounds takes for granted when it halts: below a      *)
(* stored drawing none is missing.                                         *)
NoGaps == ~sync.on => \A e \in Epochs : Stored(e) => \A d \in 1..e : Stored(d)
=============================================================================
