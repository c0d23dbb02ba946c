--------------------------- MODULE PayoutVouchers ---------------------------
(***************************************************************************)
(* The payout path of the backend: POST /voucher (routes/claims.ts) binds  *)
(* a wallet's harvested tickets to a PayoutClaim row and co-signs a        *)
(* claim_winnings transaction; the winner may land it on Solana while its  *)
(* blockhash is valid; the payout confirmer (workers/payoutConfirmer.ts)   *)
(* sweeps the chain and settles the row: CONFIRMED (tickets paid) or       *)
(* EXPIRED (tickets released for another voucher).  The program has no     *)
(* replay guard, so the backend alone keeps a ticket from being paid twice.*)
(*                                                                         *)
(* One clock, counted in Solana blocks, drives block heights, createdAt    *)
(* and Date.now().  Every await of the route and of the confirmer is a     *)
(* point where another actor may run.  How long an await may take is not   *)
(* bounded by the code; the *Budget and RpcLag constants are the           *)
(* environment's bounds, and TimingMargins relates them to the code's two  *)
(* grace periods.                                                          *)
(***************************************************************************)
EXTENDS Naturals, FiniteSetsExt

CONSTANTS
    Tickets,        \* winning tickets
    Wallets,        \* buyers
    Claims,         \* PayoutClaim ids, one per POST /voucher request
    NoClaim,        \* payoutClaimId = null, txSignature = null
    Buyer,          \* Tickets -> Wallets : relayOrder.buyer
    Prize,          \* Tickets -> Nat : winAmount
    Requester,      \* Claims -> Wallets : the wallet in the request body
    Validity,       \* blocks a blockhash stays valid
    ExpiryBuffer,   \* EXPIRY_BUFFER_BLOCKS
    UnsignedGrace,  \* UNSIGNED_GRACE_MS, in blocks
    ClockSkew,      \* CLOCK_SKEW_MS, in blocks
    RouteBudget,    \* environment: blocks from row creation to the stamp
    TickBudget,     \* environment: blocks one confirmer tick may last
    SweepBudget,    \* environment: blocks between sweep and height read
    RpcLag,         \* environment: blocks a landed tx may stay unreadable
    SerialRequests, \* environment: a wallet never has two requests in flight
    LastRequest,    \* bound: no row is created after this block
    MaxTime         \* bound: the last block of the run

ASSUME PayoutConstants ==
    /\ IsFiniteSet(Claims)
    /\ IsFiniteSet(Tickets)
    /\ NoClaim \notin Claims
    /\ Buyer \in [Tickets -> Wallets]
    /\ Prize \in [Tickets -> Nat \ {0}]
    /\ Requester \in [Claims -> Wallets]
    /\ {Validity, ExpiryBuffer, UnsignedGrace, ClockSkew, RouteBudget,
        TickBudget, SweepBudget, RpcLag, LastRequest, MaxTime} \subseteq Nat
    /\ SerialRequests \in BOOLEAN

(* The environment fits inside the code's two grace periods. *)
TimingMargins ==
    /\ RouteBudget + TickBudget <= UnsignedGrace
    /\ SweepBudget + RpcLag <= ExpiryBuffer

VARIABLES
    now,      \* the current block
    ticket,   \* Ticket rows: winStatus and payoutClaimId
    row,      \* PayoutClaim rows
    pc,       \* where the request of each claim id stands
    voucher,  \* what the request holds and finally hands out; covers is a
              \* history of the tickets whose prizes were summed
    landed,   \* block in which the voucher's transaction succeeded (0: never)
    conf      \* the payout confirmer's tick

vars == <<now, ticket, row, pc, voucher, landed, conf>>

None == 0     \* lastValidBlockHeight = null; blocks are counted from 1

Stages == {"idle", "checked", "created", "bound", "totalled", "built",
           "unwinding", "issued", "ended"}
InFlight == {"checked", "created", "bound", "totalled", "built", "unwinding"}
Issuing == {"created", "bound", "totalled", "built"}

PrizeSum(S) == MapThenSumSet(LAMBDA t : Prize[t], S)
Amounts == {PrizeSum(S) : S \in SUBSET Tickets} \cup {0}
Bound(c) == {t \in Tickets : ticket[t].claim = c}

NoRow == [status |-> "absent", createdAt |-> 0, seq |-> 0, lvbh |-> None,
          amount |-> 0, sig |-> NoClaim]
NoVoucher == [amount |-> 0, lvbh |-> None, covers |-> {}]
IdleConfirmer == [pc |-> "idle", start |-> 0, snap |-> {}, seen |-> {},
                  complete |-> FALSE, sweptAt |-> 0, height |-> 0,
                  used |-> {}]

TicketRows == [win : {"WON", "CLAIMED_ON_BASE", "PAID_OUT_ON_SOLANA"},
               claim : Claims \cup {NoClaim}]
ClaimRows == [status : {"absent", "PENDING", "CONFIRMED", "EXPIRED"},
              createdAt : Nat, seq : Nat, lvbh : Nat, amount : Amounts,
              sig : Claims \cup {NoClaim}]
Vouchers == [amount : Amounts, lvbh : Nat, covers : SUBSET Tickets]
SnapRows == [id : Claims, createdAt : Nat, seq : Nat, lvbh : Nat, amount : Amounts]
Ticks == [pc : {"idle", "sweeping", "swept", "resolving"}, start : Nat,
          snap : SUBSET SnapRows, seen : SUBSET Claims, complete : BOOLEAN,
          sweptAt : Nat, height : Nat, used : SUBSET Claims]

Init ==
    /\ now = 1
    /\ ticket = [t \in Tickets |-> [win |-> "WON", claim |-> NoClaim]]
    /\ row = [c \in Claims |-> NoRow]
    /\ pc = [c \in Claims |-> "idle"]
    /\ voucher = [c \in Claims |-> NoVoucher]
    /\ landed = [c \in Claims |-> 0]
    /\ conf = IdleConfirmer

(***************************************************************************)
(* Environment: time, the harvest worker, the winner, process death.       *)
(***************************************************************************)
Tick ==
    /\ now < MaxTime
    /\ \A c \in Claims : pc[c] \in Issuing => now < row[c].createdAt + RouteBudget
    /\ conf.pc # "idle" => now < conf.start + TickBudget
    /\ conf.pc = "swept" => now < conf.sweptAt + SweepBudget
    /\ now' = now + 1
    /\ UNCHANGED <<ticket, row, pc, voucher, landed, conf>>

(* The prize is in the vault and its epoch is revealed. *)
Harvested(t) ==
    /\ ticket[t].win = "WON"
    /\ ticket' = [ticket EXCEPT ![t].win = "CLAIMED_ON_BASE"]
    /\ UNCHANGED <<now, row, pc, voucher, landed, conf>>

(* The winner counter-signs and the program pays: any time the blockhash   *)
(* is valid, once (a signature executes once).  A refusal by the program   *)
(* (paused, vault short, above the ceiling) is the same as never landing:  *)
(* no event is emitted and no funds move.                                  *)
Land(c) ==
    /\ pc[c] = "issued"
    /\ landed[c] = 0
    /\ now <= voucher[c].lvbh
    /\ landed' = [landed EXCEPT ![c] = now]
    /\ UNCHANGED <<now, ticket, row, pc, voucher, conf>>

(* The backend process dies: requests in flight, their locals and the tick *)
(* are lost.                                                               *)
Crash ==
    /\ \/ \E c \in Claims : pc[c] \in InFlight
       \/ conf.pc # "idle"
    /\ pc' = [c \in Claims |-> IF pc[c] \in InFlight THEN "ended" ELSE pc[c]]
    /\ voucher' = [c \in Claims |-> IF pc[c] \in InFlight THEN NoVoucher ELSE voucher[c]]
    /\ conf' = IdleConfirmer
    /\ UNCHANGED <<now, ticket, row, landed>>

(***************************************************************************)
(* POST /voucher                                                           *)
(***************************************************************************)
LiveRow(c) == row[c].status = "PENDING" /\ row[c].lvbh # None

(* Ids are names: the next request of a wallet takes any unused one.       *)
FreshId(w) == CHOOSE d \in Claims : Requester[d] = w /\ pc[d] = "idle"

(* The existing-voucher check.  When one is live the request returns it    *)
(* and changes nothing.                                                    *)
CheckExisting(c) ==
    /\ pc[c] = "idle"
    /\ c = FreshId(Requester[c])
    /\ now <= LastRequest
    /\ SerialRequests =>
         \A d \in Claims : Requester[d] = Requester[c] => pc[d] \notin InFlight
    /\ \A d \in Claims : Requester[d] = Requester[c] => ~LiveRow(d)
    /\ pc' = [pc EXCEPT ![c] = "checked"]
    /\ UNCHANGED <<now, ticket, row, voucher, landed, conf>>

(* createdAt is finer than a block: seq tells apart, and orders, the rows  *)
(* of one block.                                                           *)
Begun == {c \in Claims : pc[c] \notin {"idle", "checked"}}

CreateRow(c) ==
    /\ pc[c] = "checked"
    /\ now <= LastRequest
    /\ row' = [row EXCEPT ![c] = [NoRow EXCEPT !.status = "PENDING",
                                               !.createdAt = now,
                                               !.seq = Cardinality(Begun) + 1]]
    /\ pc' = [pc EXCEPT ![c] = "created"]
    /\ UNCHANGED <<now, ticket, voucher, landed, conf>>

(* One guarded UPDATE: only harvested tickets bound to no other row. *)
Bindable(w) == {t \in Tickets : /\ Buyer[t] = w
                                /\ ticket[t].win = "CLAIMED_ON_BASE"
                                /\ ticket[t].claim = NoClaim}

BindTickets(c) ==
    /\ pc[c] = "created"
    /\ ticket' = [t \in Tickets |->
                    IF t \in Bindable(Requester[c])
                    THEN [ticket[t] EXCEPT !.claim = c] ELSE ticket[t]]
    /\ pc' = [pc EXCEPT ![c] = "bound"]
    /\ UNCHANGED <<now, row, voucher, landed, conf>>

(* Sum the bound prizes; a zero sum only leaves the row to be deleted. *)
Total(c) ==
    /\ pc[c] = "bound"
    /\ IF PrizeSum(Bound(c)) = 0
       THEN /\ pc' = [pc EXCEPT ![c] = "unwinding"]
            /\ UNCHANGED voucher
       ELSE /\ pc' = [pc EXCEPT ![c] = "totalled"]
            /\ voucher' = [voucher EXCEPT ![c].amount = PrizeSum(Bound(c)),
                                          ![c].covers = Bound(c)]
    /\ UNCHANGED <<now, ticket, row, landed, conf>>

(* Ceiling check passed, blockhash fetched, admin co-signature made. *)
BuildVoucher(c) ==
    /\ pc[c] = "totalled"
    /\ voucher' = [voucher EXCEPT ![c].lvbh = now + Validity]
    /\ pc' = [pc EXCEPT ![c] = "built"]
    /\ UNCHANGED <<now, ticket, row, landed, conf>>

(* amountUsdc and lastValidBlockHeight are stored, whatever the row's      *)
(* status is by now, and the transaction is returned to the caller.        *)
StampAndReturn(c) ==
    /\ pc[c] = "built"
    /\ row' = [row EXCEPT ![c].amount = voucher[c].amount,
                          ![c].lvbh = voucher[c].lvbh]
    /\ pc' = [pc EXCEPT ![c] = "issued"]
    /\ UNCHANGED <<now, ticket, voucher, landed, conf>>

(* Above the ceiling, ceiling unreadable, signing or the stamp failed: the *)
(* tickets are released first ...                                          *)
Unbind(c) == [t \in Tickets |-> IF ticket[t].claim = c
                                THEN [ticket[t] EXCEPT !.claim = NoClaim]
                                ELSE ticket[t]]

AbandonVoucher(c) ==
    /\ pc[c] \in {"totalled", "built"}
    /\ ticket' = Unbind(c)
    /\ voucher' = [voucher EXCEPT ![c] = NoVoucher]
    /\ pc' = [pc EXCEPT ![c] = "unwinding"]
    /\ UNCHANGED <<now, row, landed, conf>>

(* ... then the row is deleted (its foreign keys become null). *)
DeleteRow(c) ==
    /\ pc[c] = "unwinding"
    /\ row' = [row EXCEPT ![c] = NoRow]
    /\ ticket' = Unbind(c)
    /\ pc' = [pc EXCEPT ![c] = "ended"]
    /\ UNCHANGED <<now, voucher, landed, conf>>

(* A database call of the route throws where nothing catches it: whatever  *)
(* the request wrote so far stays for the confirmer's grace period.        *)
RequestFails(c) ==
    /\ pc[c] \in InFlight
    /\ pc' = [pc EXCEPT ![c] = "ended"]
    /\ voucher' = [voucher EXCEPT ![c] = NoVoucher]
    /\ UNCHANGED <<now, ticket, row, landed, conf>>

(***************************************************************************)
(* The payout confirmer: one tick at a time.                               *)
(***************************************************************************)

Pending == {c \in Claims : row[c].status = "PENDING"}
Snapshot == {[id |-> c, createdAt |-> row[c].createdAt, seq |-> row[c].seq,
              lvbh |-> row[c].lvbh, amount |-> row[c].amount] : c \in Pending}

ReadPending ==
    /\ conf.pc = "idle"
    /\ conf' = IF Pending = {} THEN conf
               ELSE [IdleConfirmer EXCEPT !.pc = "sweeping", !.start = now,
                                          !.snap = Snapshot]
    /\ UNCHANGED <<now, ticket, row, pc, voucher, landed>>

Landed == {c \in Claims : landed[c] # 0}

(* A walk that reached its time bound saw every transaction the RPC node   *)
(* can serve; a transaction younger than RpcLag may be listed without its  *)
(* body and is then taken for one that holds no claim.                     *)
SweepComplete ==
    /\ conf.pc = "sweeping"
    /\ \E seen \in SUBSET Landed :
         /\ {c \in Landed : landed[c] + RpcLag <= now} \subseteq seen
         /\ conf' = [conf EXCEPT !.pc = "swept", !.complete = TRUE,
                                 !.seen = seen, !.sweptAt = now]
    /\ UNCHANGED <<now, ticket, row, pc, voucher, landed>>

(* The page ceiling cut the walk short: an arbitrary part was seen. *)
SweepTruncated ==
    /\ conf.pc = "sweeping"
    /\ \E seen \in SUBSET Landed :
         conf' = [conf EXCEPT !.pc = "swept", !.complete = FALSE,
                              !.seen = seen, !.sweptAt = now]
    /\ UNCHANGED <<now, ticket, row, pc, voucher, landed>>

(* The RPC threw: the tick ends and settles nothing. *)
SweepFailed ==
    /\ conf.pc = "sweeping"
    /\ conf' = IdleConfirmer
    /\ UNCHANGED <<now, ticket, row, pc, voucher, landed>>

(* Signatures already attributed, then the current block height. *)
ReadHeight ==
    /\ conf.pc = "swept"
    /\ conf' = [conf EXCEPT !.pc = "resolving", !.height = now,
                            !.used = {row[c].sig : c \in Claims} \ {NoClaim}]
    /\ UNCHANGED <<now, ticket, row, pc, voucher, landed>>

(* The rest of the tick after snapshot row s was dealt with and the        *)
(* signatures in x were consumed.                                          *)
Advance(s, x) ==
    conf' = IF conf.snap = {s} THEN IdleConfirmer
            ELSE [conf EXCEPT !.snap = @ \ {s}, !.used = @ \cup x]

(* Rows are taken in order of createdAt. *)
NextRow(s) ==
    /\ conf.pc = "resolving"
    /\ s \in conf.snap
    /\ \A r \in conf.snap : s.seq <= r.seq

(* Mutants: a signature attributed twice; clock skew used the wrong way    *)
(* round.                                                                  *)
CandidatesReused(s) == {x \in conf.seen : /\ Requester[x] = Requester[s.id]
                                          /\ landed[x] + ClockSkew >= s.createdAt
                                          /\ voucher[x].amount = s.amount}
CandidatesStrict(s) == {x \in conf.seen : /\ Requester[x] = Requester[s.id]
                                          /\ x \notin conf.used
                                          /\ landed[x] > s.createdAt + ClockSkew
                                          /\ voucher[x].amount = s.amount}

Candidates(s) == {x \in conf.seen : /\ Requester[x] = Requester[s.id]
                                    /\ x \notin conf.used
                                    /\ landed[x] + ClockSkew >= s.createdAt
                                    /\ voucher[x].amount = s.amount}
Oldest(x, S) == x \in S /\ \A y \in S : landed[x] <= landed[y]

(* confirmClaim: one database transaction; it rolls back when the row is   *)
(* gone.                                                                   *)
ConfirmRow(s, x) ==
    /\ NextRow(s)
    /\ Oldest(x, Candidates(s))
    /\ row[s.id].status # "absent"
    /\ ticket' = [t \in Tickets |->
                    IF t \in Bound(s.id) /\ ticket[t].win = "CLAIMED_ON_BASE"
                    THEN [ticket[t] EXCEPT !.win = "PAID_OUT_ON_SOLANA"]
                    ELSE ticket[t]]
    /\ row' = [row EXCEPT ![s.id].status = "CONFIRMED", ![s.id].sig = x]
    /\ Advance(s, {x})
    /\ UNCHANGED <<now, pc, voucher, landed>>

(* releaseClaim: one database transaction; nothing happens to a row that   *)
(* is gone.                                                                *)
ReleaseRow(s) ==
    /\ row' = IF row[s.id].status = "absent" THEN row
              ELSE [row EXCEPT ![s.id].status = "EXPIRED"]
    /\ ticket' = IF row[s.id].status = "absent" THEN ticket ELSE Unbind(s.id)
    /\ Advance(s, {})
    /\ UNCHANGED <<now, pc, voucher, landed>>

(* The row was never stamped when it was read, and the grace is over. *)
(* Mutants: no grace at all; a grace that never ends.                      *)
GraceSkipped(s) == s.lvbh = None
GraceEndless(s) == FALSE

GraceOver(s) == s.lvbh = None /\ now > s.createdAt + UnsignedGrace
ReleaseUnsigned(s) ==
    /\ NextRow(s)
    /\ Candidates(s) = {}
    /\ GraceOver(s)
    /\ ReleaseRow(s)

(* Not on chain, the sweep was complete, the expiry is behind us. *)
(* Mutants: no buffer behind the expiry; an incomplete sweep trusted.      *)
ExpiryUnbuffered(s) == /\ s.lvbh # None
                       /\ conf.complete
                       /\ conf.height > s.lvbh
ExpiryAnySweep(s) == /\ s.lvbh # None
                     /\ conf.height > s.lvbh + ExpiryBuffer

ExpiryPassed(s) == /\ s.lvbh # None
                   /\ conf.complete
                   /\ conf.height > s.lvbh + ExpiryBuffer
ExpireRow(s) ==
    /\ NextRow(s)
    /\ Candidates(s) = {}
    /\ ExpiryPassed(s)
    /\ ReleaseRow(s)

KeepWaiting(s) ==
    /\ NextRow(s)
    /\ Candidates(s) = {}
    /\ ~GraceOver(s)
    /\ ~ExpiryPassed(s)
    /\ Advance(s, {})
    /\ UNCHANGED <<now, ticket, row, pc, voucher, landed>>

(* The row's database transaction failed and rolled back; the loop goes on.*)
ResolveFailed(s) ==
    /\ NextRow(s)
    /\ \/ Candidates(s) = {} /\ Advance(s, {})
       \/ \E x \in Candidates(s) : Oldest(x, Candidates(s)) /\ Advance(s, {x})
    /\ UNCHANGED <<now, ticket, row, pc, voucher, landed>>

-----------------------------------------------------------------------------
Handler(c) ==
    \/ CreateRow(c) \/ BindTickets(c) \/ Total(c) \/ BuildVoucher(c)
    \/ StampAndReturn(c) \/ AbandonVoucher(c) \/ DeleteRow(c)

Route(c) == CheckExisting(c) \/ Handler(c) \/ RequestFails(c)

Resolve(s) ==
    \/ \E x \in conf.seen : ConfirmRow(s, x)
    \/ ReleaseUnsigned(s) \/ ExpireRow(s) \/ KeepWaiting(s)

Settle ==
    \/ ReadPending \/ SweepComplete \/ ReadHeight
    \/ \E s \in conf.snap : Resolve(s)

Confirmer ==
    \/ Settle \/ SweepTruncated \/ SweepFailed
    \/ \E s \in conf.snap : ResolveFailed(s)

Environment ==
    \/ Tick \/ Crash
    \/ \E t \in Tickets : Harvested(t)
    \/ \E c \in Claims : Land(c)

Next == Environment \/ Confirmer \/ \E c \in Claims : Route(c)

Spec == Init /\ [][Next]_vars

(* A step in which no call fails and no process dies. *)
Healthy ==
    \/ Tick
    \/ \E t \in Tickets : Harvested(t)
    \/ \E c \in Claims : Land(c) \/ CheckExisting(c) \/ Handler(c)
    \/ Settle

(* The confirmer is a self-rescheduling timer and a handler's awaits       *)
(* return, so their steps keep running; blocks keep coming; outages of the *)
(* RPC node, the database and the process come to an end.  Nothing obliges *)
(* a client to ask or a winner to land.                                    *)
LiveSpec ==
    /\ Spec
    /\ WF_vars(Tick)
    /\ WF_vars(Settle)
    /\ \A c \in Claims : WF_vars(Handler(c))
    /\ <>[][Healthy]_vars

-----------------------------------------------------------------------------
(* Every variable keeps the shape of the rows, the request locals and the  *)
(* tick locals it models (schema.prisma PayoutClaim and Ticket).           *)
TypeOK ==
    /\ now \in Nat
    /\ ticket \in [Tickets -> TicketRows]
    /\ row \in [Claims -> ClaimRows]
    /\ pc \in [Claims -> Stages]
    /\ voucher \in [Claims -> Vouchers]
    /\ landed \in [Claims -> Nat]
    /\ conf \in Ticks

(* claims.ts 22-34: no two transactions that moved money were issued for   *)
(* the same ticket, whatever the order of requests, sweeps, expiries and   *)
(* landings, also when an expired voucher's tickets are handed out again.  *)
NoTicketPaidTwice ==
    \A c, d \in Landed : c # d => voucher[c].covers \cap voucher[d].covers = {}

(* payoutConfirmer.ts 22-34, "the one failure this must not have": a row   *)
(* the confirmer expired has not landed and never will.                    *)
ExpiredNeverLands ==
    \A c \in Claims : row[c].status = "EXPIRED" => landed[c] = 0

(* A ticket shown as paid out was covered by a transaction that landed.    *)
PaidTicketsWerePaid ==
    \A t \in Tickets : ticket[t].win = "PAID_OUT_ON_SOLANA" =>
        \E c \in Landed : t \in voucher[c].covers

(* A harvested ticket that is bound hangs on a row the confirmer will      *)
(* still settle: the route's late bind or stamp never attaches it to a row *)
(* already expired or gone, where nothing would ever release it.           *)
NoStrandedTicket ==
    \A t \in Tickets :
        /\ ticket[t].win = "CLAIMED_ON_BASE"
        /\ ticket[t].claim # NoClaim
        => row[ticket[t].claim].status = "PENDING"

(* In money rather than tickets, which also covers a wallet's racing       *)
(* requests, where a payout may be attributed to the twin row of the same  *)
(* amount: what was paid to a wallet plus what it may still ask for never  *)
(* exceeds what was harvested for it.                                      *)
PaidAmount(w) ==
    MapThenSumSet(LAMBDA c : voucher[c].amount, {c \in Landed : Requester[c] = w})
NoOverpayment ==
    \A w \in Wallets :
        PaidAmount(w) + PrizeSum(Bindable(w))
          <= PrizeSum({t \in Tickets : Buyer[t] = w /\ ticket[t].win # "WON"})

(* The detailed path implements PayoutLedger: a landing is a payout of     *)
(* credited, unpaid tickets of one wallet; all else is credit or stutter.  *)
Ledger == INSTANCE PayoutLedger
            WITH credited <- {t \in Tickets : ticket[t].win # "WON"},
                 payouts <- [t \in Tickets |->
                               Cardinality({c \in Landed : t \in voucher[c].covers})]
ImplementsLedger == Ledger!Spec

(* The confirmer settles every row, also one whose route crashed.          *)
EveryVoucherSettles ==
    \A c \in Claims : row[c].status = "PENDING" ~> row[c].status # "PENDING"

(* Money that moved is recorded: the row of a landed claim is confirmed.   *)
LandedIsRecorded ==
    \A c \in Claims : landed[c] # 0 ~> row[c].status = "CONFIRMED"
=============================================================================
