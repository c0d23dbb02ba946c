------------------------------ MODULE Storefront ------------------------------
(***************************************************************************)
(* One browser buying tickets: the polled copy of the program's state      *)
(* (useOnChainState), the basket (ticketBuilderStore), and a purchase as   *)
(* several transactions behind one wallet approval (buyTickets), sent one  *)
(* after the other while the program may pause or change its bounds.       *)
(* Editing is blocked while an attempt runs (TransactionOverlay).          *)
(***************************************************************************)
EXTENDS SolanaProgram, SequencesExt

CONSTANTS
    Buyer,       \* the connected wallet
    Blank,       \* a ticket whose balls are cleared or half picked
    MaxStaged,   \* MAX_STAGED_TICKETS
    PerTx,       \* TICKETS_PER_TX = MAX_TICKETS_PER_IX
    Fallback,    \* the bounds Home assumes before the first fetch
    FeeBase, FeePerTicket,  \* RELAY_FEE_BASE_USDC, RELAY_FEE_PER_TICKET_USDC
    MaxAttempts, \* bound: presses of Buy in a run
    MaxChanges   \* bound: administrative calls of a run

ASSUME StorefrontConstants ==
    /\ Buyer \in Keys /\ Blank \notin Picks
    /\ MaxStaged \in Nat \ {0} /\ PerTx \in Nat \ {0} /\ MaxAttempts \in Nat
    /\ MaxChanges \in Nat
    /\ Fallback \in [normal : Nat, bonus : Nat] /\ FeeBase \in Nat /\ FeePerTicket \in Nat
    /\ Signatures = (1..MaxAttempts) \X (1..MaxStaged)

VARIABLES
    page,     \* the on-chain state as last fetched
    basket,   \* stagedTickets
    attempts, \* presses of Buy, each with the basket it was made from
    changes   \* administrative calls so far

browser == <<page, basket, attempts>>
vars == <<programVars, browser, changes>>

NoPage == [admin |-> NoKey, bounds |-> [normal |-> 0, bonus |-> 0], paused |-> FALSE]
Init ==
    /\ ProgramInit
    /\ page = NoPage /\ basket = <<>> /\ attempts = <<>> /\ changes = 0

Loading == \E a \in DOMAIN attempts : attempts[a].outcome = "sending"

\* The account of an older layout does not decode, and the query keeps its data.
Fetch ==
    /\ Decodes
    /\ page' = [admin |-> state.admin, bounds |-> state.bounds, paused |-> state.paused]
    /\ UNCHANGED <<basket, attempts>>

\* Quick picks, and numbers toggled on the editor's grid, lie in the page's
\* bounds, or in the fallback's, at that moment; they stay staged when the bounds change.  After a
\* run's last attempt nothing is bought, so nothing is edited (a bound).
OnGrid == {p \in Picks : InBounds(p, IF page = NoPage THEN Fallback ELSE page.bounds)}
Edit(to) ==
    /\ ~Loading /\ Len(to) <= MaxStaged
    /\ Len(attempts) < MaxAttempts
    /\ basket' = to
    /\ UNCHANGED <<page, attempts>>

Grow == \E p \in OnGrid : Edit(Append(basket, p))
Shrink == basket # <<>> /\ Edit(Front(basket))
removeTicket == \E i \in DOMAIN basket : Edit(RemoveAt(basket, i))
shuffleTicket == \E i \in DOMAIN basket, p \in OnGrid : Edit([basket EXCEPT ![i] = p])
clearTicketBalls == \E i \in DOMAIN basket : Edit([basket EXCEPT ![i] = Blank])

isTicketComplete(t) == t # Blank /\ InBounds(t, page.bounds)

\* Home hands onChain.admin over as the fee's recipient.
handleBuy ==
    /\ page # NoPage /\ ~Loading /\ ~page.paused
    /\ Len(basket) \in 1..MaxStaged
    /\ \A i \in DOMAIN basket : isTicketComplete(basket[i])
    /\ Len(attempts) < MaxAttempts
    /\ attempts' = Append(attempts, [basket |-> basket, recipient |-> page.admin,
                                     sent |-> 0, outcome |-> "sending", limbo |-> FALSE])
    /\ UNCHANGED <<page, basket>>

Chunks(n) == (n + PerTx - 1) \div PerTx
\* A mutant for the checks: the stride and the slice disagree.
ChunkStride(tickets, k) ==
    SubSeq(tickets, (k - 1) * (PerTx - 1) + 1,
           IF k * PerTx < Len(tickets) THEN k * PerTx ELSE Len(tickets))
Chunk(tickets, k) ==
    SubSeq(tickets, (k - 1) * PerTx + 1,
           IF k * PerTx < Len(tickets) THEN k * PerTx ELSE Len(tickets))
Lands(a, k) == buy_ticket(<<a, k>>, Buyer, Chunk(attempts[a].basket, k), attempts[a].recipient)

\* sendAll waits for each transaction's confirmation before it sends the next.
Confirmed(a) ==
    LET k == attempts[a].sent + 1
        last == k = Chunks(Len(attempts[a].basket))
    IN  /\ attempts[a].outcome = "sending"
        /\ Lands(a, k)
        /\ attempts' = [attempts EXCEPT ![a].sent = k,
                                        ![a].outcome = IF last THEN "success" ELSE "sending"]
        /\ basket' = IF last THEN <<>> ELSE basket
        /\ UNCHANGED page

\* Refused by the wallet, by the simulation or by the program, or expired.
Rejected(a) ==
    /\ attempts[a].outcome = "sending"
    /\ attempts' = [attempts EXCEPT ![a].outcome = "failed"]
    /\ UNCHANGED <<page, basket>>

\* Broadcast, but its confirmation did not come in time: it may land yet.
Unconfirmed(a) ==
    /\ attempts[a].outcome = "sending"
    /\ attempts' = [attempts EXCEPT ![a].outcome = "failed", ![a].limbo = TRUE]
    /\ UNCHANGED <<page, basket>>
LandsLate(a) ==
    /\ attempts[a].limbo
    /\ Lands(a, attempts[a].sent + 1)
    /\ attempts' = [attempts EXCEPT ![a].limbo = FALSE]
    /\ UNCHANGED <<page, basket>>

BrowserAlone ==
    \/ Fetch \/ Grow \/ Shrink \/ removeTicket \/ shuffleTicket \/ clearTicketBalls
    \/ handleBuy
    \/ \E a \in DOMAIN attempts : Rejected(a) \/ Unconfirmed(a)
BrowserBuys == \E a \in DOMAIN attempts : Confirmed(a) \/ LandsLate(a)

Next ==
    \/ BrowserAlone /\ UNCHANGED <<programVars, changes>>
    \/ BrowserBuys /\ UNCHANGED changes
    \/ Operate /\ UNCHANGED <<browser, changes>>
    \/ /\ changes < MaxChanges /\ changes' = changes + 1
       /\ Administer /\ UNCHANGED browser

Spec == Init /\ [][Next]_vars

-----------------------------------------------------------------------------
AttemptSet == [basket : Seq(Picks), recipient : Keys \cup {NoKey}, sent : Nat,
               outcome : {"sending", "success", "failed"}, limbo : BOOLEAN]
PageSet == [admin : Keys \cup {NoKey}, bounds : [normal : Nat, bonus : Nat], paused : BOOLEAN]

\* The values the variables take.
TypeOK ==
    /\ ProgramTypeOK /\ changes \in Nat
    /\ page \in PageSet /\ basket \in Seq(Picks \cup {Blank})
    /\ attempts \in Seq(AttemptSet)

SalesOf(a) == {s \in sold : s.sig[1] = a}
Landed(a) == {s.sig[2] : s \in SalesOf(a)}
Bought(a, k) == (CHOOSE s \in sold : s.sig = <<a, k>>).picks
\* A mutant for the checks: the base fee quoted once for all transactions.
calculateRelayFeeOnce(n) == FeeBase + FeePerTicket * n
calculateRelayFee(n) == FeeBase * Chunks(n) + FeePerTicket * n

\* A purchase that is cut short by a pause, a change of bounds or a lost
\* confirmation has bought its first tickets, in their order, and no others
\* (buyTickets).
FillsInOrder ==
    \A a \in DOMAIN attempts :
      LET n == Cardinality(Landed(a))
      IN  /\ Landed(a) = 1..n
          /\ IsPrefix(FlattenSeq([k \in 1..n |-> Bought(a, k)]), attempts[a].basket)

\* A purchase the page calls a success has bought as many tickets as it was
\* made from, and was charged what the page quoted, if the program's rates
\* were the page's at each transaction (handleBuy, calculateRelayFee).
SuccessIsExact ==
    \A a \in DOMAIN attempts : attempts[a].outcome = "success" =>
      LET n == Len(attempts[a].basket)
      IN  /\ n = MapThenSumSet(LAMBDA s : Len(s.picks), SalesOf(a))
          /\ (\A s \in SalesOf(a) : s.rates = <<FeeBase, FeePerTicket>>)
               => MapThenSumSet(LAMBDA s : s.fee, SalesOf(a)) = calculateRelayFee(n)
=============================================================================
