--------------------------- MODULE SettlementProofs ---------------------------
(***************************************************************************)
(* Theorems about the settlement of drawings, for any tickets, drawings,   *)
(* prize tables, page sizes and number of processes.                       *)
(***************************************************************************)
EXTENDS Settlement, FiniteSetTheorems, TLAPS

\* The tickets a pass selects, as a function of the tables it reads.
Selected(tk, od, en, e) ==
    {t \in Tickets : tk[t].win = "DRAW_PENDING" /\ OrderOf[t] \in od /\ en[OrderOf[t]] = e}

\* What the locals of a process are worth, whatever the others did since
\* it read them: the tickets of its page entered its drawing, a page that is
\* not full holds all that is left, and before the watermark nothing is.
Good(l, tk, od, en) ==
    /\ l.pc \in {"page", "grade", "mark"} => l.epoch \in Epochs
    /\ l.pc = "grade" =>
         \A t \in l.page : OrderOf[t] \in od /\ en[OrderOf[t]] = l.epoch
    /\ OrdersInTime /\ l.pc = "mark" => Selected(tk, od, en, l.epoch) = {}
    /\ OrdersInTime /\ l.pc = "grade" /\ Cardinality(l.page) < PageSize =>
         Selected(tk, od, en, l.epoch) \subseteq l.page

\* One graded ticket.
Right(x, t, od, en) ==
    x.win # "DRAW_PENDING" =>
      /\ OrderOf[t] \in od
      /\ LET gross == Gross[en[OrderOf[t]]][calcTierId(t, en[OrderOf[t]])]
             share == gross - x.amount
         IN  share * 10000 <= gross * ReferralBps /\ (share + 1) * 10000 > gross * ReferralBps
      /\ x.win = "LOST" <=> x.amount = 0

OrderInv == \A o \in order : entered[o] # 0
MeInv == \A p \in Processes : Good(me[p], ticket, order, entered)
RightInv == \A t \in Tickets : Right(ticket[t], t, order, entered)
MarkInv ==
    OrdersInTime => \A e \in Epochs : row[e].settled => Selected(ticket, order, entered, e) = {}
IInv == TypeOK /\ OrderInv /\ MeInv /\ RightInv /\ MarkInv

-----------------------------------------------------------------------------
\* The invariant's own operators are those of the specification.
LEMMA Gradables == \A e : Gradable(e) = Selected(ticket, order, entered, e)
BY DEF Gradable, Selected

LEMMA RightMeansRight == RightInv <=> GradeIsRight
BY DEF RightInv, Right, GradeIsRight, Receives

\* Rounding the share down.
LEMMA ShareRounds ==
    ASSUME NEW x \in Nat
    PROVE  /\ x \div 10000 \in Nat
           /\ (x \div 10000) * 10000 <= x
           /\ (x \div 10000 + 1) * 10000 > x
OBVIOUS

LEMMA Products == \A m, n \in Nat : m * n \in Nat
OBVIOUS

\* A grade carries what the vault receives, and is LOST exactly for nothing.
LEMMA GradeRight ==
    ASSUME SettlementConstants, NEW t \in Tickets, NEW e \in Epochs
    PROVE  /\ Grade(t, e) \in TicketSet
           /\ Grade(t, e).win \in {"LOST", "WON_UNCLAIMED", "WON_FREE_TICKET"}
           /\ Grade(t, e).win = "LOST" <=> Grade(t, e).amount = 0
           /\ LET gross == Gross[e][calcTierId(t, e)]
                  share == gross - Grade(t, e).amount
              IN  share * 10000 <= gross * ReferralBps /\ (share + 1) * 10000 > gross * ReferralBps
<1> DEFINE i == calcTierId(t, e)
           gross == Gross[e][i]
           net == Net(t, e)
           x == gross * ReferralBps
<1>1. TierTable(e)
  BY TierTables
<1>2. /\ i \in DOMAIN Gross[e] /\ gross \in Nat
      /\ ReferralBps \in Nat /\ ReferralBps < 10000
  BY <1>1 DEF SettlementConstants, TierTable
<1>3. x \in Nat /\ x <= gross * 10000
  <2>1. x \in Nat
    BY <1>2, Products
  <2>2. x <= gross * 10000
    BY <1>2
  <2> QED
    BY <2>1, <2>2
<1> HIDE DEF x
<1>4. /\ x \div 10000 \in Nat /\ (x \div 10000) * 10000 <= x
      /\ (x \div 10000 + 1) * 10000 > x
  BY <1>3, ShareRounds
<1>5. applyReferralShare(gross) = gross - x \div 10000
  BY DEF applyReferralShare, x
<1>6. net \in Nat /\ (gross - net) * 10000 <= x /\ (gross - net + 1) * 10000 > x
  <2>1. CASE i = 0
    <3>1. gross = 0 /\ x = 0
      BY <1>1, <1>2, <2>1 DEF TierTable, x
    <3>2. net = 0
      BY <2>1 DEF Net, processPrizeTiers
    <3> QED
      BY <3>1, <3>2
  <2>2. CASE i # 0
    <3>1. net = applyReferralShare(gross)
      BY <1>2, <2>2 DEF Net, processPrizeTiers
    <3>2. net = gross - x \div 10000
      BY <1>5, <3>1
    <3>3. gross - net = x \div 10000
      BY <1>2, <1>4, <3>2
    <3>4. x \div 10000 <= gross
      BY <1>2, <1>3, <1>4
    <3>5. net \in Nat
      BY <1>2, <1>4, <3>2, <3>4
    <3> HIDE DEF net, gross
    <3> QED
      BY <1>4, <3>3, <3>5
  <2> QED
    BY <2>1, <2>2
<1> HIDE DEF net, i, gross
<1>7. Grade(t, e) = IF net = 0 THEN [win |-> "LOST", amount |-> 0, free |-> FALSE]
        ELSE [win |-> IF i \in FreeTicketTiers THEN "WON_FREE_TICKET" ELSE "WON_UNCLAIMED",
              amount |-> net, free |-> i \in FreeTicketTiers]
  BY DEF Grade, net, i
<1> DEFINE f == i \in FreeTicketTiers
<1>f. f \in BOOLEAN
  OBVIOUS
<1> HIDE DEF f
<1>8. /\ Grade(t, e).amount = net
      /\ Grade(t, e).win = IF net = 0 THEN "LOST"
                           ELSE IF i \in FreeTicketTiers THEN "WON_FREE_TICKET" ELSE "WON_UNCLAIMED"
      /\ Grade(t, e) \in TicketSet
  <2>1. CASE net = 0
    <3>1. Grade(t, e) = [win |-> "LOST", amount |-> 0, free |-> FALSE]
      BY <1>7, <2>1
    <3>2. [win |-> "LOST", amount |-> 0, free |-> FALSE] \in TicketSet
      BY DEF TicketSet
    <3> QED
      BY <2>1, <3>1, <3>2
  <2>2. CASE net # 0 /\ i \in FreeTicketTiers
    <3>1. Grade(t, e) = [win |-> "WON_FREE_TICKET", amount |-> net, free |-> f]
      BY <1>7, <2>2 DEF f
    <3>2. [win |-> "WON_FREE_TICKET", amount |-> net, free |-> f] \in TicketSet
      BY <1>6, <1>f DEF TicketSet
    <3>3. Grade(t, e).amount = net /\ Grade(t, e).win = "WON_FREE_TICKET"
      BY <3>1
    <3> QED
      BY <2>2, <3>1, <3>2, <3>3
  <2>3. CASE net # 0 /\ i \notin FreeTicketTiers
    <3>1. Grade(t, e) = [win |-> "WON_UNCLAIMED", amount |-> net, free |-> f]
      BY <1>7, <2>3 DEF f
    <3>2. [win |-> "WON_UNCLAIMED", amount |-> net, free |-> f] \in TicketSet
      BY <1>6, <1>f DEF TicketSet
    <3>3. Grade(t, e).amount = net /\ Grade(t, e).win = "WON_UNCLAIMED"
      BY <3>1
    <3> QED
      BY <2>3, <3>1, <3>2, <3>3
  <2> QED
    BY <2>1, <2>2, <2>3
<1>9. /\ (gross - Grade(t, e).amount) * 10000 <= x
      /\ (gross - Grade(t, e).amount + 1) * 10000 > x
  BY <1>6, <1>8
<1>10. /\ Grade(t, e).win \in {"LOST", "WON_UNCLAIMED", "WON_FREE_TICKET"}
       /\ Grade(t, e).win = "LOST" <=> Grade(t, e).amount = 0
  BY <1>8
<1> QED
  BY <1>8, <1>9, <1>10 DEF gross, i, x

-----------------------------------------------------------------------------
\* Fields of the locals.
LEMMA LocalFields ==
    ASSUME NEW l \in Locals
    PROVE  /\ l.pc \in Stages /\ l.heal \subseteq Epochs /\ l.page \subseteq Tickets
           /\ l.todo \in Todos
           /\ l.epoch \in 0..MaxDrawing /\ l.pages \in Nat
BY DEF Locals

\* A sleeping process.
LEMMA AsleepIsLocal ==
    ASSUME SettlementConstants
    PROVE  Asleep \in Locals /\ Asleep.pc = "idle"
<1>1. 0 \in 0..MaxDrawing /\ {} \in Todos /\ "idle" \in Stages
  BY DEF SettlementConstants, Todos, Stages
<1>2. Asleep \in Locals
  BY <1>1 DEF Asleep, Locals
<1> QED
  BY <1>2 DEF Asleep

\* Initially no order has its tickets and no process is at work.
LEMMA InitInv ==
    ASSUME SettlementConstants, Init
    PROVE  IInv
<1>1. Pending \in TicketSet /\ Asleep \in Locals /\ Asleep.pc = "idle"
  <2>1. Pending \in TicketSet
    BY DEF Pending, TicketSet
  <2> QED
    BY <2>1, AsleepIsLocal
<1>2. TypeOK
  <2>1. drawing \in 1..(MaxDrawing + 1) /\ faults \in 0..MaxFaults
    BY DEF Init, SettlementConstants
  <2>2. api \in [Epochs -> {"live", "empty", "net"}]
    BY DEF Init
  <2>3. entered \in [Orders -> 0..MaxDrawing] /\ order \subseteq Orders
    BY DEF Init, SettlementConstants
  <2>4. ticket \in [Tickets -> TicketSet] /\ me \in [Processes -> Locals]
    BY <1>1 DEF Init
  <2>5. row \in [Epochs -> RowSet]
    BY DEF Init, RowSet
  <2>6. sync \in [on : BOOLEAN, highest : 0..MaxDrawing, next : 0..MaxDrawing]
    BY DEF Init, NotSyncing, SettlementConstants
  <2> QED
    BY <2>1, <2>2, <2>3, <2>4, <2>5, <2>6 DEF TypeOK
<1>3. OrderInv
  BY DEF Init, OrderInv
<1>4. MeInv
  BY <1>1 DEF Init, MeInv, Good
<1>5. RightInv
  BY DEF Init, RightInv, Right, Pending
<1>6. MarkInv
  BY DEF Init, MarkInv, Selected
<1> QED
  BY <1>2, <1>3, <1>4, <1>5, <1>6 DEF IInv

\* A step that leaves tickets and orders alone keeps what is said of them.
LEMMA TablesFrame ==
    ASSUME IInv, UNCHANGED <<ticket, entered, order>>
    PROVE  /\ OrderInv' /\ RightInv'
           /\ me' = me => MeInv'
           /\ (\A e \in Epochs : row'[e].settled => row[e].settled) => MarkInv'
<1>1. OrderInv' /\ RightInv'
  BY DEF IInv, OrderInv, RightInv
<1>2. me' = me => MeInv'
  BY DEF IInv, MeInv
<1>3. ASSUME \A e \in Epochs : row'[e].settled => row[e].settled
      PROVE  MarkInv'
  BY <1>3 DEF IInv, MarkInv
<1> QED
  BY <1>1, <1>2, <1>3

\* A process that only moves on has its locals to show for.
LEMMA LocalStep ==
    ASSUME IInv, UNCHANGED <<ticket, entered, order>>,
           \A q \in Processes : me'[q] = me[q] \/ Good(me'[q], ticket, order, entered)
    PROVE  MeInv'
<1>1. ASSUME NEW q \in Processes
      PROVE  Good(me'[q], ticket', order', entered')
  BY DEF IInv, MeInv
<1> QED
  BY <1>1 DEF MeInv

\* upsertSettledEpoch writes a table and no watermark.
LEMMA UpsertedType ==
    ASSUME IInv, NEW e \in Epochs
    PROVE  /\ Upserted(e) \in [Epochs -> RowSet]
           /\ \A d \in Epochs : Upserted(e)[d].settled = row[d].settled
<1>1. row \in [Epochs -> RowSet] /\ api[e] \in {"live", "empty", "net"}
  BY DEF IInv, TypeOK
<1>2. CASE api[e] = "live"
  BY <1>1, <1>2 DEF Upserted
<1>3. CASE api[e] # "live"
  <2>1. Upserted(e) = [row EXCEPT ![e].tiers = api[e]]
    BY <1>3 DEF Upserted
  <2>2. row[e] \in RowSet
    BY <1>1
  <2>3. /\ [row[e] EXCEPT !.tiers = api[e]] \in RowSet
        /\ [row[e] EXCEPT !.tiers = api[e]].settled = row[e].settled
    BY <1>1, <1>3, <2>2 DEF RowSet
  <2> QED
    BY <1>1, <2>1, <2>3
<1> QED
  BY <1>2, <1>3

\* Megapot, the transition and the backfill touch neither tickets, orders
\* nor watermarks.
LEMMA OutsideInv ==
    ASSUME SettlementConstants, IInv, Megapot \/ TransitionUpsert \/ Backfill
    PROVE  IInv'
<1> USE DEF Epochs
<1>0. /\ drawing \in 1..(MaxDrawing + 1) /\ MaxDrawing \in Nat /\ MaxFaults \in Nat
      /\ faults \in 0..MaxFaults /\ api \in [Epochs -> {"live", "empty", "net"}]
      /\ row \in [Epochs -> RowSet]
      /\ sync \in [on : BOOLEAN, highest : 0..MaxDrawing, next : 0..MaxDrawing]
  BY DEF IInv, TypeOK, SettlementConstants
<1>f. Fault => faults' \in 0..MaxFaults
  BY <1>0 DEF Fault
<1>1. UNCHANGED <<ticket, entered, order, me>>
  BY DEF Megapot, Draw, Post, TransitionUpsert, Backfill, StartBackfill, BackfillNext,
         BackfillHalts, BackfillFails, relay
<1>2. drawing' \in 1..(MaxDrawing + 1)
  <2>1. CASE Draw
    BY <1>0, <2>1 DEF Draw
  <2>2. CASE drawing' = drawing
    BY <1>0, <2>2
  <2> QED
    BY <2>1, <2>2 DEF Megapot, Post, TransitionUpsert, Backfill, StartBackfill,
         BackfillNext, BackfillHalts, BackfillFails, megapot
<1>3. api' \in [Epochs -> {"live", "empty", "net"}]
  <2>1. ASSUME NEW e \in Epochs, Post(e)
        PROVE  api' \in [Epochs -> {"live", "empty", "net"}]
    <3>1. api' = [api EXCEPT ![e] = "empty"] \/ api' = [api EXCEPT ![e] = "net"]
      BY <2>1 DEF Post
    <3> QED
      BY <1>0, <3>1
  <2>2. CASE api' = api
    BY <1>0, <2>2
  <2> QED
    BY <2>1, <2>2 DEF Megapot, Draw, TransitionUpsert, Backfill, StartBackfill,
         BackfillNext, BackfillHalts, BackfillFails, megapot
<1>4. faults' \in 0..MaxFaults
  BY <1>0, <1>f DEF Megapot, Draw, Post, TransitionUpsert, Backfill, StartBackfill,
         BackfillNext, BackfillHalts, BackfillFails
<1>5. sync' \in [on : BOOLEAN, highest : 0..MaxDrawing, next : 0..MaxDrawing]
  <2>1. CASE StartBackfill
    <3>1. PICK h \in 0..MaxDrawing :
            sync' = [on |-> TRUE, highest |-> h, next |-> drawing - 1]
      BY ONLY <2>1 DEF StartBackfill
    <3>2. drawing - 1 \in 0..MaxDrawing
      BY <1>0
    <3> QED
      BY <3>1, <3>2
  <2>2. CASE BackfillNext
    <3>1. /\ sync' = [sync EXCEPT !.next = sync.next - 1]
          /\ sync.next > sync.highest
      BY <2>2 DEF BackfillNext
    <3>2. sync.next - 1 \in 0..MaxDrawing
      BY <1>0, <3>1
    <3> QED
      BY <1>0, <3>1, <3>2
  <2>3. CASE sync' = NotSyncing
    BY <1>0, <2>3 DEF NotSyncing
  <2>4. CASE sync' = sync
    BY <1>0, <2>4
  <2> QED
    BY <2>1, <2>2, <2>3, <2>4 DEF Megapot, Draw, Post, TransitionUpsert, Backfill,
         BackfillHalts, BackfillFails
<1>6. /\ row' \in [Epochs -> RowSet]
      /\ \A e \in Epochs : row'[e].settled => row[e].settled
  <2>1. CASE TransitionUpsert
    <3>1. drawing - 1 \in Epochs /\ row' = Upserted(drawing - 1)
      BY <1>0, <2>1 DEF TransitionUpsert
    <3> QED
      BY <3>1, UpsertedType
  <2>2. CASE BackfillNext
    <3>1. /\ row' = Upserted(sync.next)
          /\ sync.next > sync.highest
      BY <2>2 DEF BackfillNext
    <3>2. sync.next \in Epochs
      BY <1>0, <3>1
    <3> QED
      BY <3>1, <3>2, UpsertedType
  <2>3. CASE row' = row
    BY <1>0, <2>3
  <2> QED
    BY <2>1, <2>2, <2>3 DEF Megapot, Draw, Post, Backfill, StartBackfill,
         BackfillHalts, BackfillFails
<1>7. TypeOK'
  BY <1>1, <1>2, <1>3, <1>4, <1>5, <1>6 DEF IInv, TypeOK
<1>8. OrderInv' /\ RightInv' /\ MeInv' /\ MarkInv'
  BY <1>1, <1>6, TablesFrame
<1> QED
  BY <1>7, <1>8 DEF IInv

-----------------------------------------------------------------------------
\* What is said of successful orders does not depend on the others.
LEMMA SameSelection ==
    ASSUME NEW tk, NEW od, NEW en, NEW en2, \A x \in od : en2[x] = en[x]
    PROVE  /\ \A e : Selected(tk, od, en2, e) = Selected(tk, od, en, e)
           /\ \A l : Good(l, tk, od, en) => Good(l, tk, od, en2)
<1>1. \A e : Selected(tk, od, en2, e) = Selected(tk, od, en, e)
  BY DEF Selected
<1>2. ASSUME NEW l, Good(l, tk, od, en)
      PROVE  Good(l, tk, od, en2)
  <2>1. l.pc \in {"page", "grade", "mark"} => l.epoch \in Epochs
    BY <1>2 DEF Good
  <2>2. l.pc = "grade" => \A t \in l.page : OrderOf[t] \in od /\ en2[OrderOf[t]] = l.epoch
    BY <1>2 DEF Good
  <2>3. OrdersInTime /\ l.pc = "mark" => Selected(tk, od, en2, l.epoch) = {}
    BY <1>1, <1>2 DEF Good
  <2>4. OrdersInTime /\ l.pc = "grade" /\ Cardinality(l.page) < PageSize =>
          Selected(tk, od, en2, l.epoch) \subseteq l.page
    BY <1>1, <1>2 DEF Good
  <2> QED
    BY <2>1, <2>2, <2>3, <2>4 DEF Good
<1> QED
  BY <1>1, <1>2

\* Grading only shrinks what a pass has left.
LEMMA FewerLeft ==
    ASSUME NEW tk, NEW tk2, NEW od, NEW en,
           \A t \in Tickets : tk2[t].win = "DRAW_PENDING" => tk[t].win = "DRAW_PENDING"
    PROVE  /\ \A e : Selected(tk2, od, en, e) \subseteq Selected(tk, od, en, e)
           /\ \A l : Good(l, tk, od, en) => Good(l, tk2, od, en)
<1>1. \A e : Selected(tk2, od, en, e) \subseteq Selected(tk, od, en, e)
  BY DEF Selected
<1>2. ASSUME NEW l, Good(l, tk, od, en)
      PROVE  Good(l, tk2, od, en)
  <2>1. Selected(tk2, od, en, l.epoch) \subseteq Selected(tk, od, en, l.epoch)
    BY <1>1
  <2>2. OrdersInTime /\ l.pc = "mark" => Selected(tk2, od, en, l.epoch) = {}
    BY <1>2, <2>1 DEF Good
  <2>3. OrdersInTime /\ l.pc = "grade" /\ Cardinality(l.page) < PageSize =>
          Selected(tk2, od, en, l.epoch) \subseteq l.page
    BY <1>2, <2>1 DEF Good
  <2> QED
    BY <1>2, <2>2, <2>3 DEF Good
<1> QED
  BY <1>1, <1>2

\* An order buys its tickets before it can be SUCCESS.
LEMMA BuyInv ==
    ASSUME SettlementConstants, IInv, NEW o \in Orders, Buy(o)
    PROVE  IInv'
<1>1. /\ entered \in [Orders -> 0..MaxDrawing] /\ order \subseteq Orders
      /\ entered' = [entered EXCEPT ![o] = drawing] /\ drawing \in Epochs
      /\ entered[o] = 0
      /\ UNCHANGED <<drawing, api, order, ticket, row, me, sync, faults>>
  BY DEF IInv, TypeOK, Buy, megapot
<1>2. entered' \in [Orders -> 0..MaxDrawing]
  <2>1. drawing \in 0..MaxDrawing
    BY <1>1 DEF Epochs, SettlementConstants
  <2> QED
    BY <1>1, <2>1
<1>3. \A x \in order : entered'[x] = entered[x]
  BY <1>1 DEF IInv, OrderInv
<1>4. TypeOK'
  BY <1>1, <1>2 DEF IInv, TypeOK
<1>5. OrderInv'
  BY <1>1, <1>3 DEF IInv, OrderInv
<1>6. ASSUME NEW t \in Tickets
      PROVE  Right(ticket'[t], t, order', entered')
  <2>0. ticket' = ticket /\ order' = order
    BY <1>1
  <2>1. Right(ticket[t], t, order, entered)
    BY DEF IInv, RightInv
  <2>2. CASE OrderOf[t] \in order
    <3>1. entered'[OrderOf[t]] = entered[OrderOf[t]]
      BY <1>3, <2>2
    <3> QED
      BY <2>0, <2>1, <3>1 DEF Right
  <2>3. CASE OrderOf[t] \notin order
    BY <2>0, <2>1, <2>3 DEF Right
  <2> QED
    BY <2>2, <2>3
<1>7. RightInv'
  BY <1>6 DEF RightInv
<1>s. /\ \A e : Selected(ticket, order, entered', e) = Selected(ticket, order, entered, e)
      /\ \A l : Good(l, ticket, order, entered) => Good(l, ticket, order, entered')
  BY <1>3, SameSelection
<1>t. ticket' = ticket /\ order' = order /\ me' = me
  BY <1>1
<1>m. ASSUME NEW q \in Processes
      PROVE  Good(me'[q], ticket', order', entered')
  BY <1>s, <1>t DEF IInv, MeInv
<1>8. MeInv'
  BY <1>m DEF MeInv
<1>9. MarkInv'
  <2>1. ASSUME OrdersInTime, NEW e \in Epochs, row'[e].settled
        PROVE  Selected(ticket', order', entered', e) = {}
    <3>1. Selected(ticket, order, entered, e) = {}
      BY <1>1, <2>1 DEF IInv, MarkInv
    <3> QED
      BY <1>s, <1>t, <3>1
  <2> QED
    BY <2>1 DEF MarkInv
<1> QED
  BY <1>4, <1>5, <1>7, <1>8, <1>9 DEF IInv

\* An order that is SUCCESS in time joins no pass that is about to end.
LEMMA SucceedInv ==
    ASSUME SettlementConstants, IInv, NEW o \in Orders, Succeed(o)
    PROVE  IInv'
<1>1. /\ order' = order \cup {o} /\ entered[o] # 0
      /\ UNCHANGED <<drawing, api, entered, ticket, row, me, sync, faults>>
  BY DEF Succeed, megapot
<1>2. TypeOK'
  BY <1>1 DEF IInv, TypeOK
<1>3. OrderInv'
  BY <1>1 DEF IInv, OrderInv
<1>4. ASSUME NEW t \in Tickets
      PROVE  Right(ticket'[t], t, order', entered')
  <2>1. Right(ticket[t], t, order, entered)
    BY DEF IInv, RightInv
  <2> QED
    BY <1>1, <2>1 DEF Right
<1>5. RightInv'
  BY <1>4 DEF RightInv
<1>6. \A e : e # entered[o] =>
        Selected(ticket, order', entered, e) = Selected(ticket, order, entered, e)
  BY <1>1 DEF Selected
<1>7. ASSUME NEW q \in Processes
      PROVE  Good(me[q], ticket, order', entered)
  <2>1. Good(me[q], ticket, order, entered)
    BY DEF IInv, MeInv
  <2>2. OrdersInTime => me[q].epoch # entered[o] \/ me[q].pc \notin {"grade", "mark"}
    BY DEF Succeed, Settling
  <2>3. OrdersInTime /\ me[q].pc = "mark" =>
          Selected(ticket, order', entered, me[q].epoch) = {}
    BY <1>6, <2>1, <2>2 DEF Good
  <2>4. OrdersInTime /\ me[q].pc = "grade" /\ Cardinality(me[q].page) < PageSize =>
          Selected(ticket, order', entered, me[q].epoch) \subseteq me[q].page
    BY <1>6, <2>1, <2>2 DEF Good
  <2>5. me[q].pc = "grade" =>
          \A t \in me[q].page : OrderOf[t] \in order' /\ entered[OrderOf[t]] = me[q].epoch
    BY <1>1, <2>1 DEF Good
  <2> QED
    BY <2>1, <2>3, <2>4, <2>5 DEF Good
<1>t. ticket' = ticket /\ entered' = entered /\ me' = me
  BY <1>1
<1>m. ASSUME NEW q \in Processes
      PROVE  Good(me'[q], ticket', order', entered')
  BY <1>7, <1>t
<1>8. MeInv'
  BY <1>m DEF MeInv
<1>9. MarkInv'
  <2>1. OrdersInTime => ~row[entered[o]].settled
    BY DEF Succeed
  <2>2. ASSUME OrdersInTime, NEW e \in Epochs, row'[e].settled
        PROVE  Selected(ticket', order', entered', e) = {}
    <3>1. Selected(ticket, order, entered, e) = {} /\ e # entered[o]
      BY <1>1, <2>1, <2>2 DEF IInv, MarkInv
    <3> QED
      BY <1>6, <1>t, <3>1
  <2> QED
    BY <2>2 DEF MarkInv
<1> QED
  BY <1>2, <1>3, <1>5, <1>8, <1>9 DEF IInv

\* The harvest credits a ticket for the amount of its grade.
LEMMA HarvestInv ==
    ASSUME SettlementConstants, IInv, NEW t \in Tickets, Harvest(t)
    PROVE  IInv'
<1>1. /\ ticket \in [Tickets -> TicketSet]
      /\ ticket[t].win \in {"WON_UNCLAIMED", "WON_FREE_TICKET"}
      /\ ticket' = [ticket EXCEPT ![t] = [ticket[t] EXCEPT !.win = "CLAIMED_ON_BASE"]]
      /\ UNCHANGED <<drawing, api, entered, order, row, me, sync, faults>>
  BY DEF IInv, TypeOK, Harvest, megapot, relay
<1>2. /\ [ticket[t] EXCEPT !.win = "CLAIMED_ON_BASE"] \in TicketSet
      /\ ticket'[t].win = "CLAIMED_ON_BASE" /\ ticket'[t].amount = ticket[t].amount
      /\ \A u \in Tickets : u # t => ticket'[u] = ticket[u]
  <2>1. ticket[t] \in TicketSet
    BY <1>1
  <2>2. /\ [ticket[t] EXCEPT !.win = "CLAIMED_ON_BASE"] \in TicketSet
        /\ [ticket[t] EXCEPT !.win = "CLAIMED_ON_BASE"].win = "CLAIMED_ON_BASE"
        /\ [ticket[t] EXCEPT !.win = "CLAIMED_ON_BASE"].amount = ticket[t].amount
    BY <2>1 DEF TicketSet
  <2> QED
    BY <1>1, <2>2
<1>3. TypeOK'
  <2>1. ticket' \in [Tickets -> TicketSet]
    BY <1>1, <1>2
  <2> QED
    BY <1>1, <2>1 DEF IInv, TypeOK
<1>4. OrderInv'
  BY <1>1 DEF IInv, OrderInv
<1>t. order' = order /\ entered' = entered /\ me' = me
  BY <1>1
<1>5. ASSUME NEW u \in Tickets
      PROVE  Right(ticket'[u], u, order', entered')
  <2>1. Right(ticket[u], u, order, entered)
    BY DEF IInv, RightInv
  <2>2. CASE u = t
    <3>1. /\ ticket[t].win # "DRAW_PENDING" /\ ticket[t].win # "LOST"
          /\ ticket'[t].win # "LOST"
      BY <1>1, <1>2
    <3>2. ticket'[t].amount # 0 /\ ticket'[t].amount = ticket[t].amount
      BY <1>2, <2>1, <2>2, <3>1 DEF Right
    <3> QED
      BY <1>t, <2>1, <2>2, <3>1, <3>2 DEF Right
  <2>3. CASE u # t
    BY <1>2, <1>t, <2>1, <2>3
  <2> QED
    BY <2>2, <2>3
<1>6. RightInv'
  BY <1>5 DEF RightInv
<1>7. \A u \in Tickets : ticket'[u].win = "DRAW_PENDING" => ticket[u].win = "DRAW_PENDING"
  BY <1>1, <1>2
<1>s. /\ \A e : Selected(ticket', order, entered, e) \subseteq Selected(ticket, order, entered, e)
      /\ \A l : Good(l, ticket, order, entered) => Good(l, ticket', order, entered)
  BY ONLY <1>7, FewerLeft
<1>m. ASSUME NEW q \in Processes
      PROVE  Good(me'[q], ticket', order', entered')
  BY <1>s, <1>t DEF IInv, MeInv
<1>8. MeInv'
  BY <1>m DEF MeInv
<1>9. MarkInv'
  <2>1. ASSUME OrdersInTime, NEW e \in Epochs, row'[e].settled
        PROVE  Selected(ticket', order', entered', e) = {}
    <3>1. Selected(ticket, order, entered, e) = {}
      BY <1>1, <2>1 DEF IInv, MarkInv
    <3> QED
      BY <1>s, <1>t, <3>1
  <2> QED
    BY <2>1 DEF MarkInv
<1> QED
  BY <1>3, <1>4, <1>6, <1>8, <1>9 DEF IInv

-----------------------------------------------------------------------------
\* A step of a process that writes no table.
LEMMA QuietStep ==
    ASSUME SettlementConstants, IInv,
           me' \in [Processes -> Locals],
           \A q \in Processes : me'[q] = me[q] \/ Good(me'[q], ticket, order, entered),
           faults' \in 0..MaxFaults,
           UNCHANGED <<drawing, api, ticket, entered, order, row, sync>>
    PROVE  IInv'
<1>1. MeInv'
  <2>1. UNCHANGED <<ticket, entered, order>>
    OBVIOUS
  <2> QED
    BY <2>1, LocalStep
<1>2. OrderInv' /\ RightInv' /\ MarkInv'
  <2>1. /\ \A e \in Epochs : row'[e].settled => row[e].settled
        /\ UNCHANGED <<ticket, entered, order>>
    OBVIOUS
  <2> QED
    BY <2>1, TablesFrame
<1>3. TypeOK'
  BY DEF IInv, TypeOK
<1> QED
  BY <1>1, <1>2, <1>3 DEF IInv

\* Between epochs a process holds nothing.
LEMMA IdleIsGood ==
    ASSUME NEW l, l.pc \in {"idle", "heal", "next"}, NEW tk, NEW od, NEW en
    PROVE  Good(l, tk, od, en)
BY DEF Good

LEMMA StartInv ==
    ASSUME SettlementConstants, IInv, NEW p \in Processes, Start(p)
    PROVE  IInv'
<1> DEFINE h == {e \in Epochs : Gradable(e) # {}}
           l == [Asleep EXCEPT !.pc = "heal", !.heal = h]
<1>1. /\ me' = [me EXCEPT ![p] = l]
      /\ UNCHANGED <<drawing, api, ticket, entered, order, row, sync, faults>>
  BY DEF Start, megapot, relay
<1>2. h \subseteq Epochs
  OBVIOUS
<1> HIDE DEF h
<1>3. l \in Locals /\ l.pc = "heal"
  <2>1. Asleep \in Locals /\ "heal" \in Stages
    BY AsleepIsLocal DEF Stages
  <2> DEFINE k == [Asleep EXCEPT !.pc = "heal"]
  <2>2. k \in Locals /\ k.pc = "heal"
    BY <2>1 DEF Locals
  <2>3. l = [k EXCEPT !.heal = h]
    BY <2>1 DEF Locals
  <2> HIDE DEF k, l
  <2> QED
    BY <1>2, <2>2, <2>3 DEF Locals
<1>p. me \in [Processes -> Locals]
  BY DEF IInv, TypeOK
<1> HIDE DEF l
<1>4. Good(l, ticket, order, entered)
  BY <1>3, IdleIsGood
<1>5. faults' \in 0..MaxFaults
  BY <1>1 DEF IInv, TypeOK
<1>6. /\ me' \in [Processes -> Locals]
      /\ \A q \in Processes : me'[q] = me[q] \/ Good(me'[q], ticket, order, entered)
  BY <1>1, <1>3, <1>4, <1>p
<1> QED
  BY <1>1, <1>5, <1>6, QuietStep

LEMMA ListInv ==
    ASSUME SettlementConstants, IInv, NEW p \in Processes, List(p)
    PROVE  IInv'
<1> DEFINE d == {<<e, row[e].tiers>> : e \in {x \in Epochs : Stored(x) /\ ~row[x].settled}}
           l == [me[p] EXCEPT !.pc = "next", !.todo = d]
<1>1. /\ me' = [me EXCEPT ![p] = l]
      /\ UNCHANGED <<drawing, api, ticket, entered, order, row, sync, faults>>
  <2>1. me \in [Processes -> Locals]
    BY DEF IInv, TypeOK
  <2> QED
    BY <2>1 DEF List, megapot, relay
<1>2. d \in Todos
  <2>1. \A e \in Epochs : row[e].tiers \in {"absent", "empty", "net"}
    BY DEF IInv, TypeOK, RowSet
  <2> QED
    BY <2>1 DEF Todos
<1> HIDE DEF d
<1>3. l \in Locals /\ l.pc = "next"
  <2>1. me[p] \in Locals /\ "next" \in Stages
    BY DEF IInv, TypeOK, Stages
  <2> DEFINE k == [me[p] EXCEPT !.pc = "next"]
  <2>2. k \in Locals /\ k.pc = "next"
    BY <2>1 DEF Locals
  <2>3. l = [k EXCEPT !.todo = d]
    BY <2>1 DEF Locals
  <2> HIDE DEF k, l
  <2> QED
    BY <1>2, <2>2, <2>3 DEF Locals
<1>p. me \in [Processes -> Locals]
  BY DEF IInv, TypeOK
<1> HIDE DEF l
<1>4. Good(l, ticket, order, entered)
  BY <1>3, IdleIsGood
<1>5. faults' \in 0..MaxFaults
  BY <1>1 DEF IInv, TypeOK
<1>6. /\ me' \in [Processes -> Locals]
      /\ \A q \in Processes : me'[q] = me[q] \/ Good(me'[q], ticket, order, entered)
  BY <1>1, <1>3, <1>4, <1>p
<1> QED
  BY <1>1, <1>5, <1>6, QuietStep

LEMMA NextEpochInv ==
    ASSUME SettlementConstants, IInv, NEW p \in Processes, NextEpoch(p)
    PROVE  IInv'
<1>p. me \in [Processes -> Locals]
  BY DEF IInv, TypeOK
<1>1. PICK x \in me[p].todo : settleEpoch(p, x)
  BY DEF NextEpoch
<1>2. /\ At(p, "next")
      /\ UNCHANGED <<drawing, api, ticket, entered, order, row, sync, faults>>
  BY DEF NextEpoch, megapot, relay
<1>3. me[p] \in Locals /\ Asleep \in Locals /\ me[p].pc = "next"
  BY <1>p, <1>2, AsleepIsLocal DEF At
<1> DEFINE d == me[p].todo \ {x}
           n == x[1]
           l == IF x[2] = "net" THEN [Asleep EXCEPT !.pc = "page", !.todo = d, !.epoch = n]
                ELSE [me[p] EXCEPT !.todo = d]
<1>l. me' = [me EXCEPT ![p] = l]
  BY <1>p, <1>1 DEF settleEpoch
<1>4. n \in Epochs /\ n \in 0..MaxDrawing /\ d \in Todos
  <2>1. me[p].todo \in Todos
    BY <1>3 DEF Locals
  <2>2. n \in Epochs /\ d \in Todos
    BY <2>1 DEF Todos
  <2> QED
    BY <2>2 DEF Epochs, SettlementConstants
<1> HIDE DEF d, n
<1>5. /\ x[2] = "net" => l = [Asleep EXCEPT !.pc = "page", !.todo = d, !.epoch = n]
      /\ x[2] # "net" => l = [me[p] EXCEPT !.todo = d]
  OBVIOUS
<1> HIDE DEF l
<1>6. l \in Locals /\ Good(l, ticket, order, entered)
  <2>1. CASE x[2] = "net"
    <3>1. l = [Asleep EXCEPT !.pc = "page", !.todo = d, !.epoch = n]
      BY <1>5, <2>1
    <3>p. "page" \in Stages
      BY DEF Stages
    <3> DEFINE k == [Asleep EXCEPT !.pc = "page"]
               j == [k EXCEPT !.todo = d]
    <3>q. k \in Locals
      BY <1>3, <3>p DEF Locals
    <3>r. l = [j EXCEPT !.epoch = n]
      BY <1>3, <3>1 DEF Locals
    <3> HIDE DEF k
    <3>s. j \in Locals
      BY <1>4, <3>q DEF Locals
    <3> HIDE DEF j
    <3>2. l \in Locals
      BY <1>4, <3>r, <3>s DEF Locals
    <3>3. l.pc = "page" /\ l.epoch = n
      BY <1>3, <3>1 DEF Locals
    <3> QED
      BY <1>4, <3>2, <3>3 DEF Good
  <2>2. CASE x[2] # "net"
    <3>1. l = [me[p] EXCEPT !.todo = d]
      BY <1>5, <2>2
    <3>2. l \in Locals /\ l.pc = "next"
      BY <1>3, <1>4, <3>1 DEF Locals
    <3> QED
      BY <3>2, IdleIsGood
  <2> QED
    BY <2>1, <2>2
<1>7. /\ me' \in [Processes -> Locals]
      /\ \A q \in Processes : me'[q] = me[q] \/ Good(me'[q], ticket, order, entered)
  BY <1>p, <1>l, <1>6
<1>8. faults' \in 0..MaxFaults
  BY <1>2 DEF IInv, TypeOK
<1> QED
  BY <1>2, <1>7, <1>8, QuietStep

\* The end of a tick, by an error or not.
LEMMA RestInv ==
    ASSUME SettlementConstants, IInv, NEW p \in Processes, EndTick(p) \/ Throw(p)
    PROVE  IInv'
<1>1. /\ me' = [me EXCEPT ![p] = Asleep]
      /\ UNCHANGED <<drawing, api, ticket, entered, order, row, sync>>
  BY DEF EndTick, Throw, Rest, megapot, relay
<1>2. Asleep \in Locals /\ Good(Asleep, ticket, order, entered)
  BY AsleepIsLocal, IdleIsGood
<1>3. faults' \in 0..MaxFaults
  BY DEF IInv, TypeOK, EndTick, Throw, Fault, SettlementConstants
<1>4. me \in [Processes -> Locals]
  BY DEF IInv, TypeOK
<1>5. /\ me' \in [Processes -> Locals]
      /\ \A q \in Processes : me'[q] = me[q] \/ Good(me'[q], ticket, order, entered)
  BY <1>1, <1>2, <1>4
<1> QED
  BY <1>1, <1>3, <1>5, QuietStep

\* healMissingEpochs writes the row of one epoch.
LEMMA HealInv ==
    ASSUME SettlementConstants, IInv, NEW p \in Processes, NEW e \in Epochs, Heal(p, e)
    PROVE  IInv'
<1> DEFINE h == me[p].heal \ {e}
           l == [me[p] EXCEPT !.heal = h]
<1>p. me \in [Processes -> Locals]
  BY DEF IInv, TypeOK
<1>1. /\ me' = [me EXCEPT ![p] = l] /\ me[p].pc = "heal"
      /\ UNCHANGED <<drawing, api, ticket, entered, order, sync>>
      /\ row' = row \/ row' = Upserted(e)
      /\ faults' = faults \/ Fault
  BY <1>p DEF Heal, At, megapot, relay
<1>2. l \in Locals /\ l.pc = "heal"
  <2>1. me[p] \in Locals
    BY <1>p
  <2>2. h \in SUBSET Epochs
    BY <2>1 DEF Locals
  <2> HIDE DEF h
  <2> QED
    BY <1>1, <2>1, <2>2 DEF Locals
<1> HIDE DEF l
<1>3. Good(l, ticket, order, entered)
  BY <1>2, IdleIsGood
<1>4. /\ me' \in [Processes -> Locals]
      /\ \A q \in Processes : me'[q] = me[q] \/ Good(me'[q], ticket, order, entered)
  BY <1>p, <1>1, <1>2, <1>3
<1>5. UNCHANGED <<ticket, entered, order>>
  BY <1>1
<1>6. MeInv'
  BY <1>4, <1>5, LocalStep
<1>7. /\ row' \in [Epochs -> RowSet]
      /\ \A d \in Epochs : row'[d].settled => row[d].settled
  <2>1. row \in [Epochs -> RowSet]
    BY DEF IInv, TypeOK
  <2> QED
    BY <1>1, <2>1, UpsertedType
<1>8. OrderInv' /\ RightInv' /\ MarkInv'
  BY <1>5, <1>7, TablesFrame
<1>9. faults' \in 0..MaxFaults
  BY <1>1 DEF IInv, TypeOK, Fault, SettlementConstants
<1>10. TypeOK'
  BY <1>1, <1>4, <1>7, <1>9 DEF IInv, TypeOK
<1> QED
  BY <1>6, <1>8, <1>10 DEF IInv

\* A page that is not full is all that is left; an empty one says nothing is.
LEMMA ReadPageInv ==
    ASSUME SettlementConstants, IInv, NEW p \in Processes, ReadPage(p)
    PROVE  IInv'
<1> DEFINE all == Gradable(me[p].epoch)
<1>p. me \in [Processes -> Locals] /\ me[p] \in Locals
  BY DEF IInv, TypeOK
<1>1. PICK page \in SUBSET all :
        /\ page = all \/ Cardinality(page) = PageSize
        /\ Hold(p, page)
  BY DEF ReadPage
<1> DEFINE s == IF page = {} THEN "mark" ELSE "grade"
           j == [me[p] EXCEPT !.page = page]
           l == [j EXCEPT !.pc = s]
<1>2. /\ me' = [me EXCEPT ![p] = l] /\ me[p].pc = "page"
      /\ UNCHANGED <<drawing, api, ticket, entered, order, row, sync, faults>>
  <2>1. /\ me[p].pc = "page"
        /\ UNCHANGED <<drawing, api, ticket, entered, order, row, sync, faults>>
    BY DEF ReadPage, At, megapot, relay
  <2>2. l = [me[p] EXCEPT !.page = page, !.pc = s]
    BY <1>p DEF Locals
  <2>3. me' = [me EXCEPT ![p] = l]
    BY <1>1, <2>2 DEF Hold
  <2> QED
    BY <2>1, <2>3
<1>3. all = Selected(ticket, order, entered, me[p].epoch) /\ all \subseteq Tickets
  <2>1. all = Selected(ticket, order, entered, me[p].epoch)
    BY Gradables
  <2> QED
    BY <2>1 DEF Selected
<1>4. page \subseteq all
  BY <1>1
<1>8. Cardinality(page) < PageSize => page = all
  BY <1>1 DEF SettlementConstants
<1> HIDE DEF all
<1>9. page = {} => all = {}
  <2>1. page = {} => Cardinality(page) < PageSize
    BY FS_EmptySet DEF SettlementConstants
  <2> QED
    BY <1>8, <2>1
<1>10. /\ l \in Locals /\ l.pc = s /\ l.page = page /\ l.epoch = me[p].epoch
  <2>1. page \in SUBSET Tickets
    BY <1>3, <1>4
  <2>2. j \in Locals /\ j.page = page /\ j.epoch = me[p].epoch
    BY <1>p, <2>1 DEF Locals
  <2> HIDE DEF j
  <2>3. s \in Stages
    BY DEF Stages
  <2> HIDE DEF s
  <2> QED
    BY <2>2, <2>3 DEF Locals
<1>11. s = "mark" <=> page = {}
  OBVIOUS
<1>12. s \in {"mark", "grade"}
  OBVIOUS
<1> HIDE DEF l, s
<1>13. Good(l, ticket, order, entered)
  <2>1. l.epoch \in Epochs
    BY <1>2, <1>10 DEF IInv, MeInv, Good
  <2>2. \A t \in page : OrderOf[t] \in order /\ entered[OrderOf[t]] = l.epoch
    BY <1>3, <1>4, <1>10 DEF Selected
  <2>3. l.pc = "mark" => Selected(ticket, order, entered, l.epoch) = {}
    BY <1>3, <1>9, <1>10, <1>11
  <2>4. l.pc = "grade" /\ Cardinality(l.page) < PageSize =>
          Selected(ticket, order, entered, l.epoch) \subseteq l.page
    BY <1>3, <1>8, <1>10
  <2> QED
    BY <1>10, <2>1, <2>2, <2>3, <2>4 DEF Good
<1>14. /\ me' \in [Processes -> Locals]
       /\ \A q \in Processes : me'[q] = me[q] \/ Good(me'[q], ticket, order, entered)
  BY <1>p, <1>2, <1>10, <1>13
<1>15. faults' \in 0..MaxFaults
  BY <1>2 DEF IInv, TypeOK
<1> QED
  BY <1>2, <1>14, <1>15, QuietStep

\* What follows a page.
LEMMA OnwardLocal ==
    ASSUME SettlementConstants, IInv, NEW p \in Processes,
           NEW stage \in {"next", "page", "mark"}, Onward(p, stage)
    PROVE  /\ me' \in [Processes -> Locals]
           /\ \A q \in Processes : q # p => me'[q] = me[q]
           /\ me'[p].pc = stage
           /\ stage # "next" => me'[p].epoch = me[p].epoch
<1> DEFINE e == IF stage = "next" THEN 0 ELSE me[p].epoch
           n == IF stage = "page" THEN me[p].pages + 1 ELSE 0
           i == [me[p] EXCEPT !.pc = stage]
           j == [i EXCEPT !.page = {}]
           k == [j EXCEPT !.epoch = e]
           l == [k EXCEPT !.pages = n]
<1>p. me \in [Processes -> Locals] /\ me[p] \in Locals
  BY DEF IInv, TypeOK
<1>1. me' = [me EXCEPT ![p] = l]
  <2>1. l = [me[p] EXCEPT !.pc = stage, !.page = {},
                          !.epoch = IF stage = "next" THEN 0 ELSE @,
                          !.pages = IF stage = "page" THEN @ + 1 ELSE 0]
    BY <1>p DEF Locals
  <2> QED
    BY <2>1 DEF Onward
<1>2. e \in 0..MaxDrawing /\ n \in Nat /\ stage \in Stages
  <2>1. me[p].epoch \in 0..MaxDrawing /\ me[p].pages \in Nat
    BY <1>p, LocalFields
  <2>2. 0 \in 0..MaxDrawing
    BY DEF SettlementConstants
  <2>3. stage \in Stages
    BY DEF Stages
  <2> QED
    BY <2>1, <2>2, <2>3
<1>3. stage # "next" => e = me[p].epoch
  OBVIOUS
<1> HIDE DEF e, n
<1>4. i \in Locals /\ i.pc = stage
  BY <1>p, <1>2 DEF Locals
<1> HIDE DEF i
<1>5. j \in Locals /\ j.pc = stage
  BY <1>4 DEF Locals
<1> HIDE DEF j
<1>6. k \in Locals /\ k.pc = stage /\ k.epoch = e
  BY <1>2, <1>5 DEF Locals
<1> HIDE DEF k
<1>7. l \in Locals /\ l.pc = stage /\ l.epoch = e
  BY <1>2, <1>6 DEF Locals
<1> HIDE DEF l
<1> QED
  BY <1>p, <1>1, <1>3, <1>7

\* Grading a page: what was graded stays, what was not is graded by the
\* drawing it entered, and after a short page nothing is left.
LEMMA GradePageInv ==
    ASSUME SettlementConstants, IInv, NEW p \in Processes, GradePage(p)
    PROVE  IInv'
<1> DEFINE e == me[p].epoch
           page == me[p].page
<1>p. /\ me \in [Processes -> Locals] /\ me[p] \in Locals
      /\ ticket \in [Tickets -> TicketSet]
  BY DEF IInv, TypeOK
<1>1. /\ me[p].pc = "grade"
      /\ ticket' = [t \in Tickets |->
                      IF t \in page /\ ticket[t].win = "DRAW_PENDING"
                      THEN Grade(t, e) ELSE ticket[t]]
      /\ Onward(p, AfterPage(p))
      /\ UNCHANGED <<drawing, api, entered, order, row, sync, faults>>
  BY DEF GradePage, At, megapot, relay
<1>2. e \in Epochs /\ \A t \in page : OrderOf[t] \in order /\ entered[OrderOf[t]] = e
  BY <1>1 DEF IInv, MeInv, Good
<1>3. AfterPage(p) \in {"next", "page", "mark"}
  BY DEF AfterPage
<1>4. AfterPage(p) = "mark" => Cardinality(page) < PageSize
  BY DEF AfterPage
<1>5. /\ me' \in [Processes -> Locals]
      /\ \A q \in Processes : q # p => me'[q] = me[q]
      /\ me'[p].pc = AfterPage(p)
      /\ AfterPage(p) # "next" => me'[p].epoch = e
  BY <1>1, <1>3, OnwardLocal
<1>6. ASSUME NEW t \in Tickets
      PROVE  /\ t \in page /\ ticket[t].win = "DRAW_PENDING" => ticket'[t] = Grade(t, e)
             /\ t \notin page \/ ticket[t].win # "DRAW_PENDING" => ticket'[t] = ticket[t]
  BY <1>1
<1>7. \A t \in Tickets : /\ Grade(t, e) \in TicketSet
                         /\ Grade(t, e).win # "DRAW_PENDING"
  <2>1. \A t \in Tickets : /\ Grade(t, e) \in TicketSet
                           /\ Grade(t, e).win \in {"LOST", "WON_UNCLAIMED", "WON_FREE_TICKET"}
    BY <1>2, GradeRight
  <2> QED
    BY <2>1
<1>8. \A t \in Tickets : ticket'[t].win = "DRAW_PENDING" => ticket[t].win = "DRAW_PENDING"
  BY <1>6, <1>7
<1>s. /\ \A d : Selected(ticket', order, entered, d) \subseteq Selected(ticket, order, entered, d)
      /\ \A l : Good(l, ticket, order, entered) => Good(l, ticket', order, entered)
  BY ONLY <1>8, FewerLeft
<1>t. order' = order /\ entered' = entered /\ row' = row
  BY <1>1
<1>9. TypeOK'
  <2>1. ticket' \in [Tickets -> TicketSet]
    BY <1>p, <1>1, <1>7
  <2> QED
    BY <1>1, <1>5, <2>1 DEF IInv, TypeOK
<1>10. OrderInv'
  BY <1>t DEF IInv, OrderInv
<1>11. ASSUME NEW t \in Tickets
       PROVE  Right(ticket'[t], t, order', entered')
  <2>1. CASE t \in page /\ ticket[t].win = "DRAW_PENDING"
    <3>1. ticket'[t] = Grade(t, e) /\ OrderOf[t] \in order' /\ entered'[OrderOf[t]] = e
      BY <1>2, <1>6, <1>t, <2>1
    <3>2. /\ Grade(t, e).win = "LOST" <=> Grade(t, e).amount = 0
          /\ LET gross == Gross[e][calcTierId(t, e)]
                 share == gross - Grade(t, e).amount
             IN  share * 10000 <= gross * ReferralBps /\ (share + 1) * 10000 > gross * ReferralBps
      BY <1>2, GradeRight
    <3> QED
      BY <3>1, <3>2 DEF Right
  <2>2. CASE t \notin page \/ ticket[t].win # "DRAW_PENDING"
    <3>1. Right(ticket[t], t, order, entered)
      BY DEF IInv, RightInv
    <3> QED
      BY <1>6, <1>t, <2>2, <3>1
  <2> QED
    BY <2>1, <2>2
<1>12. RightInv'
  BY <1>11 DEF RightInv
<1>13. ASSUME NEW q \in Processes
       PROVE  Good(me'[q], ticket', order', entered')
  <2>1. CASE q # p
    BY <1>5, <1>s, <1>t, <2>1 DEF IInv, MeInv
  <2>2. CASE q = p /\ AfterPage(p) = "next"
    BY <1>5, <2>2, IdleIsGood
  <2>3. CASE q = p /\ AfterPage(p) = "page"
    BY <1>2, <1>5, <2>3 DEF Good
  <2>4. CASE q = p /\ AfterPage(p) = "mark"
    <3>1. OrdersInTime => Selected(ticket, order, entered, e) \subseteq page
      BY <1>1, <1>4, <2>4 DEF IInv, MeInv, Good
    <3>2. ASSUME OrdersInTime
          PROVE  Selected(ticket', order', entered', e) = {}
      <4>1. ASSUME NEW t \in Selected(ticket', order, entered, e)
            PROVE  FALSE
        <5>1. t \in Selected(ticket, order, entered, e) /\ t \in Tickets
          BY <1>s, <4>1 DEF Selected
        <5>2. t \in page /\ ticket[t].win = "DRAW_PENDING"
          BY <3>1, <3>2, <5>1 DEF Selected
        <5>3. ticket'[t].win # "DRAW_PENDING"
          BY <1>6, <1>7, <5>1, <5>2
        <5> QED
          BY <4>1, <5>3 DEF Selected
      <4> QED
        BY <1>t, <4>1
    <3> QED
      BY <1>2, <1>5, <2>4, <3>2 DEF Good
  <2> QED
    BY <1>3, <2>1, <2>2, <2>3, <2>4
<1>14. MeInv'
  BY <1>13 DEF MeInv
<1>15. MarkInv'
  <2>1. ASSUME OrdersInTime, NEW d \in Epochs, row'[d].settled
        PROVE  Selected(ticket', order', entered', d) = {}
    <3>1. Selected(ticket, order, entered, d) = {}
      BY <1>t, <2>1 DEF IInv, MarkInv
    <3> QED
      BY <1>s, <1>t, <3>1
  <2> QED
    BY <2>1 DEF MarkInv
<1> QED
  BY <1>9, <1>10, <1>12, <1>14, <1>15 DEF IInv

\* The watermark, when nothing of the drawing is left.
LEMMA MarkEpochInv ==
    ASSUME SettlementConstants, IInv, NEW p \in Processes, Mark(p)
    PROVE  IInv'
<1> DEFINE e == me[p].epoch
<1>1. /\ me[p].pc = "mark" /\ Onward(p, "next")
      /\ row' = [row EXCEPT ![e].settled = TRUE]
      /\ UNCHANGED <<drawing, api, ticket, entered, order, sync, faults>>
  BY DEF Mark, At, megapot, relay
<1>2. /\ me' \in [Processes -> Locals]
      /\ \A q \in Processes : q # p => me'[q] = me[q]
      /\ me'[p].pc = "next"
  BY <1>1, OnwardLocal
<1>3. \A q \in Processes : me'[q] = me[q] \/ Good(me'[q], ticket, order, entered)
  BY <1>2, IdleIsGood
<1>t. UNCHANGED <<ticket, entered, order>>
  BY <1>1
<1>4. MeInv'
  BY <1>3, <1>t, LocalStep
<1>5. OrderInv' /\ RightInv'
  BY <1>t, TablesFrame
<1>6. e \in Epochs /\ (OrdersInTime => Selected(ticket, order, entered, e) = {})
  BY <1>1 DEF IInv, MeInv, Good
<1>7. row' \in [Epochs -> RowSet] /\ \A d \in Epochs : d # e => row'[d] = row[d]
  <2>1. row \in [Epochs -> RowSet]
    BY DEF IInv, TypeOK
  <2> DEFINE b == TRUE
             r == [row[e] EXCEPT !.settled = b]
  <2>2. b \in BOOLEAN /\ row[e] \in RowSet
    BY <1>6, <2>1
  <2>3. row' = [row EXCEPT ![e] = r]
    BY <1>1
  <2> HIDE DEF b
  <2>4. r \in RowSet
    BY <2>2 DEF RowSet
  <2> HIDE DEF r
  <2> QED
    BY <1>6, <2>1, <2>3, <2>4
<1>8. MarkInv'
  <2>1. ASSUME OrdersInTime, NEW d \in Epochs, row'[d].settled
        PROVE  Selected(ticket', order', entered', d) = {}
    <3>1. Selected(ticket, order, entered, d) = {}
      BY <1>6, <1>7, <2>1 DEF IInv, MarkInv
    <3> QED
      BY <1>t, <3>1
  <2> QED
    BY <2>1 DEF MarkInv
<1>9. TypeOK'
  BY <1>1, <1>2, <1>7 DEF IInv, TypeOK
<1> QED
  BY <1>4, <1>5, <1>8, <1>9 DEF IInv

LEMMA StutterInv ==
    ASSUME IInv, UNCHANGED vars
    PROVE  IInv'
<1>1. UNCHANGED <<drawing, api, entered, order, ticket, row, me, sync, faults>>
  BY DEF vars
<1>2. UNCHANGED <<ticket, entered, order>> /\ me' = me /\ row' = row
  BY <1>1
<1>3. OrderInv' /\ RightInv' /\ MeInv' /\ MarkInv'
  BY <1>2, TablesFrame
<1>4. TypeOK'
  BY <1>1 DEF IInv, TypeOK
<1> QED
  BY <1>3, <1>4 DEF IInv

-----------------------------------------------------------------------------
\* The invariant is inductive.
LEMMA Step ==
    ASSUME SettlementConstants, IInv, [Next]_vars
    PROVE  IInv'
<1>1. CASE UNCHANGED vars
  BY <1>1, StutterInv
<1>2. CASE Megapot \/ TransitionUpsert \/ Backfill
  BY <1>2, OutsideInv
<1>3. ASSUME NEW o \in Orders, Buy(o) \/ Succeed(o)
      PROVE  IInv'
  BY <1>3, BuyInv, SucceedInv
<1>4. ASSUME NEW t \in Tickets, Harvest(t)
      PROVE  IInv'
  BY <1>4, HarvestInv
<1>5. ASSUME NEW p \in Processes, Tick(p) \/ Throw(p)
      PROVE  IInv'
  <2>1. ASSUME NEW e \in Epochs, Heal(p, e)
        PROVE  IInv'
    BY <2>1, HealInv
  <2>2. CASE Start(p)
    BY <2>2, StartInv
  <2>3. CASE List(p)
    BY <2>3, ListInv
  <2>4. CASE NextEpoch(p)
    BY <2>4, NextEpochInv
  <2>5. CASE EndTick(p) \/ Throw(p)
    BY <2>5, RestInv
  <2>6. CASE ReadPage(p)
    BY <2>6, ReadPageInv
  <2>7. CASE GradePage(p)
    BY <2>7, GradePageInv
  <2>8. CASE Mark(p)
    BY <2>8, MarkEpochInv
  <2> QED
    BY <1>5, <2>1, <2>2, <2>3, <2>4, <2>5, <2>6, <2>7, <2>8 DEF Tick
<1>6. Next => \/ Megapot \/ TransitionUpsert \/ Backfill
              \/ \E o \in Orders : Buy(o) \/ Succeed(o)
              \/ \E t \in Tickets : Harvest(t)
              \/ \E p \in Processes : Tick(p) \/ Throw(p)
  BY DEF Next, Environment
<1> QED
  BY <1>1, <1>2, <1>3, <1>4, <1>5, <1>6

\* The strengthened invariant holds in every reachable state.
THEOREM InductiveInvariant ==
    ASSUME SettlementConstants
    PROVE  Spec => []IInv
<1>1. Init => IInv
  BY InitInv
<1>2. IInv /\ [Next]_vars => IInv'
  BY Step
<1> QED
  BY <1>1, <1>2, PTL DEF Spec

\* The variables keep the values the code gives them.
THEOREM TypeCorrect ==
    ASSUME SettlementConstants
    PROVE  Spec => []TypeOK
<1>1. IInv => TypeOK
  BY DEF IInv
<1> QED
  BY <1>1, InductiveInvariant, PTL

\* However the two processes interleave, a graded ticket carries the amount
\* the vault receives for the drawing it entered, and is LOST only if that
\* is nothing (settleEpoch and applyReferralShare).
THEOREM GradesAreRight ==
    ASSUME SettlementConstants
    PROVE  Spec => []GradeIsRight
<1>1. IInv => GradeIsRight
  BY RightMeansRight DEF IInv
<1> QED
  BY <1>1, InductiveInvariant, PTL

\* As long as orders are SUCCESS in time, ticketsSettledAt is set only when
\* no ticket of the drawing is left in DRAW_PENDING.
THEOREM WatermarksAreComplete ==
    ASSUME SettlementConstants, OrdersInTime
    PROVE  Spec => []WatermarkIsComplete
<1>1. IInv => WatermarkIsComplete
  BY Gradables DEF IInv, MarkInv, WatermarkIsComplete
<1> QED
  BY <1>1, InductiveInvariant, PTL

\* The updates' DRAW_PENDING filter: no step takes a grade back, and only
\* the harvest moves one on.
THEOREM GradesAreKept ==
    ASSUME SettlementConstants
    PROVE  Spec => NeverRegress
<1> DEFINE Kept == \A t \in Tickets :
             /\ ticket[t].win # "DRAW_PENDING" =>
                  ticket'[t].win \in {ticket[t].win, "CLAIMED_ON_BASE"}
             /\ ticket[t].win = "CLAIMED_ON_BASE" => ticket'[t] = ticket[t]
<1>1. IInv /\ [Next]_vars => [Kept]_vars
  <2>1. ASSUME IInv, Next
        PROVE  Kept
    <3>1. ticket \in [Tickets -> TicketSet]
      BY <2>1 DEF IInv, TypeOK
    <3>2. CASE ticket' = ticket
      BY <3>2
    <3>3. ASSUME NEW u \in Tickets, Harvest(u)
          PROVE  Kept
      <4>1. /\ ticket' = [ticket EXCEPT ![u].win = "CLAIMED_ON_BASE"]
            /\ ticket[u].win # "CLAIMED_ON_BASE"
        BY <3>3 DEF Harvest
      <4>2. /\ ticket'[u].win = "CLAIMED_ON_BASE"
            /\ \A t \in Tickets : t # u => ticket'[t] = ticket[t]
        <5>1. ticket[u] \in TicketSet
          BY <3>1
        <5>2. [ticket[u] EXCEPT !.win = "CLAIMED_ON_BASE"].win = "CLAIMED_ON_BASE"
          BY <5>1 DEF TicketSet
        <5> QED
          BY <3>1, <4>1, <5>2
      <4> QED
        BY <4>1, <4>2
    <3>4. ASSUME NEW p \in Processes, GradePage(p)
          PROVE  Kept
      <4>1. \A t \in Tickets : ticket[t].win # "DRAW_PENDING" => ticket'[t] = ticket[t]
        BY <3>4 DEF GradePage
      <4> QED
        BY <4>1
    <3>5. \/ ticket' = ticket
          \/ \E u \in Tickets : Harvest(u)
          \/ \E p \in Processes : GradePage(p)
      <4>1. CASE Megapot \/ TransitionUpsert \/ Backfill
        BY <4>1 DEF Megapot, Draw, Post, TransitionUpsert, Backfill, StartBackfill,
             BackfillNext, BackfillHalts, BackfillFails
      <4>2. ASSUME NEW o \in Orders, Buy(o) \/ Succeed(o)
            PROVE  ticket' = ticket
        BY <4>2 DEF Buy, Succeed
      <4>3. ASSUME NEW p \in Processes, Tick(p) \/ Throw(p), ~GradePage(p)
            PROVE  ticket' = ticket
        BY <4>3 DEF Tick, Start, Heal, List, NextEpoch, EndTick, ReadPage, Mark, Throw
      <4> QED
        <5>1. \/ Megapot \/ TransitionUpsert \/ Backfill
              \/ \E o \in Orders : Buy(o) \/ Succeed(o)
              \/ \E u \in Tickets : Harvest(u)
              \/ \E p \in Processes : Tick(p) \/ Throw(p)
          BY <2>1 DEF Next, Environment
        <5>2. (\E o \in Orders : Buy(o) \/ Succeed(o)) => ticket' = ticket
          BY <4>2
        <5>3. (\E p \in Processes : Tick(p) \/ Throw(p)) =>
                ticket' = ticket \/ \E p \in Processes : GradePage(p)
          BY <4>3
        <5> QED
          BY <4>1, <5>1, <5>2, <5>3
    <3> QED
      BY <3>2, <3>3, <3>4, <3>5
  <2> QED
    BY <2>1
<1> QED
  BY <1>1, InductiveInvariant, PTL DEF Spec, NeverRegress
=============================================================================
