SPECIFICATION LiveSpec
CONSTANTS
    a = a
    b = b
    c1 = c1
    c2 = c2
    c3 = c3
    t1 = t1
    t2 = t2
    NoClaim = NoClaim
    Tickets = {t1, t2}
    Wallets = {a}
    Claims = {c1, c2}
    Buyer <- OneBuyer
    Prize <- EqualPrizes
    Requester <- OneRequester
    Validity = 1
    ExpiryBuffer = 1
    UnsignedGrace = 2
    ClockSkew = 1
    RouteBudget = 1
    TickBudget = 1
    SweepBudget = 1
    RpcLag = 0
    SerialRequests = TRUE
    LastRequest = 4
    MaxTime = 8
INVARIANTS NoTicketPaidTwice ExpiredNeverLands PaidTicketsWerePaid NoStrandedTicket NoOverpayment
PROPERTIES ImplementsLedger EveryVoucherSettles LandedIsRecorded
