SPECIFICATION LiveSpec
CONSTANTS
    h1 = h1
    h2 = h2
    MaxSig = 2
    Handlers = {h1}
    Lands <- PurchaseThenAny
    HookAttempts = 2
    TicketAttempts = 2
    Window = 2
    MaxFaults = 2
    NodeServes = TRUE
    BurstsFit = TRUE
    AttemptsSuffice = TRUE
CHECK_DEADLOCK FALSE
INVARIANTS OrdersMatchChain NothingDropped
PROPERTY EveryPurchaseRelayed
