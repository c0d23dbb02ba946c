SPECIFICATION LiveSpec
CONSTANTS
    t1 = t1
    t2 = t2
    t3 = t3
    p1 = p1
    p2 = p2
    b1 = b1
    b2 = b2
    b3 = b3
    b4 = b4
    Nobody = Nobody
    NoBatch = NoBatch
    NoTx = NoTx
    Recovered = Recovered
    Tickets = {t1, t2, t3}
    Unclaimable = {t3}
    NoNft = {}
    Processes = {p1, p2}
    Batches = {b1, b2, b3, b4}
    ChunkSize = 2
    PageSize = 2
    MaxAttempts = 3
    MaxFaults = 2
    TxSettles = TRUE
    RpcReliable = TRUE
    LockHolds = TRUE
CHECK_DEADLOCK FALSE
INVARIANTS CreditedWasClaimed NoLostHarvest OneClaimAtATime QuarantineIsRight
PROPERTY EveryWinnerHarvested
