SPECIFICATION LiveSpec
CONSTANTS
    api = api
    cron = cron
    x1 = x1
    x2 = x2
    Nobody = Nobody
    NoTx = NoTx
    Processes = {api, cron}
    Servers = {api}
    Ids = {x1, x2}
    MaxDrawing = 2
    MaxFaults = 1
    FreshReads = FALSE
    TxSettles = FALSE
    CleanStops = FALSE
    RedisKeeps = FALSE
CHECK_DEADLOCK FALSE
INVARIANTS EpochNeverAhead
PROPERTY CacheHeals
