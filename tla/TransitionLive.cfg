SPECIFICATION LiveSpec
CONSTANTS
    api = api
    cron = cron
    x1 = x1
    x2 = x2
    Nobody = Nobody
    NoTx = NoTx
    Processes = {api, cron}
    Servers = {api}
    Ids = {x1, x2}
    MaxDrawing = 3
    MaxFaults = 2
    FreshReads = TRUE
    TxSettles = TRUE
    CleanStops = TRUE
    RedisKeeps = TRUE
CHECK_DEADLOCK FALSE
INVARIANTS PausedOnlyAround SomeoneResumes OneTransition
PROPERTY EpochCatchesUp
