SPECIFICATION Spec
CONSTANTS
    j1 = j1
    j2 = j2
    b1 = b1
    b2 = b2
    b3 = b3
    b4 = b4
    b5 = b5
    NoBatch = NoBatch
    NoNft = NoNft
    Tickets = {1, 2, 3}
    Jobs = {j1, j2}
    Batches = {b1, b2, b3, b4, b5}
    ChunkSize = 2
    MaxDrawing = 2
    MaxFaults = 3
    StableOrder = TRUE
    TxSettles = FALSE
    FreshStatus = TRUE
CHECK_DEADLOCK FALSE
INVARIANTS NoTicketBoughtTwice NftIsOwn SuccessIsComplete OneWorker
SYMMETRY RelaySymmetry
PROPERTY SuccessIsFinal
