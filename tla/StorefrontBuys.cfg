SPECIFICATION Spec
CONSTANTS
    a = a
    t = t
    u = u
    NoKey = NoKey
    Blank = Blank
    Keys <- MCKeys
    Roles <- MCRoles
    Bounds <- MCBounds
    Picks <- MCPicks
    Configs <- MCConfigs
    Signatures <- MCSignatures
    Price = 1
    HardMax = 3
    MaxEpoch = 2
    MaxVault = 1
    Buyer = u
    MaxStaged = 3
    PerTx = 2
    Fallback <- Wide
    FeeBase = 1
    FeePerTicket = 1
    MaxAttempts = 1
    MaxChanges = 2
CHECK_DEADLOCK FALSE
INVARIANTS OneBoundsPerEpoch FillsInOrder SuccessIsExact
