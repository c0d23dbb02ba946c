SPECIFICATION VaultSpec
CONSTANTS
    o = o
    r1 = r1
    r2 = r2
    m1 = m1
    m2 = m2
    d1 = d1
    d2 = d2
    Addresses <- MCAddresses
    Nobody = Nobody
    Owners = {o, r1}
    Relayers = {r1, r2}
    Megapots = {m1, m2}
    Tokens = {d1, d2}
    Referrers = {o, r1}
    PaysIn <- MCPaysIn
    Ids = {1, 2}
    Cost = 1
    Prize = 1
    MaxHolding = 2
CHECK_DEADLOCK FALSE
INVARIANT AllowanceIsCurrent
