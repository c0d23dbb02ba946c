SPECIFICATION LiveSpec
CONSTANTS
    o1 = o1
    o2 = o2
    t1 = t1
    t2 = t2
    t3 = t3
    p1 = p1
    p2 = p2
    Tickets = {t1, t2, t3}
    Orders = {o1, o2}
    OrderOf <- TwoAndOne
    Normals <- Numbers
    Bonus <- Bonuses
    MaxDrawing = 2
    WinNormals <- Winning
    WinBonus <- WinningBonus
    Gross <- Payouts
    ReferralBps = 1000
    FreeTicketTiers = {1, 4}
    Processes = {p1, p2}
    PageSize = 1
    MaxPages = 2
    MaxFaults = 1
    OrdersInTime = TRUE
CHECK_DEADLOCK FALSE
INVARIANTS GradeIsRight WatermarkIsComplete
PROPERTIES NeverRegress EveryTicketGraded
