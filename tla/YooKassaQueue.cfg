SPECIFICATION LiveSpec
CONSTANTS
    Payment = {p1, p2}
    Consumer = {c1, c2}
    Request = {r1}
    Poller = {}
    Merging = FALSE
    MaxPosts = 2
    MaxRedisFaults = 0
    MaxFaults = 1
    Free = Free
    p1 = p1
    p2 = p2
    c1 = c1
    c2 = c2
    r1 = r1
CHECK_DEADLOCK FALSE
PROPERTIES
    ImplementsLedger
    PaidIsGranted
