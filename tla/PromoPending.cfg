SPECIFICATION Spec
CONSTANTS
    User = {u1}
    Invoice = {i1, i2}
    Applier = {}
    Checkout = {c1, c2}
    Settler = {s1}
    Canceler = {d1}
    None = None
    Limit = 1
    MaxEdits = 1
    MaxFaults = 1
    u1 = u1
    i1 = i1
    i2 = i2
    c1 = c1
    c2 = c2
    s1 = s1
    d1 = d1
CHECK_DEADLOCK FALSE
PROPERTIES
    PendingBlocks
