SPECIFICATION Spec
CONSTANTS
    User = {u1, u2}
    Invoice = {i1, i2}
    Applier = {a1, a2}
    Checkout = {c1}
    Settler = {s1, s2}
    Canceler = {d1}
    None = None
    Limit = 1
    MaxEdits = 1
    MaxFaults = 1
    u1 = u1
    u2 = u2
    i1 = i1
    i2 = i2
    a1 = a1
    a2 = a2
    c1 = c1
    s1 = s1
    s2 = s2
    d1 = d1
CHECK_DEADLOCK FALSE
SYMMETRY Symmetry
INVARIANTS
    TypeOK
    UsedOnce
    UsesCounted
    DirectWithinLimit
    

    
