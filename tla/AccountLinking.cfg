SPECIFICATION Spec
CONSTANTS
    Tg = tg
    EmailId = {e1}
    Email = {m1, m2}
    Payment = {p1, p2}
    Req = {r1, r2}
    None = None
    EmailPanels = TRUE
    Term = 1
    MaxTime = 2
    MaxCodes = 2
    tg = tg
    e1 = e1
    m1 = m1
    m2 = m2
    p1 = p1
    p2 = p2
    r1 = r1
    r2 = r2
CHECK_DEADLOCK FALSE
SYMMETRY Symmetry
INVARIANTS
    TypeOK
    PaymentsKept
    DaysKept
    EmailKept
