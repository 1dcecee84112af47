SPECIFICATION Spec
CONSTANTS
    Payment = {p1}
    Consumer = {c1, c2}
    Request = {r1}
    Poller = {t1, t2}
    Merging = TRUE
    MaxPosts = 2
    MaxRedisFaults = 1
    MaxFaults = 1
    Free = Free
    p1 = p1
    c1 = c1
    c2 = c2
    r1 = r1
    t1 = t1
    t2 = t2
CHECK_DEADLOCK FALSE
SYMMETRY Symmetry
INVARIANTS
    TypeOK
    SucceededMeansActivated
    AnnouncedWasCommitted
    WorkerActivatesOnce
    ReceiptsAccounted
