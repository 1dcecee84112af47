SPECIFICATION LiveSpec
CONSTANTS
    Payment = {p1}
    Hook = {h1, h2}
    Poller = {t1}
    Provider = {"wata", "severpay"}
    MaxDuplicates = 0
    MaxFaults = 1
    p1 = p1
    h1 = h1
    h2 = h2
    t1 = t1
CHECK_DEADLOCK FALSE
INVARIANTS
    TypeOK
    SucceededWasFinalized
    AckedPaidWasFinalized
    ActivatedWasPaid
    AnnouncedWasCommitted
PROPERTIES
    PaidIsFinalized
