SPECIFICATION Spec
CONSTANTS
    Payment = {p1, p2}
    Hook = {h1}
    Poller = {}
    Provider = {"wata", "severpay", "cryptopay"}
    MaxDuplicates = 1
    MaxFaults = 1
    p1 = p1
    p2 = p2
    h1 = h1
CHECK_DEADLOCK FALSE
INVARIANTS
    AckedPaidIsSucceeded
PROPERTIES
    ImplementsLedger
    NoFailureNoticeAfterGrant
