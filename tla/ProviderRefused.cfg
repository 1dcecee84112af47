SPECIFICATION Spec
CONSTANTS
    Payment = {p1}
    Hook = {h1}
    Poller = {}
    Provider = {"wata", "severpay", "cryptopay"}
    MaxDuplicates = 0
    MaxFaults = 1
    p1 = p1
    h1 = h1
CHECK_DEADLOCK FALSE
INVARIANTS
    SucceededWasActivated
