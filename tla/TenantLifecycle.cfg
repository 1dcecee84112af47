SPECIFICATION LiveSpec
CONSTANTS
    Sub = {s1}
    Extender = {e1, e2}
    Term <- Terms
    Grace = 1
    Notices = 1
    Countdown = 2
    MaxTime = 4
    MaxExtensions = 2
    MaxFaults = 1
    s1 = s1
    e1 = e1
    e2 = e2
CHECK_DEADLOCK FALSE
INVARIANTS
    TypeOK
    NoDaysLost
    RunningTermIsActive
    InactiveIsStopped
PROPERTIES
    ExpiredStops
