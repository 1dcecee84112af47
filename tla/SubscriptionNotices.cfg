SPECIFICATION Spec
CONSTANTS
    Sub = {s1}
    Channel = {telegram, email}
    Extender = {e1, e2}
    Payment = {e1}
    Term <- Terms
    DaysBefore = 1
    Window = 1
    Countdown = 2
    FirstWarning = 2
    LastWarning = 1
    MaxTime = 4
    MaxExtensions = 2
    MaxFaults = 1
    s1 = s1
    telegram = telegram
    email = email
    e1 = e1
    e2 = e2
CHECK_DEADLOCK FALSE
SYMMETRY Symmetry
INVARIANTS
    TypeOK
    PeriodStartsClean
PROPERTIES
    NoticeOnce
