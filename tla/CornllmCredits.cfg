SPECIFICATION Spec
CONSTANTS
    Sub = {s1}
    Client = {c1, c2}
    Tariff <- Tariffs
    NoTariff = NoTariff
    Credit <- Credits
    TrialCredit = 1
    Months <- Sold
    Month = 1
    MaxTime = 3
    MaxChanges = 3
    MaxFaults = 1
    s1 = s1
    c1 = c1
    c2 = c2
CHECK_DEADLOCK FALSE
SYMMETRY Symmetry
INVARIANTS
    TypeOK
    ScheduleOfTariff
    BalanceOfTariff
    ScheduleRepeatsGrant
    CreditEveryMonth
PROPERTIES
    GrantedOncePerDate
