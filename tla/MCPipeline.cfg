SPECIFICATION Spec
CONSTANTS
    u1 = u1
    u2 = u2
    a1 = a1
    a2 = a2
    Uuids = {u1, u2}
    Accounts = {a1, a2}
    Seats = {0, 1}
    SeatOf <- MCSeatOf
    EarlierLogins <- MCEarlier
    Filters <- MCFilters
    None = None
    MaxRecords = 3
    MaxRuns = 2
INVARIANTS
    TypeOK
    ListNeverFails
    ExitZeroStored
    PartialProgress
PROPERTY
    StoreIsMap
