SPECIFICATION Spec
CONSTANTS
    a1 = a1
    a2 = a2
    a3 = a3
    k1 = k1
    k2 = k2
    c1 = c1
    c2 = c2
    None = None
    Customers <- TwoCustomers
    Credits = 1
    Target = 2
    MaxRun = 2
    Requesters <- StragglerAndOther
    BoundTo <- OtherBoundTo
    Calls <- MCCalls
    MaxDrops = 1
SYMMETRY Interchangeable
INVARIANTS
    TypeOK
    NoTaskLost
    NoCreditLost
    CreditsOwnAccount
PROPERTIES
    StopDrains
