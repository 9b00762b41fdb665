SPECIFICATION DrainedSpec
CONSTANTS
    a1 = a1
    a2 = a2
    a3 = a3
    k1 = k1
    k2 = k2
    c1 = c1
    c2 = c2
    None = None
    Customers <- OneCustomer
    Credits = 2
    Target = 3
    MaxRun = 2
    Requesters <- Straggler
    BoundTo <- StragglerBoundTo
    Calls <- MCCalls
    MaxDrops = 1
SYMMETRY Interchangeable
INVARIANTS
    ReplayFindsClaim
    ExactBalance
    NoGhosts
    NoDuplicateTask
    DoneMeansComplete
PROPERTIES
    ImplementsExactlyOnce
