SPECIFICATION FairFeedSpec
CONSTANTS
    b1 = b1
    b2 = b2
    c1 = c1
    NoFrame = NoFrame
    Customers <- MCCustomers
    Clients <- MCClients
    Credits = 2
    Target = 3
    MaxRun = 2
    QueueSize = 2
INVARIANTS
    FeedTypeOK
    InCommitOrder
    GapsWereMissed
PROPERTIES
    FramesArrive
