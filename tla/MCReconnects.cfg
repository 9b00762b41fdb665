SPECIFICATION FairFeedSpec
CONSTANTS
    b1 = b1
    b2 = b2
    c1 = c1
    NoFrame = NoFrame
    Customers <- MCCustomers
    Clients <- MCClients
    Credits = 3
    Target = 4
    MaxRun = 1
    QueueSize = 2
PROPERTIES
    Reconnects
