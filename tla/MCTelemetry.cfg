SPECIFICATION FairTelemetrySpec
CONSTANTS
    b1 = b1
    c1 = c1
    NoFrame = NoFrame
    Customers <- MCCustomers
    Clients <- MCClients
    Browser = b1
    Credits = 2
    Target = 3
    MaxRun = 3
    QueueSize = 1
    MaxPollFaults = 1
CONSTRAINT
    FewCommits
INVARIANTS
    TelemetryTypeOK
PROPERTIES
    ShowsTruth
