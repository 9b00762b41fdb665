SPECIFICATION FairAgentSpec
CONSTANTS
    a2 = a2
    a3 = a3
    k1 = k1
    k2 = k2
    c1 = c1
    None = None
    Customers <- MCCustomers
    Credits = 4
    Target = 5
    MaxRun = 2
    Requesters <- OneRequester
    BoundTo <- OneBoundTo
    RunOf <- OneRunOf
    Calls <- MCCalls
    MaxDrops = 1
    MaxSteps = 16
    MaxIterations = 6
    PlainSteps = 5
    MaxFaults = 2
PROPERTIES
    HeadroomAlike
