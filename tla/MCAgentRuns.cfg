SPECIFICATION FairAgentSpec
CONSTANTS
    a2 = a2
    a3 = a3
    k1 = k1
    k2 = k2
    c1 = c1
    None = None
    Customers <- MCCustomers
    Credits = 3
    Target = 4
    MaxRun = 3
    Requesters <- MCRequesters
    BoundTo <- MCBoundTo
    RunOf <- MCRunOf
    Calls <- MCCalls
    MaxDrops = 1
    MaxSteps = 10
    MaxIterations = 4
    PlainSteps = 5
    MaxFaults = 1
INVARIANTS
    AgentTypeOK
PROPERTIES
    ClosingMeansComplete
    DurableRunsFinish
    LoopEnds
CONSTRAINT NotOverlapped
