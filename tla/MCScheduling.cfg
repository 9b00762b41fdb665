SPECIFICATION FairSchedulingSpec
CONSTANTS
    h1 = h1
    h2 = h2
    Engine = Engine
    None = None
    Hosts <- MCHosts
    MaxRequests = 3
    Accounts = 1
    MaxClock = 2
    MaxFaults = 1
INVARIANTS
    SchedulingTypeOK
    NoneForgotten
    OnePerAccount
    OneWatcher
PROPERTIES
    StopDrainsAll
CHECK_DEADLOCK FALSE
