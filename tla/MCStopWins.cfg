SPECIFICATION SchedulingSpec
CONSTANTS
    h1 = h1
    h2 = h2
    Engine = Engine
    None = None
    Hosts <- MCHosts
    MaxRequests = 2
    Accounts = 2
    MaxClock = 1
    MaxFaults = 0
INVARIANTS
    StopWins
CHECK_DEADLOCK FALSE
