SPECIFICATION HeatmapSpec
CONSTANTS
    p1 = p1
    p2 = p2
    p3 = p3
    z1 = z1
    z2 = z2
    s1 = s1
    NoZone = NoZone
    NoPod = NoPod
    Pods <- MCPods
    Zones <- MCZones
    ZoneOf <- MCZoneOf
    Slots <- MCSlots
    Replicas = 2
    MaxKills = 2
    MaxPollFaults = 1
INVARIANTS
    HeatmapTypeOK
    NoTheater
PROPERTIES
    Settles
