----------------------------- MODULE MCHeatmap ------------------------------
(* A bounded instance of Heatmap: one slot, three pods, two zones.         *)
EXTENDS Heatmap

CONSTANTS p1, p2, p3,   \* pods
          z1, z2,       \* zones
          s1            \* the slot

MCPods == {p1, p2, p3}
MCZones == {z1, z2}
MCZoneOf == [p \in MCPods |-> IF p = p1 THEN z1 ELSE IF p = p2 THEN z2 ELSE NoZone]
MCSlots == {s1}
=============================================================================
