SPECIFICATION Spec
CONSTANTS
  p1 = p1  p2 = p2  p3 = p3
  Probe = {p1, p2}
  Ttl = 2
  Faults = {"down", "cancel"}
  MaxNow = 4
SYMMETRY ProbeSymmetry
INVARIANTS TypeOK
PROPERTIES HealthyIsRecent UnhealthyIsRecent
