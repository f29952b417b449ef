SPECIFICATION Spec
CONSTANTS
  m1 = m1  m2 = m2  c1 = c1  c2 = c2  p1 = p1
  Unset = Unset  Nobody = Nobody  NotPending = NotPending
  Msg = {m1}
  Consumer = {c1}
  Place = {p1}
  MaxRetries = 3
  DefaultMaxLen = 0
  TopicMaxLen = Unset
  TrimInterval = 0
  Faults = {"handler"}
  MaxFaults = 0
  MaxEntries = 1
CHECK_DEADLOCK FALSE
INVARIANTS RetriedBeforePoison
