SPECIFICATION Spec
CONSTANTS
  m1 = m1  m2 = m2  c1 = c1  c2 = c2  p1 = p1
  Unset = Unset  Nobody = Nobody  NotPending = NotPending
  Msg = {m1, m2}
  Consumer = {c1}
  Place = {p1}
  MaxRetries = 3
  DefaultMaxLen = 1
  TopicMaxLen = 0
  TrimInterval = 600
  Faults = {}
  MaxFaults = 0
  MaxEntries = 2
CHECK_DEADLOCK FALSE
INVARIANTS TrimSparesUnconsumed
