SPECIFICATION FairSpec
CONSTANTS
  m1 = m1  m2 = m2  c1 = c1  c2 = c2  p1 = p1
  Unset = Unset  Nobody = Nobody  NotPending = NotPending
  Msg = {m1, m2}
  Consumer = {c1, c2}
  Place = {p1}
  MaxRetries = 1
  DefaultMaxLen = 2
  TopicMaxLen = Unset
  TrimInterval = 600
  Faults = {"handler", "redis", "crash", "slow"}
  MaxFaults = 2
  MaxEntries = 4
CHECK_DEADLOCK FALSE
INVARIANTS TypeOK NewestNeverLost RunsHaveCauses
PROPERTIES KeepsMessages EveryEntrySettled
