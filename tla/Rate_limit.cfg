SPECIFICATION Spec
CONSTANTS
  r1 = r1  r2 = r2  create = create  list = list
  Req = {r1, r2}
  Key = {create, list}
  FailClosed = {create}
  Limit = 1
  Window = 3
  Second = 2
  MaxRetries = 1
  Faults = {"lost", "down", "flush"}
  MaxNow = 5
  MaxArrivals = 3
SYMMETRY ReqSymmetry
CHECK_DEADLOCK FALSE
INVARIANTS TypeOK WindowBound FailClosedBound RetryAfterHonest
PROPERTIES WindowNeverExtended
