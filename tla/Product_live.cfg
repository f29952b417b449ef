SPECIFICATION FairSpec
CONSTANTS
  r1 = r1  r2 = r2  r3 = r3  s1 = s1  s2 = s2  k1 = k1  k2 = k2  f1 = f1  f2 = f2
  Req = {r1, r2}
  Server = {s1, s2}
  Id = {k1}
  Field = {f1}
  Defaulted = {f1}
  MaxLate = 1
  MaxStamp = 1
  Faults = {"redis", "cancel"}
  CacheExpire = 10
  JitterCap = 60
  NotFound = NotFound  NoRow = NoRow  Deleted = Deleted  Failed = Failed
  Rejected = Rejected  Miss = Miss  NoFlight = NoFlight
PROPERTIES FailureHasCause EveryRequestReplied CacheHeals
