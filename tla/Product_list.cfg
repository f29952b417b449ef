SPECIFICATION ListSpec
CONSTANTS
  r1 = r1  s1 = s1  f1 = f1
  Req = {r1}
  Server = {s1}
  Id = {1, 2}
  Field = {f1}
  Defaulted = {f1}
  MaxLate = 0
  MaxStamp = 3
  Faults = {}
  CacheExpire = 10
  JitterCap = 60
  RawPage = {0,2,3,9}
  RawSize = {0,1}
  MaxSize = 3
  DefaultSize = 2
  MaxInt = 7
  NotFound = NotFound  NoRow = NoRow  Deleted = Deleted  Failed = Failed
  Rejected = Rejected  Miss = Miss  NoFlight = NoFlight
INVARIANTS ListTypeOK SequentialReadsAreCurrent WalkShowsTheList PageFitsTotal
PROPERTIES DeletedStaysDeleted
