SPECIFICATION Spec
CONSTANTS
  a1 = a1  a2 = a2  i1 = i1  i2 = i2  NoToken = NoToken
  Client = {a1, a2}
  Id = {i1}
  JwtExpire = 1
  DefaultExpire = 2
  Second = 2
  LoginTime = 1
  MaxNow = 5
SYMMETRY Symmetry
INVARIANTS TypeOK
PROPERTIES AdmissionIsRecent
