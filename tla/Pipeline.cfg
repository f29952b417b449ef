SPECIFICATION Spec
CONSTANTS
  own = own  foreign = foreign  abc = abc
  Requests <- AllRequests
  Origin = {own, foreign}
  CORSOrigins = {own}
  LogLimit = 1
  BodyLimit = 2
  ContextWithFallback = FALSE
  ClientId = {abc}
  GeneratedId = GeneratedId  NewUUID = NewUUID
  NoOrigin = NoOrigin  NoId = NoId  NoBody = NoBody
CHECK_DEADLOCK FALSE
INVARIANTS TypeOK AnsweredOnce LoggedAsSent GatesHold BodyIntact AnswersComplete
