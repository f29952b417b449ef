SPECIFICATION FairSpec
CONSTANTS
  q1 = q1  q2 = q2  q3 = q3  j1 = j1  j2 = j2
  Req = {q1, q2}
  Job = {j1, j2}
  ShutdownTimeout = 2
  DefaultTimeout = 2
  CloseTimeout = 4
  Faults = {"listen", "consume"}
CHECK_DEADLOCK FALSE
INVARIANTS TypeOK CleanExitCutsNobody GraceIsKept ExitIsBounded ResourcesOutliveUsers
PROPERTIES Stops
