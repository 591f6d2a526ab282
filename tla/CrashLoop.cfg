CONSTANTS
  Runs = {r1}
  Workers = {w1}
  NoRun = NoRun
  MaxRetries = 1
  MaxFaults = 2
  Cancellable = {}
  CrashPoints <- DecidePoint
  RaisePoints <- NoPoints
  ApiFaults <- NoPoints
  ClaimsOverrun = FALSE
SPECIFICATION Spec
INVARIANTS RetriesBoundStarts
CHECK_DEADLOCK FALSE
