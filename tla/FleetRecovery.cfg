CONSTANTS
  Runs = {r1}
  Workers = {w1, w2}
  NoRun = NoRun
  MaxRetries = 1
  MaxFaults = 1
  Cancellable = {}
  CrashPoints <- DecidePoint
  RaisePoints <- NoPoints
  ApiFaults <- NoPoints
  ClaimsOverrun = FALSE
SPECIFICATION Spec
INVARIANTS AtMostOneResult
CHECK_DEADLOCK FALSE
