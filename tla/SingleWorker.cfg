CONSTANTS
  Runs = {r1, r2}
  Workers = {w1}
  NoRun = NoRun
  MaxRetries = 1
  MaxFaults = 2
  Cancellable = {r1, r2}
  CrashPoints <- AllWorkerPoints
  RaisePoints <- ProcessPoints
  ApiFaults <- ApiFaultKinds
  ClaimsOverrun = TRUE
SPECIFICATION Spec
INVARIANTS TypeOK SingleCustody AtMostOneResult CancelledHasNoJob ExceptionsAreBounded
SYMMETRY Symmetry
CHECK_DEADLOCK FALSE
