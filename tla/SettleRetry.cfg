CONSTANTS
  Runs = {r1, r2}
  Workers = {w1}
  NoRun = NoRun
  MaxRetries = 1
  MaxFaults = 2
  Cancellable = {}
  CrashPoints <- ExecutionPoints
  RaisePoints <- ProcessPoints
  ApiFaults <- RefusedPush
  ClaimsOverrun = FALSE
SPECIFICATION FairSpec
INVARIANTS NoStrandedRun
PROPERTIES EveryRunSettles QueueForgetsSettledRuns
CHECK_DEADLOCK FALSE
